---------------------------- MODULE TaurusProofs ----------------------------
(* The invariants of the coroutine scheduler, for every number of           *)
(* coroutines, watermarks, stack sizes and ways of failing.                 *)
EXTENDS Taurus, DataLemmas

\* What TypeOK and CoroutineInOnePlace need to be inductive: only where there
\* is no scheduler there is no current coroutine.
SomeoneRuns == co_curr = NULL => updating = "cleaned"

\* What NeverStackless needs: where -1 is the only failure of
\* setup_coroutine, whatever is allocated has a stack.
HasStack == "valloc" \notin CreateFailures => \A c \in heap : stk_size[c] # 0

IInv ==
  /\ TypeOK
  /\ CoroutineInOnePlace
  /\ SomeoneRuns
  /\ CacheServesDefault
  /\ HasStack
  /\ NeverStackless
  /\ OnlyWaitingSurvive

-----------------------------------------------------------------------------
(* Lists: Lists(list, S) under a push and a pop *)

LEMMA ListsEmpty == Lists(<<>>, {})
  BY EmptyList DEF Lists

LEMMA ListsPush ==
  ASSUME NEW list \in Seq(Coroutines), NEW S, Lists(list, S),
         NEW c \in Coroutines, c \notin S
  PROVE  Append(list, c) \in Seq(Coroutines) /\ Lists(Append(list, c), S \cup {c})
  BY PushList DEF Lists

LEMMA ListsPop ==
  ASSUME NEW list \in Seq(Coroutines), NEW S, Lists(list, S), list # <<>>
  PROVE  /\ Head(list) \in Coroutines \cap S
         /\ Tail(list) \in Seq(Coroutines)
         /\ Lists(Tail(list), S \ {Head(list)})
         /\ Len(Tail(list)) <= Len(list)
<1>1. Head(list) \in Coroutines
  OBVIOUS
<1> QED BY <1>1, PopList DEF Lists

-----------------------------------------------------------------------------
(* What create_coroutine and the reclaiming of coroutines do to the types *)

LEMMA CreateTypeOK ==
  ASSUME TypeOK, NEW c \in Coroutines \cup {NULL},
         NEW size \in CustomSizes \cup {StackSize}, create_coroutine(c, size)
  PROVE  /\ heap' \subseteq Coroutines
         /\ stk_size' \in [Coroutines -> {0, StackSize} \cup CustomSizes]
  BY DEF create_coroutine, malloc_coroutine, setup_coroutine, TypeOK

LEMMA CleanupTypeOK ==
  ASSUME TypeOK, NEW S, cleanup_coroutines(S)
  PROVE  /\ heap' \subseteq Coroutines
         /\ status' \in [Coroutines \cup {Main} -> co_stat_t]
         /\ stk_size' \in [Coroutines -> {0, StackSize} \cup CustomSizes]
         /\ data' \in [Coroutines \cup {Main} -> Data \cup {NULL}]
  BY DEF cleanup_coroutines, TypeOK, co_stat_t

\* co_create returns NULL, or a coroutine that was cached or not allocated.
LEMMA CreateCases ==
  ASSUME IInv, NEW d \in Data, NEW size \in CustomSizes \cup {0, StackSize},
         NEW c \in Coroutines \cup {NULL}, co_create(d, size, c)
  PROVE  \/ c = NULL /\ UNCHANGED vars
         \/ /\ c \in Coroutines
            /\ status[c] = "null"
            /\ data' = [data EXCEPT ![c] = d]
            /\ status' = [status EXCEPT ![c] = "ready"]
            /\ co_ready_list' = Append(co_ready_list, c)
            /\ UNCHANGED <<co_dead_list, co_curr, updating>>
            /\ \/ /\ c = Head(co_cache_list) /\ co_cache_list # <<>>
                  /\ co_cache_list' = Tail(co_cache_list)
                  /\ UNCHANGED <<heap, stk_size>>
               \/ /\ c \notin heap
                  /\ \E s \in CustomSizes \cup {StackSize} : create_coroutine(c, s)
                  /\ UNCHANGED co_cache_list
<1> USE TaurusAssumption DEF TaurusAssumption
<1>1. CASE FromCache(size)
  <2>1. c = Head(co_cache_list) /\ co_cache_list # <<>>
        /\ co_cache_list' = Tail(co_cache_list) /\ UNCHANGED <<heap, stk_size>>
    BY <1>1 DEF co_create, FromCache
  <2>2. co_cache_list \in Seq(Coroutines)
        /\ Lists(co_cache_list, WithStatus("null") \cap heap)
    BY DEF IInv, TypeOK, CoroutineInOnePlace
  <2>3. c \in Coroutines \cap (WithStatus("null") \cap heap)
    BY <2>1, <2>2, ListsPop
  <2>4. c \in Coroutines /\ status[c] = "null"
    BY <2>3 DEF WithStatus
  <2> QED BY <2>1, <2>4 DEF co_create
<1>2. CASE ~FromCache(size)
  <2> DEFINE s == IF size = 0 THEN StackSize ELSE size
  <2>1. s \in CustomSizes \cup {StackSize} /\ create_coroutine(c, s)
        /\ UNCHANGED co_cache_list
    BY <1>2 DEF co_create
  <2>2. CASE c = NULL
    BY <2>1, <2>2 DEF co_create, create_coroutine, malloc_coroutine, setup_coroutine, vars
  <2>3. CASE c # NULL
    <3>1. c \in Coroutines \ heap
      BY <2>1, <2>3 DEF create_coroutine, malloc_coroutine, setup_coroutine
    <3>2. status[c] = "null"
      BY <3>1 DEF IInv, CoroutineInOnePlace
    <3> QED BY <2>1, <2>3, <3>1, <3>2 DEF co_create
  <2> QED BY <2>2, <2>3
<1> QED BY <1>1, <1>2

\* A coroutine that changes its status moves from one set to another.
LEMMA StatusMove ==
  ASSUME TypeOK, NEW c \in Coroutines, NEW s \in co_stat_t, NEW old \in co_stat_t,
         status[c] = old, old # s,
         status' = [status EXCEPT ![c] = s]
  PROVE  /\ status' \in [Coroutines \cup {Main} -> co_stat_t]
         /\ WithStatus(s)' = WithStatus(s) \cup {c}
         /\ WithStatus(old)' = WithStatus(old) \ {c}
         /\ \A q \in co_stat_t \ {s, old} : WithStatus(q)' = WithStatus(q)
         /\ \A x \in Coroutines \ {c} : status'[x] = status[x]
         /\ status'[c] = s
         /\ status'[Main] = status[Main]
<1>1. status' \in [Coroutines \cup {Main} -> co_stat_t]
  BY DEF TypeOK
<1>2. \A x \in Coroutines : status'[x] = IF x = c THEN s ELSE status[x]
  BY DEF TypeOK
<1>3. status'[Main] = status[Main]
  BY TaurusAssumption DEF TypeOK, TaurusAssumption
<1> QED BY <1>1, <1>2, <1>3 DEF WithStatus

-----------------------------------------------------------------------------
(* The actions, one by one *)

LEMMA InitIInv == Init => IInv
<1> SUFFICES ASSUME Init PROVE IInv
  OBVIOUS
<1> USE TaurusAssumption DEF TaurusAssumption
<1>1. TypeOK
  BY DEF Init, TypeOK, co_stat_t, Phases
<1>2. CoroutineInOnePlace
  <2>1. /\ WithStatus("ready") = {} /\ WithStatus("dead") = {}
        /\ WithStatus("null") \cap heap = {}
        /\ WithStatus("run") = {}
    BY DEF Init, WithStatus
  <2> QED BY <2>1, ListsEmpty DEF Init, CoroutineInOnePlace
<1>3. CacheServesDefault
  BY DEF Init, CacheServesDefault, Range
<1> QED BY <1>1, <1>2, <1>3
        DEF Init, IInv, SomeoneRuns, HasStack, NeverStackless, OnlyWaitingSurvive

\* co_thread_init only fills the cache.
LEMMA InitCacheIInv ==
  ASSUME IInv, NEW c \in Coroutines \cup {NULL}, co_thread_init_cache(c)
  PROVE  IInv'
<1> USE TaurusAssumption DEF TaurusAssumption
<1>1. CASE c = NULL
  <2>1. /\ UNCHANGED <<heap, stk_size, status, data, co_ready_list,
                       co_dead_list, co_cache_list, co_curr>>
        /\ updating = "init" /\ updating' = "user"
    BY <1>1 DEF co_thread_init_cache, create_coroutine, malloc_coroutine, setup_coroutine
  <2>2. TypeOK'
    BY <2>1 DEF IInv, TypeOK, Phases
  <2>3. CoroutineInOnePlace'
    BY <2>1 DEF IInv, CoroutineInOnePlace, WithStatus
  <2> QED BY <2>1, <2>2, <2>3 DEF IInv, SomeoneRuns, CacheServesDefault,
             HasStack, NeverStackless, OnlyWaitingSurvive
<1>2. CASE c # NULL
  <2>1. /\ c \in Coroutines \ heap
        /\ heap' = heap \cup {c}
        /\ stk_size' \in [Coroutines -> {0, StackSize} \cup CustomSizes]
        /\ \A x \in Coroutines \ {c} : stk_size'[x] = stk_size[x]
        /\ stk_size'[c] = StackSize \/ ("valloc" \in CreateFailures /\ stk_size'[c] = 0)
    BY <1>2 DEF co_thread_init_cache, create_coroutine, malloc_coroutine, setup_coroutine, IInv, TypeOK
  <2>2. /\ co_cache_list' = Append(co_cache_list, c)
        /\ updating = "init" /\ Len(co_cache_list) < Lwm
        /\ UNCHANGED <<status, data, co_ready_list, co_dead_list, co_curr, updating>>
    BY <1>2 DEF co_thread_init_cache
  <2>3. TypeOK'
    BY <2>1, <2>2 DEF IInv, TypeOK
  <2>4. status[c] = "null" /\ c \in WithStatus("null")
    BY <2>1 DEF IInv, CoroutineInOnePlace, WithStatus
  <2>5. \A q : WithStatus(q)' = WithStatus(q)
    BY <2>2 DEF WithStatus
  <2>6. Lists(co_cache_list, WithStatus("null") \cap heap)
        /\ co_cache_list \in Seq(Coroutines)
    BY DEF IInv, CoroutineInOnePlace, TypeOK
  <2>7. Lists(co_cache_list', (WithStatus("null") \cap heap) \cup {c})
    BY <2>1, <2>2, <2>6, ListsPush
  <2>8. (WithStatus("null") \cap heap) \cup {c} = (WithStatus("null") \cap heap)'
    BY <2>1, <2>4, <2>5
  <2>9. CoroutineInOnePlace'
    BY <2>1, <2>2, <2>5, <2>7, <2>8 DEF IInv, CoroutineInOnePlace
  <2>10. CacheServesDefault'
    <3>1. Len(co_cache_list') <= Lwm
      BY <2>2, <2>6
    <3>2. Range(co_cache_list') = Range(co_cache_list) \cup {c}
          /\ Range(co_cache_list) = WithStatus("null") \cap heap
      BY <2>6, <2>7 DEF Lists
    <3>3. Range(co_cache_list) \subseteq Coroutines \ {c}
      BY <3>2, <2>1 DEF WithStatus
    <3> QED BY <3>1, <3>2, <3>3, <2>1 DEF IInv, CacheServesDefault
  <2>11. HasStack'
    BY <2>1 DEF IInv, HasStack, TypeOK
  <2> QED BY <2>2, <2>3, <2>9, <2>10, <2>11
          DEF IInv, SomeoneRuns, NeverStackless, OnlyWaitingSurvive
<1> QED BY <1>1, <1>2

\* Where co_thread_init fails, nothing has been allocated.
LEMMA InitFailIInv ==
  ASSUME IInv, co_thread_init_fail
  PROVE  IInv'
<1> USE TaurusAssumption DEF TaurusAssumption
<1>1. /\ UNCHANGED <<heap, stk_size, status, data, co_ready_list,
                     co_dead_list, co_cache_list>>
      /\ heap = {} /\ updating = "init" /\ updating' = "cleaned"
      /\ co_curr = Main /\ co_curr' = NULL
  BY DEF co_thread_init_fail, IInv, CoroutineInOnePlace
<1>2. TypeOK'
  BY <1>1 DEF IInv, TypeOK, Phases
<1>3. {co_curr} \ {Main, NULL} = {co_curr'} \ {Main, NULL}
  BY <1>1
<1>4. CoroutineInOnePlace'
  BY <1>1, <1>3 DEF IInv, CoroutineInOnePlace, WithStatus
<1>5. OnlyWaitingSurvive'
  BY <1>1 DEF IInv, CoroutineInOnePlace, OnlyWaitingSurvive, WithStatus
<1> QED BY <1>1, <1>2, <1>4, <1>5
        DEF IInv, SomeoneRuns, CacheServesDefault, HasStack, NeverStackless

\* Where only main's position changes there is little to show.
LEMMA MainMovesIInv ==
  ASSUME IInv, co_thread_init_return \/ co_update_begin \/ co_update_return
  PROVE  IInv'
<1>1. /\ UNCHANGED <<heap, stk_size, status, data, co_ready_list,
                     co_dead_list, co_cache_list, co_curr>>
      /\ updating' \in {"user", "update"}
      /\ co_curr = Main
  BY DEF co_thread_init_return, co_update_begin, co_update_return, InUpdate,
         IInv, CoroutineInOnePlace
<1>2. TypeOK'
  BY <1>1 DEF IInv, TypeOK, Phases
<1>3. CoroutineInOnePlace'
  BY <1>1 DEF IInv, CoroutineInOnePlace, WithStatus
<1> QED BY <1>1, <1>2, <1>3, TaurusAssumption
        DEF IInv, SomeoneRuns, CacheServesDefault, HasStack, NeverStackless,
            OnlyWaitingSurvive, TaurusAssumption

LEMMA CreateIInv ==
  ASSUME IInv, NEW d \in Data, NEW size \in CustomSizes \cup {0, StackSize},
         NEW c \in Coroutines \cup {NULL}, co_create(d, size, c)
  PROVE  IInv'
<1> USE TaurusAssumption DEF TaurusAssumption
<1>1. CASE c = NULL /\ UNCHANGED vars
  BY <1>1 DEF vars, IInv, TypeOK, CoroutineInOnePlace, WithStatus, SomeoneRuns,
     CacheServesDefault, HasStack, NeverStackless, OnlyWaitingSurvive
<1>2. CASE ~(c = NULL /\ UNCHANGED vars)
  <2>1. /\ c \in Coroutines
        /\ status[c] = "null"
        /\ data' = [data EXCEPT ![c] = d]
        /\ status' = [status EXCEPT ![c] = "ready"]
        /\ co_ready_list' = Append(co_ready_list, c)
        /\ UNCHANGED <<co_dead_list, co_curr, updating>>
    BY <1>2, CreateCases
  <2>2. \/ /\ c = Head(co_cache_list) /\ co_cache_list # <<>>
           /\ co_cache_list' = Tail(co_cache_list)
           /\ UNCHANGED <<heap, stk_size>>
        \/ /\ c \notin heap
           /\ \E s \in CustomSizes \cup {StackSize} : create_coroutine(c, s)
           /\ UNCHANGED co_cache_list
    BY <1>2, CreateCases
  <2>3. /\ co_cache_list \in Seq(Coroutines) /\ co_ready_list \in Seq(Coroutines)
        /\ Lists(co_cache_list, WithStatus("null") \cap heap)
        /\ Lists(co_ready_list, WithStatus("ready"))
        /\ TypeOK
    BY DEF IInv, TypeOK, CoroutineInOnePlace
  <2>4. updating \in {"user", "update"}
    BY DEF co_create, UserCode
  \* Either way c is allocated now, no other coroutine is affected, and the
  \* cache holds the free coroutines other than c.
  <2>5. /\ heap' = heap \cup {c}
        /\ stk_size' \in [Coroutines -> {0, StackSize} \cup CustomSizes]
        /\ \A x \in Coroutines \ {c} : stk_size'[x] = stk_size[x]
        /\ co_cache_list' \in Seq(Coroutines)
        /\ Lists(co_cache_list', (WithStatus("null") \cap heap) \ {c})
        /\ Len(co_cache_list') <= Len(co_cache_list)
        /\ "valloc" \notin CreateFailures => stk_size'[c] # 0
    <3>1. CASE /\ c = Head(co_cache_list) /\ co_cache_list # <<>>
               /\ co_cache_list' = Tail(co_cache_list)
               /\ UNCHANGED <<heap, stk_size>>
      <4> DEFINE S == WithStatus("null") \cap heap
      <4>1. /\ Head(co_cache_list) \in Coroutines \cap S
            /\ Tail(co_cache_list) \in Seq(Coroutines)
            /\ Lists(Tail(co_cache_list), S \ {Head(co_cache_list)})
            /\ Len(Tail(co_cache_list)) <= Len(co_cache_list)
        <5> HIDE DEF S
        <5>1. Lists(co_cache_list, S)
          BY <2>3 DEF S
        <5> QED BY <5>1, <3>1, <2>3, ListsPop
      <4>2. /\ co_cache_list' \in Seq(Coroutines)
            /\ Lists(co_cache_list', S \ {c})
            /\ Len(co_cache_list') <= Len(co_cache_list)
            /\ c \in heap
        BY <4>1, <3>1
      <4>3. heap' = heap \cup {c} /\ stk_size' = stk_size
        BY <4>2, <3>1
      <4> QED BY <4>2, <4>3 DEF IInv, TypeOK, HasStack
    <3>2. CASE /\ c \notin heap
               /\ \E s \in CustomSizes \cup {StackSize} : create_coroutine(c, s)
               /\ UNCHANGED co_cache_list
      <4>1. PICK s \in CustomSizes \cup {StackSize} : create_coroutine(c, s)
        BY <3>2
      <4>2. /\ heap' = heap \cup {c}
            /\ \E granted \in setup_coroutine(s) :
                 stk_size' = [stk_size EXCEPT ![c] = granted]
        BY <4>1, <2>1 DEF create_coroutine, malloc_coroutine, setup_coroutine
      <4>3. (WithStatus("null") \cap heap) \ {c} = WithStatus("null") \cap heap
        BY <3>2
      <4>4. Len(co_cache_list') <= Len(co_cache_list)
        BY <3>2, <2>3
      <4>5. /\ stk_size' \in [Coroutines -> {0, StackSize} \cup CustomSizes]
            /\ \A x \in Coroutines \ {c} : stk_size'[x] = stk_size[x]
            /\ "valloc" \notin CreateFailures => stk_size'[c] # 0
        BY <4>2, <2>1, <2>3 DEF TypeOK, setup_coroutine
      <4>6. /\ co_cache_list' \in Seq(Coroutines)
            /\ Lists(co_cache_list', (WithStatus("null") \cap heap) \ {c})
        BY <4>3, <3>2, <2>3
      <4> QED BY <4>2, <4>4, <4>5, <4>6
    <3> QED BY <3>1, <3>2, <2>2
  <2>6. TypeOK'
    BY <2>1, <2>3, <2>5 DEF TypeOK, co_stat_t
  <2>7. /\ WithStatus("ready")' = WithStatus("ready") \cup {c}
        /\ WithStatus("null")' = WithStatus("null") \ {c}
        /\ WithStatus("dead")' = WithStatus("dead")
        /\ WithStatus("run")' = WithStatus("run")
        /\ WithStatus("wait")' = WithStatus("wait")
        /\ \A x \in Coroutines \ {c} : status'[x] = status[x]
        /\ status'[Main] = status[Main]
    BY <2>1, <2>3, StatusMove DEF co_stat_t
  <2>8. CoroutineInOnePlace'
    <3>1. c \notin WithStatus("ready")
      BY <2>1 DEF WithStatus
    <3>2. Lists(co_ready_list', WithStatus("ready")')
      BY <3>1, <2>1, <2>3, <2>7, ListsPush
    <3>3. Lists(co_cache_list', (WithStatus("null") \cap heap)')
      <4>1. (WithStatus("null") \cap heap)' = (WithStatus("null") \cap heap) \ {c}
        BY <2>5, <2>7
      <4> QED BY <4>1, <2>5
    <3> QED BY <3>2, <3>3, <2>1, <2>5, <2>7 DEF IInv, CoroutineInOnePlace
  <2>9. CacheServesDefault'
    <3>1. Range(co_cache_list') \subseteq Range(co_cache_list) \ {c}
          /\ Range(co_cache_list) \subseteq Coroutines
      BY <2>3, <2>5 DEF Lists, WithStatus
    <3>2. Len(co_cache_list) \in Nat /\ Len(co_cache_list') \in Nat
      BY <2>3, <2>5
    <3> QED BY <3>1, <3>2, <2>5 DEF IInv, CacheServesDefault
  <2>10. HasStack'
    BY <2>5 DEF IInv, HasStack, TypeOK
  <2> QED BY <2>1, <2>4, <2>6, <2>8, <2>9, <2>10
          DEF IInv, SomeoneRuns, NeverStackless, OnlyWaitingSurvive
<1> QED BY <1>1, <1>2

\* Calls that the guards of co_yield and co_resume drop, and co_set_data.
LEMMA NoMoveIInv ==
  ASSUME IInv, TypeOK',
         UNCHANGED <<heap, stk_size, status, co_ready_list, co_dead_list,
                     co_cache_list, co_curr, updating>>
  PROVE  IInv'
BY DEF IInv, CoroutineInOnePlace, WithStatus, SomeoneRuns, CacheServesDefault,
       HasStack, NeverStackless, OnlyWaitingSurvive

LEMMA YieldIInv ==
  ASSUME IInv, NEW co \in Handles, co_yield(co)
  PROVE  IInv'
<1> USE TaurusAssumption DEF TaurusAssumption
<1>1. UNCHANGED <<heap, stk_size, data, co_ready_list, co_dead_list,
                  co_cache_list, updating>>
      /\ updating \in {"user", "update"}
  BY DEF co_yield, UserCode
<1>2. CASE UNCHANGED <<status, co_curr>>
  <2>1. TypeOK'
    BY <1>1, <1>2 DEF IInv, TypeOK
  <2> QED BY <1>1, <1>2, <2>1, NoMoveIInv
<1>3. CASE ~UNCHANGED <<status, co_curr>>
  <2>1. /\ co = co_curr /\ status[co] = "run" /\ co # NULL
        /\ status' = [status EXCEPT ![co] = "wait"]
        /\ co_curr' = Main
    BY <1>3 DEF co_yield
  <2>2. co \in Coroutines
    BY <2>1 DEF Handles, IInv, TypeOK, CoroutineInOnePlace
  <2>3. /\ status' \in [Coroutines \cup {Main} -> co_stat_t]
        /\ WithStatus("run")' = WithStatus("run") \ {co}
        /\ WithStatus("ready")' = WithStatus("ready")
        /\ WithStatus("dead")' = WithStatus("dead")
        /\ WithStatus("null")' = WithStatus("null")
        /\ \A x \in Coroutines \ {co} : status'[x] = status[x]
        /\ status'[Main] = status[Main]
    BY <2>1, <2>2, StatusMove DEF co_stat_t, IInv
  <2>4. TypeOK'
    BY <1>1, <2>1, <2>3 DEF IInv, TypeOK
  <2>5. co \in heap
    BY <2>1, <2>2 DEF IInv, CoroutineInOnePlace
  <2>6. CoroutineInOnePlace'
    BY <1>1, <2>1, <2>2, <2>3, <2>5 DEF IInv, CoroutineInOnePlace
  <2> QED BY <1>1, <2>1, <2>4, <2>6
          DEF IInv, SomeoneRuns, CacheServesDefault, HasStack, NeverStackless,
              OnlyWaitingSurvive
<1> QED BY <1>2, <1>3

LEMMA ResumeIInv ==
  ASSUME IInv, NEW co \in Handles, co_resume(co)
  PROVE  IInv'
<1> USE TaurusAssumption DEF TaurusAssumption
<1>1. UNCHANGED <<heap, stk_size, data, co_dead_list, co_cache_list, co_curr, updating>>
      /\ updating \in {"user", "update"}
  BY DEF co_resume, UserCode
<1>2. CASE UNCHANGED <<status, co_ready_list>>
  <2>1. TypeOK'
    BY <1>1, <1>2 DEF IInv, TypeOK
  <2> QED BY <1>1, <1>2, <2>1, NoMoveIInv
<1>3. CASE ~UNCHANGED <<status, co_ready_list>>
  <2>1. /\ status[co] = "wait" /\ co # NULL
        /\ status' = [status EXCEPT ![co] = "ready"]
        /\ co_ready_list' = Append(co_ready_list, co)
    BY <1>3 DEF co_resume
  <2>2. co \in Coroutines /\ co \in heap
    BY <2>1 DEF Handles, IInv, TypeOK, CoroutineInOnePlace
  <2>3. /\ status' \in [Coroutines \cup {Main} -> co_stat_t]
        /\ WithStatus("ready")' = WithStatus("ready") \cup {co}
        /\ WithStatus("run")' = WithStatus("run")
        /\ WithStatus("dead")' = WithStatus("dead")
        /\ WithStatus("null")' = WithStatus("null")
        /\ \A x \in Coroutines \ {co} : status'[x] = status[x]
        /\ status'[Main] = status[Main]
    BY <2>1, <2>2, StatusMove DEF co_stat_t, IInv
  <2>4. co_ready_list \in Seq(Coroutines) /\ Lists(co_ready_list, WithStatus("ready"))
        /\ co \notin WithStatus("ready")
    BY <2>1 DEF IInv, TypeOK, CoroutineInOnePlace, WithStatus
  <2>5. co_ready_list' \in Seq(Coroutines) /\ Lists(co_ready_list', WithStatus("ready")')
    BY <2>1, <2>2, <2>3, <2>4, ListsPush
  <2>6. TypeOK'
    BY <1>1, <2>3, <2>5 DEF IInv, TypeOK
  <2>7. CoroutineInOnePlace'
    BY <1>1, <2>2, <2>3, <2>5 DEF IInv, CoroutineInOnePlace
  <2> QED BY <1>1, <2>6, <2>7
          DEF IInv, SomeoneRuns, CacheServesDefault, HasStack, NeverStackless,
              OnlyWaitingSurvive
<1> QED BY <1>2, <1>3

LEMMA SetDataIInv ==
  ASSUME IInv, NEW co \in heap, NEW d \in Data, co_set_data(co, d)
  PROVE  IInv'
<1>1. UNCHANGED <<heap, status, stk_size, co_ready_list, co_dead_list,
                  co_cache_list, co_curr, updating>>
      /\ data' = [data EXCEPT ![co] = d]
  BY DEF co_set_data
<1>2. TypeOK'
  BY <1>1 DEF IInv, TypeOK
<1> QED BY <1>1, <1>2, NoMoveIInv

LEMMA FiberFuncIInv ==
  ASSUME IInv, FiberFunc_return
  PROVE  IInv'
<1> USE TaurusAssumption DEF TaurusAssumption
<1> DEFINE c == co_curr
<1>1. /\ UNCHANGED <<heap, stk_size, data, co_ready_list, co_cache_list, updating>>
      /\ status' = [status EXCEPT ![c] = "dead"]
      /\ co_dead_list' = Append(co_dead_list, c)
      /\ co_curr' = Main
      /\ updating = "update"
      /\ c # Main
  BY DEF FiberFunc_return
<1>2. c \in Coroutines /\ c \in WithStatus("run")
  BY <1>1 DEF IInv, TypeOK, SomeoneRuns, CoroutineInOnePlace
<1>3. status[c] = "run" /\ c \in heap /\ WithStatus("run") = {c}
  BY <1>1, <1>2 DEF IInv, CoroutineInOnePlace, WithStatus
<1>4. /\ status' \in [Coroutines \cup {Main} -> co_stat_t]
      /\ WithStatus("dead")' = WithStatus("dead") \cup {c}
      /\ WithStatus("run")' = WithStatus("run") \ {c}
      /\ WithStatus("ready")' = WithStatus("ready")
      /\ WithStatus("null")' = WithStatus("null")
      /\ \A x \in Coroutines \ {c} : status'[x] = status[x]
      /\ status'[Main] = status[Main]
  <2> HIDE DEF c
  <2> QED BY <1>1, <1>2, <1>3, StatusMove DEF co_stat_t, IInv
<1>5. co_dead_list \in Seq(Coroutines) /\ Lists(co_dead_list, WithStatus("dead"))
      /\ c \notin WithStatus("dead")
  BY <1>3 DEF IInv, TypeOK, CoroutineInOnePlace, WithStatus
<1>6. co_dead_list' \in Seq(Coroutines) /\ Lists(co_dead_list', WithStatus("dead")')
  <2> HIDE DEF c
  <2> QED BY <1>1, <1>2, <1>4, <1>5, ListsPush
<1>7. TypeOK'
  BY <1>1, <1>4, <1>6 DEF IInv, TypeOK
<1>8. CoroutineInOnePlace'
  BY <1>1, <1>2, <1>3, <1>4, <1>6 DEF IInv, CoroutineInOnePlace
<1> QED BY <1>1, <1>7, <1>8
        DEF IInv, SomeoneRuns, CacheServesDefault, HasStack, NeverStackless,
            OnlyWaitingSurvive

LEMMA RunIInv ==
  ASSUME IInv, co_update_run
  PROVE  IInv'
<1> USE TaurusAssumption DEF TaurusAssumption
<1> DEFINE c == Head(co_ready_list)
<1>1. /\ UNCHANGED <<heap, stk_size, data, co_dead_list, co_cache_list>>
      /\ status' = [status EXCEPT ![c] = "run"]
      /\ co_curr' = c
      /\ updating' = IF stk_size[c] = 0 THEN "crashed" ELSE "update"
      /\ co_ready_list # <<>>
      /\ co_ready_list' = Tail(co_ready_list)
      /\ updating = "update" /\ co_curr = Main
  BY DEF co_update_run, InUpdate
<1>2. co_ready_list \in Seq(Coroutines) /\ Lists(co_ready_list, WithStatus("ready"))
  BY DEF IInv, TypeOK, CoroutineInOnePlace
<1>3. /\ c \in Coroutines \cap WithStatus("ready")
      /\ co_ready_list' \in Seq(Coroutines)
      /\ Lists(co_ready_list', WithStatus("ready") \ {c})
  BY <1>1, <1>2, ListsPop
<1>4. status[c] = "ready" /\ c \in heap
  BY <1>3 DEF WithStatus, IInv, CoroutineInOnePlace
<1> HIDE DEF c
<1>5. /\ status' \in [Coroutines \cup {Main} -> co_stat_t]
      /\ WithStatus("run")' = WithStatus("run") \cup {c}
      /\ WithStatus("ready")' = WithStatus("ready") \ {c}
      /\ WithStatus("dead")' = WithStatus("dead")
      /\ WithStatus("null")' = WithStatus("null")
      /\ \A x \in Coroutines \ {c} : status'[x] = status[x]
      /\ status'[Main] = status[Main]
  BY <1>1, <1>3, <1>4, StatusMove DEF co_stat_t, IInv
<1>6. TypeOK'
  BY <1>1, <1>3, <1>5 DEF IInv, TypeOK, Phases
<1>7. CoroutineInOnePlace'
  <2>1. WithStatus("run")' = {co_curr'} \ {Main, NULL}
    BY <1>1, <1>3, <1>5 DEF IInv, CoroutineInOnePlace
  <2> QED BY <2>1, <1>1, <1>3, <1>4, <1>5 DEF IInv, CoroutineInOnePlace
<1>8. NeverStackless'
  BY <1>1, <1>4 DEF IInv, HasStack, NeverStackless
<1>9. SomeoneRuns'
  BY <1>1, <1>3 DEF SomeoneRuns
<1> QED BY <1>1, <1>6, <1>7, <1>8, <1>9
        DEF IInv, CacheServesDefault, HasStack, OnlyWaitingSurvive

LEMMA ReapIInv ==
  ASSUME IInv, co_update_reap
  PROVE  IInv'
<1> USE TaurusAssumption DEF TaurusAssumption
<1> DEFINE c == Head(co_dead_list)
<1>1. /\ UNCHANGED <<co_ready_list, co_curr, updating>>
      /\ co_dead_list # <<>>
      /\ co_dead_list' = Tail(co_dead_list)
      /\ updating = "update" /\ co_curr = Main
      /\ \/ /\ Reusable(c)
            /\ status' = [status EXCEPT ![c] = "null"]
            /\ co_cache_list' = Append(co_cache_list, c)
            /\ UNCHANGED <<heap, stk_size, data>>
         \/ /\ cleanup_coroutines({c})
            /\ UNCHANGED co_cache_list
  BY DEF co_update_reap, InUpdate
<1>2. co_dead_list \in Seq(Coroutines) /\ Lists(co_dead_list, WithStatus("dead"))
  BY DEF IInv, TypeOK, CoroutineInOnePlace
<1>3. /\ c \in Coroutines \cap WithStatus("dead")
      /\ co_dead_list' \in Seq(Coroutines)
      /\ Lists(co_dead_list', WithStatus("dead") \ {c})
  BY <1>1, <1>2, ListsPop
<1>4. status[c] = "dead" /\ c \in heap /\ c \in Coroutines
  BY <1>3 DEF WithStatus, IInv, CoroutineInOnePlace
<1> HIDE DEF c
<1>5. status' = [status EXCEPT ![c] = "null"]
  <2>1. CASE cleanup_coroutines({c})
    BY <2>1, <1>4 DEF cleanup_coroutines, IInv, TypeOK
  <2> QED BY <2>1, <1>1
<1>6. /\ status' \in [Coroutines \cup {Main} -> co_stat_t]
      /\ WithStatus("dead")' = WithStatus("dead") \ {c}
      /\ WithStatus("null")' = WithStatus("null") \cup {c}
      /\ WithStatus("ready")' = WithStatus("ready")
      /\ WithStatus("run")' = WithStatus("run")
      /\ \A x \in Coroutines \ {c} : status'[x] = status[x]
      /\ status'[Main] = status[Main]
      /\ status'[c] = "null"
  BY <1>4, <1>5, StatusMove DEF co_stat_t, IInv
<1>7. /\ co_cache_list \in Seq(Coroutines)
      /\ Lists(co_cache_list, WithStatus("null") \cap heap)
      /\ c \notin WithStatus("null") \cap heap
  BY <1>4 DEF IInv, TypeOK, CoroutineInOnePlace, WithStatus
<1>8. CASE /\ Reusable(c)
           /\ co_cache_list' = Append(co_cache_list, c)
           /\ UNCHANGED <<heap, stk_size, data>>
  <2>1. /\ co_cache_list' \in Seq(Coroutines)
        /\ Lists(co_cache_list', (WithStatus("null") \cap heap) \cup {c})
    BY <1>8, <1>4, <1>7, ListsPush
  <2>2. (WithStatus("null") \cap heap)' = (WithStatus("null") \cap heap) \cup {c}
    BY <1>8, <1>4, <1>6
  <2>3. TypeOK'
    BY <1>1, <1>3, <1>6, <1>8, <2>1 DEF IInv, TypeOK
  <2>4. CoroutineInOnePlace'
    BY <1>1, <1>3, <1>6, <1>8, <2>1, <2>2 DEF IInv, CoroutineInOnePlace
  <2>5. CacheServesDefault'
    <3>1. Range(co_cache_list') = Range(co_cache_list) \cup {c}
      BY <1>7, <2>1 DEF Lists
    <3>2. Len(co_cache_list') <= Hwm /\ stk_size[c] = StackSize
      BY <1>8, <1>7 DEF Reusable
    <3> QED BY <3>1, <3>2, <1>8 DEF IInv, CacheServesDefault
  <2> QED BY <1>1, <1>8, <2>3, <2>4, <2>5
          DEF IInv, SomeoneRuns, HasStack, NeverStackless, OnlyWaitingSurvive
<1>9. CASE /\ cleanup_coroutines({c})
           /\ UNCHANGED co_cache_list
  <2>1. heap' = heap \ {c} /\ \A x \in Coroutines \ {c} : stk_size'[x] = stk_size[x]
    BY <1>9 DEF cleanup_coroutines
  <2>2. (WithStatus("null") \cap heap)' = WithStatus("null") \cap heap
    BY <2>1, <1>6, <1>7
  <2>3. TypeOK'
    <3>1. /\ heap' \subseteq Coroutines
          /\ stk_size' \in [Coroutines -> {0, StackSize} \cup CustomSizes]
          /\ data' \in [Coroutines \cup {Main} -> Data \cup {NULL}]
      BY <1>9, CleanupTypeOK DEF IInv
    <3> QED BY <3>1, <1>1, <1>3, <1>6, <1>9 DEF IInv, TypeOK
  <2>4. CoroutineInOnePlace'
    BY <1>1, <1>3, <1>6, <1>9, <2>1, <2>2 DEF IInv, CoroutineInOnePlace
  <2>5. CacheServesDefault'
    <3>1. Range(co_cache_list) \subseteq Coroutines \ {c}
      BY <1>7 DEF Lists, WithStatus
    <3> QED BY <3>1, <1>9, <2>1 DEF IInv, CacheServesDefault
  <2>6. HasStack'
    BY <2>1 DEF IInv, HasStack, TypeOK
  <2> QED BY <1>1, <2>3, <2>4, <2>5, <2>6
          DEF IInv, SomeoneRuns, NeverStackless, OnlyWaitingSurvive
<1> QED BY <1>1, <1>8, <1>9

LEMMA CleanupIInv ==
  ASSUME IInv, co_thread_cleanup
  PROVE  IInv'
<1> USE TaurusAssumption DEF TaurusAssumption
<1> DEFINE S == Range(co_cache_list) \cup Range(co_dead_list) \cup Range(co_ready_list)
<1>1. /\ cleanup_coroutines(S)
      /\ co_cache_list' = <<>> /\ co_dead_list' = <<>> /\ co_ready_list' = <<>>
      /\ co_curr' = NULL
      /\ updating = "user" /\ updating' = "cleaned"
  BY DEF co_thread_cleanup
<1>2. S = (WithStatus("null") \cap heap) \cup WithStatus("dead") \cup WithStatus("ready")
  BY DEF IInv, CoroutineInOnePlace, Lists
<1> HIDE DEF S
<1>3. TypeOK'
  <2>1. /\ heap' \subseteq Coroutines
        /\ status' \in [Coroutines \cup {Main} -> co_stat_t]
        /\ stk_size' \in [Coroutines -> {0, StackSize} \cup CustomSizes]
        /\ data' \in [Coroutines \cup {Main} -> Data \cup {NULL}]
    BY <1>1, CleanupTypeOK DEF IInv
  <2> QED BY <2>1, <1>1 DEF TypeOK, Phases
<1>4. /\ heap' = heap \ S
      /\ \A c \in Coroutines : status'[c] = IF c \in S THEN "null" ELSE status[c]
      /\ \A c \in Coroutines : stk_size'[c] = IF c \in S THEN 0 ELSE stk_size[c]
  BY <1>1 DEF cleanup_coroutines, IInv, TypeOK
<1>5. status'[Main] = "null"
  <2>1. Main \in DOMAIN status /\ status[Main] = "null"
    BY DEF IInv, TypeOK, CoroutineInOnePlace
  <2> QED BY <2>1, <1>1 DEF cleanup_coroutines
<1>6. \A c \in Coroutines : status[c] # "run"
  BY <1>1 DEF IInv, CoroutineInOnePlace, WithStatus
<1>7. \A c \in Coroutines :
        /\ c \in heap' <=> status'[c] = "wait"
        /\ status'[c] \in {"null", "wait"}
  BY <1>2, <1>4, <1>6 DEF IInv, TypeOK, CoroutineInOnePlace, WithStatus, co_stat_t
<1>8. CoroutineInOnePlace'
  <2>1. /\ WithStatus("ready")' = {} /\ WithStatus("dead")' = {}
        /\ WithStatus("run")' = {} /\ (WithStatus("null") \cap heap)' = {}
    BY <1>7 DEF WithStatus
  <2> QED BY <2>1, <1>1, <1>5, <1>7, ListsEmpty DEF CoroutineInOnePlace
<1>9. CacheServesDefault'
  BY <1>1 DEF CacheServesDefault, Range
<1>10. OnlyWaitingSurvive'
  BY <1>3, <1>7 DEF OnlyWaitingSurvive, WithStatus, TypeOK
<1>11. HasStack'
  BY <1>4 DEF IInv, HasStack, TypeOK
<1> QED BY <1>1, <1>3, <1>8, <1>9, <1>10, <1>11
        DEF IInv, SomeoneRuns, NeverStackless

-----------------------------------------------------------------------------
(* The theorems *)

LEMMA StepIInv == IInv /\ [Next]_vars => IInv'
<1> SUFFICES ASSUME IInv, [Next]_vars PROVE IInv'
  OBVIOUS
<1>1. CASE UNCHANGED vars
  <2>1. TypeOK'
    BY <1>1 DEF vars, IInv, TypeOK
  <2> QED BY <1>1, <2>1, NoMoveIInv DEF vars
<1>2. CASE Next
  BY <1>2, InitCacheIInv, InitFailIInv, MainMovesIInv, CreateIInv, YieldIInv, ResumeIInv,
     SetDataIInv, FiberFuncIInv, RunIInv, ReapIInv, CleanupIInv DEF Next
<1> QED BY <1>1, <1>2

\* The strengthened invariant holds in every state.
THEOREM TaurusInductive == Spec => []IInv
  BY InitIInv, StepIInv, PTL DEF Spec

\* The variables stay within the ranges of the C structures.
THEOREM TaurusTypeOK == Spec => []TypeOK
  BY TaurusInductive, PTL DEF IInv

\* No coroutine is lost or in two lists, for any number of coroutines and any
\* order of calls.
THEOREM TaurusInOnePlace == Spec => []CoroutineInOnePlace
  BY TaurusInductive, PTL DEF IInv

\* The cache stays within the watermarks and serves default stacks only.
THEOREM TaurusCache == Spec => []CacheServesDefault
  BY TaurusInductive, PTL DEF IInv

\* Where creation fails with -1 only, no switch goes to a missing stack.
THEOREM TaurusNeverStackless == Spec => []NeverStackless
  BY TaurusInductive, PTL DEF IInv

\* co_thread_cleanup frees everything but the waiting coroutines.
THEOREM TaurusCleanup == Spec => []OnlyWaitingSurvive
  BY TaurusInductive, PTL DEF IInv
=============================================================================
