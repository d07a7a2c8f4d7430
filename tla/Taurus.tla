------------------------------- MODULE Taurus -------------------------------
(***************************************************************************)
(* The coroutine scheduler of rmi/taurus_imp.cpp: one thread, one          *)
(* cothread_ctx.                                                           *)
(*                                                                         *)
(* A coroutine is a pointer, a member of Coroutines while it is malloc'ed  *)
(* (heap) and Main for co_main.  The three bd_lists are sequences in the   *)
(* order bd_pop_back delivers them: bd_push_front is Append, bd_pop_back   *)
(* is Head and Tail.  func and data travel together and are one value,     *)
(* data.  An action is what runs between two context switches or two calls *)
(* into the scheduler; co_curr says whose code runs, updating whether main *)
(* is inside co_update.                                                    *)
(***************************************************************************)
EXTENDS Integers, Sequences, Functions

CONSTANTS
  Coroutines,       \* the addresses malloc_coroutine can return
  Main,             \* co_main
  Data,             \* what callers pass as func and data
  NULL,
  StackSize,        \* co_stack_size, the default
  CustomSizes,      \* other stack sizes callers ask for
  Lwm,              \* low_watermark: coroutines cached at start
  Hwm,              \* high_watermark: dead coroutines kept for reuse
  CreateFailures    \* how create_coroutine may fail on this platform

TaurusAssumption ==
  /\ Main \notin Coroutines
  /\ NULL \notin Coroutines \cup {Main} \cup Data
  /\ StackSize \in Nat \ {0}
  /\ CustomSizes \subseteq Nat \ {0, StackSize}
  /\ Lwm \in Nat
  /\ Hwm \in Nat
  \* malloc: no memory; setup: CreateFiber or getcontext fails (-1);
  \* valloc: the POSIX setup_coroutine finds no stack and returns -2
  /\ CreateFailures \subseteq {"malloc", "setup", "valloc"}

ASSUME TaurusAssumption

VARIABLES
  heap,             \* the coroutines that are allocated
  status,           \* coroutine::status
  stk_size,         \* coroutine::stk_size, 0 when it has no stack
  data,             \* coroutine::func and coroutine::data
  co_ready_list,
  co_dead_list,
  co_cache_list,
  co_curr,          \* whose code runs
  updating          \* where main is

vars == <<heap, status, stk_size, data, co_ready_list, co_dead_list,
          co_cache_list, co_curr, updating>>

co_stat_t == {"null", "ready", "run", "wait", "dead"}

\* Where main is: in co_thread_init, in its own code, in co_update,
\* without a scheduler (past co_thread_cleanup, or none was had), or past a
\* switch to a coroutine without a stack.
Phases == {"init", "user", "update", "cleaned", "crashed"}

\* Code outside taurus_imp.cpp runs: main's, or that of the current coroutine.
UserCode == updating = "user" \/ (updating = "update" /\ co_curr # Main)

-----------------------------------------------------------------------------
(* Creation and destruction *)

Init ==
  /\ heap = {}
  /\ status = [c \in Coroutines \cup {Main} |-> "null"]
  /\ stk_size = [c \in Coroutines |-> 0]
  /\ data = [c \in Coroutines \cup {Main} |-> NULL]
  /\ co_ready_list = <<>>
  /\ co_dead_list = <<>>
  /\ co_cache_list = <<>>
  /\ co_curr = Main
  /\ updating = "init"

\* An address that is not in use.
malloc_coroutine(c) == c \in Coroutines \ heap

\* The size of the stack that setup_coroutine gives a coroutine, unless it
\* fails with -1: after -2 the coroutine has none.
setup_coroutine(ssize) ==
  {ssize} \cup (IF "valloc" \in CreateFailures THEN {0} ELSE {})

\* Mutant: the failure of setup_coroutine is not looked at.
create_coroutine_unchecked(c, size) ==
  /\ malloc_coroutine(c)
  /\ heap' = heap \cup {c}
  /\ \E granted \in {size, 0} : stk_size' = [stk_size EXCEPT ![c] = granted]

\* create_coroutine(size) returns c.  Only -1 is taken for a failure of
\* setup_coroutine: after -2 the coroutine is handed out without a stack.
create_coroutine(c, size) ==
  \/ /\ malloc_coroutine(c)
     /\ heap' = heap \cup {c}
     /\ \E granted \in setup_coroutine(size) :
          stk_size' = [stk_size EXCEPT ![c] = granted]
  \/ /\ c = NULL
     /\ CreateFailures \cap {"malloc", "setup"} # {}
     /\ UNCHANGED <<heap, stk_size>>

\* cleanup_coroutine and free_coroutine of a set of coroutines; the memset of
\* the next malloc_coroutine is taken here.
cleanup_coroutines(S) ==
  /\ heap' = heap \ S
  /\ status' = [c \in DOMAIN status |-> IF c \in S THEN "null" ELSE status[c]]
  /\ stk_size' = [c \in Coroutines |-> IF c \in S THEN 0 ELSE stk_size[c]]
  /\ data' = [c \in DOMAIN data |-> IF c \in S THEN NULL ELSE data[c]]

\* One turn of co_thread_init's loop.
co_thread_init_cache(c) ==
  /\ updating = "init"
  /\ Len(co_cache_list) < Lwm
  /\ create_coroutine(c, StackSize)
  /\ IF c = NULL
       THEN updating' = "user" /\ UNCHANGED co_cache_list
       ELSE co_cache_list' = Append(co_cache_list, c) /\ UNCHANGED updating
  /\ UNCHANGED <<status, data, co_ready_list, co_dead_list, co_curr>>

co_thread_init_return ==
  /\ updating = "init"
  /\ Len(co_cache_list) >= Lwm
  /\ updating' = "user"
  /\ UNCHANGED <<heap, status, stk_size, data, co_ready_list, co_dead_list,
                 co_cache_list, co_curr>>

\* No memory for the cothread_ctx or for co_main, or init_main_coroutine fails:
\* co_thread_init returns 0, past co_thread_cleanup if it had a context (a
\* co_main that is not there is used all the same, and ends the program).
co_thread_init_fail ==
  /\ updating = "init"
  /\ heap = {}
  /\ CreateFailures \cap {"malloc", "setup"} # {}
  /\ co_curr' = NULL
  /\ updating' = "cleaned"
  /\ UNCHANGED <<heap, status, stk_size, data, co_ready_list, co_dead_list,
                 co_cache_list>>

\* Mutant: co_ready_list is not emptied.
co_thread_cleanup_ready_kept ==
  /\ updating = "user"
  /\ cleanup_coroutines(Range(co_cache_list) \cup Range(co_dead_list))
  /\ co_cache_list' = <<>>
  /\ co_dead_list' = <<>>
  /\ co_curr' = NULL
  /\ updating' = "cleaned"
  /\ UNCHANGED co_ready_list

\* There is no list of waiting coroutines: they stay allocated.
co_thread_cleanup ==
  /\ updating = "user"
  /\ cleanup_coroutines(Range(co_cache_list) \cup Range(co_dead_list)
                          \cup Range(co_ready_list))
  /\ co_cache_list' = <<>>
  /\ co_dead_list' = <<>>
  /\ co_ready_list' = <<>>
  /\ co_curr' = NULL
  /\ updating' = "cleaned"

-----------------------------------------------------------------------------
(* What main and the coroutines call *)

\* co_create(d, size) returns c; no size, or the default one, is served from
\* the cache first.
FromCache(size) == size \in {0, StackSize} /\ co_cache_list # <<>>

\* Mutant: a coroutine from the cache keeps its old function and data.
co_create_stale_data(d, size, c) ==
  /\ UserCode
  /\ \/ /\ FromCache(size)
        /\ c = Head(co_cache_list)
        /\ co_cache_list' = Tail(co_cache_list)
        /\ UNCHANGED <<heap, stk_size, data>>
     \/ /\ ~FromCache(size)
        /\ create_coroutine(c, IF size = 0 THEN StackSize ELSE size)
        /\ data' = IF c = NULL THEN data ELSE [data EXCEPT ![c] = d]
        /\ UNCHANGED co_cache_list
  /\ IF c = NULL
       THEN UNCHANGED <<status, co_ready_list>>
       ELSE /\ status' = [status EXCEPT ![c] = "ready"]
            /\ co_ready_list' = Append(co_ready_list, c)
  /\ UNCHANGED <<co_dead_list, co_curr, updating>>

\* Mutant: a failed creation is queued like a successful one.
co_create_unchecked(d, size, c) ==
  /\ UserCode
  /\ create_coroutine(c, IF size = 0 THEN StackSize ELSE size)
  /\ co_ready_list' = Append(co_ready_list, c)
  /\ UNCHANGED <<status, data, co_dead_list, co_cache_list, co_curr, updating>>

co_create(d, size, c) ==
  /\ UserCode
  /\ \/ /\ FromCache(size)
        /\ c = Head(co_cache_list)
        /\ co_cache_list' = Tail(co_cache_list)
        /\ UNCHANGED <<heap, stk_size>>
     \/ /\ ~FromCache(size)
        /\ create_coroutine(c, IF size = 0 THEN StackSize ELSE size)
        /\ UNCHANGED co_cache_list
  /\ IF c = NULL
       THEN UNCHANGED <<data, status, co_ready_list>>
       ELSE /\ data' = [data EXCEPT ![c] = d]
            /\ status' = [status EXCEPT ![c] = "ready"]
            /\ co_ready_list' = Append(co_ready_list, c)
  /\ UNCHANGED <<co_dead_list, co_curr, updating>>

\* Suspends the caller; a coroutine that is not the running one is left alone.
co_yield(co) ==
  /\ UserCode
  /\ IF co # NULL /\ co = co_curr /\ status[co] = "run"
       THEN /\ status' = [status EXCEPT ![co] = "wait"]
            /\ co_curr' = Main
       ELSE UNCHANGED <<status, co_curr>>
  /\ UNCHANGED <<heap, stk_size, data, co_ready_list, co_dead_list,
                 co_cache_list, updating>>

\* Mutant: the status is not tested.
co_resume_unchecked(co) ==
  /\ UserCode
  /\ IF co # NULL /\ co # co_curr
       THEN /\ status' = [status EXCEPT ![co] = "ready"]
            /\ co_ready_list' = Append(co_ready_list, co)
       ELSE UNCHANGED <<status, co_ready_list>>
  /\ UNCHANGED <<heap, stk_size, data, co_dead_list, co_cache_list,
                 co_curr, updating>>

\* Mutant: the resumed coroutine is not pushed on co_ready_list.
co_resume_unqueued(co) ==
  /\ UserCode
  /\ IF co # NULL /\ co # co_curr /\ status[co] = "wait"
       THEN status' = [status EXCEPT ![co] = "ready"]
       ELSE UNCHANGED status
  /\ UNCHANGED <<heap, stk_size, data, co_ready_list, co_dead_list,
                 co_cache_list, co_curr, updating>>

\* Only a waiting coroutine is resumed; any other call is dropped.
co_resume(co) ==
  /\ UserCode
  /\ IF co # NULL /\ co # co_curr /\ status[co] = "wait"
       THEN /\ status' = [status EXCEPT ![co] = "ready"]
            /\ co_ready_list' = Append(co_ready_list, co)
       ELSE UNCHANGED <<status, co_ready_list>>
  /\ UNCHANGED <<heap, stk_size, data, co_dead_list, co_cache_list,
                 co_curr, updating>>

co_set_data(co, d) ==
  /\ UserCode
  /\ data' = [data EXCEPT ![co] = d]
  /\ UNCHANGED <<heap, status, stk_size, co_ready_list, co_dead_list,
                 co_cache_list, co_curr, updating>>

co_get_data(co) == data[co]

\* func(data) returns into FiberFunc.
FiberFunc_return ==
  /\ updating = "update"
  /\ co_curr # Main
  /\ status' = [status EXCEPT ![co_curr] = "dead"]
  /\ co_dead_list' = Append(co_dead_list, co_curr)
  /\ co_curr' = Main
  /\ UNCHANGED <<heap, stk_size, data, co_ready_list, co_cache_list, updating>>

-----------------------------------------------------------------------------
(* co_update: run everything that is ready, then reap what has died *)

InUpdate == updating = "update" /\ co_curr = Main

co_update_begin ==
  /\ updating = "user"
  /\ updating' = "update"
  /\ UNCHANGED <<heap, status, stk_size, data, co_ready_list, co_dead_list,
                 co_cache_list, co_curr>>

\* Mutant: the list is popped at the end it is pushed at.
co_update_run_lifo ==
  /\ InUpdate
  /\ co_ready_list # <<>>
  /\ LET c == co_ready_list[Len(co_ready_list)] IN
       /\ status' = [status EXCEPT ![c] = "run"]
       /\ co_curr' = c
       /\ updating' = IF stk_size[c] = 0 THEN "crashed" ELSE "update"
  /\ co_ready_list' = SubSeq(co_ready_list, 1, Len(co_ready_list) - 1)
  /\ UNCHANGED <<heap, stk_size, data, co_dead_list, co_cache_list>>

\* The context of a coroutine without a stack is the one getcontext took in a
\* frame that has returned: switching to it is undefined, and the run ends.
co_update_run ==
  /\ InUpdate
  /\ co_ready_list # <<>>
  /\ LET c == Head(co_ready_list) IN
       /\ status' = [status EXCEPT ![c] = "run"]
       /\ co_curr' = c
       /\ updating' = IF stk_size[c] = 0 THEN "crashed" ELSE "update"
  /\ co_ready_list' = Tail(co_ready_list)
  /\ UNCHANGED <<heap, stk_size, data, co_dead_list, co_cache_list>>

\* Mutant: any stack is taken for the default one.
Reusable_any_stack(c) == Len(co_cache_list) < Hwm

Reusable(c) == stk_size[c] = StackSize /\ Len(co_cache_list) < Hwm

co_update_reap ==
  /\ InUpdate
  /\ co_ready_list = <<>>
  /\ co_dead_list # <<>>
  /\ LET c == Head(co_dead_list) IN
       \/ /\ Reusable(c)
          /\ status' = [status EXCEPT ![c] = "null"]
          /\ co_cache_list' = Append(co_cache_list, c)
          /\ UNCHANGED <<heap, stk_size, data>>
       \/ /\ ~Reusable(c)
          /\ cleanup_coroutines({c})
          /\ UNCHANGED co_cache_list
  /\ co_dead_list' = Tail(co_dead_list)
  /\ UNCHANGED <<co_ready_list, co_curr, updating>>

co_update_return ==
  /\ InUpdate
  /\ co_ready_list = <<>>
  /\ co_dead_list = <<>>
  /\ updating' = "user"
  /\ UNCHANGED <<heap, status, stk_size, data, co_ready_list, co_dead_list,
                 co_cache_list, co_curr>>

-----------------------------------------------------------------------------

\* Callers hold pointers to what is allocated, and may hold NULL.
Handles == heap \cup {Main, NULL}

Next ==
  \/ \E c \in Coroutines \cup {NULL} : co_thread_init_cache(c)
  \/ co_thread_init_return
  \/ co_thread_init_fail
  \/ \E d \in Data, size \in CustomSizes \cup {0, StackSize},
        c \in Coroutines \cup {NULL} : co_create(d, size, c)
  \/ \E co \in Handles : co_yield(co)
  \/ \E co \in Handles : co_resume(co)
  \/ \E co \in heap, d \in Data : co_set_data(co, d)
  \/ FiberFunc_return
  \/ co_update_begin
  \/ co_update_run
  \/ co_update_reap
  \/ co_update_return
  \/ co_thread_cleanup

Spec == Init /\ [][Next]_vars

\* A slice of a coroutine ends: it suspends itself or its function returns.
SliceEnds == co_yield(co_curr) \/ FiberFunc_return

\* main keeps calling co_update, whose loops make progress, and user code is
\* cooperative: every slice ends.
FairSpec ==
  /\ Spec
  /\ WF_vars(co_thread_init_return)
  /\ WF_vars(co_update_begin)
  /\ WF_vars(co_update_run)
  /\ WF_vars(co_update_reap)
  /\ WF_vars(co_update_return)
  /\ WF_vars(co_curr # Main /\ SliceEnds)

-----------------------------------------------------------------------------
(* Properties *)

\* The variables hold what the C structures can hold.
TypeOK ==
  /\ heap \subseteq Coroutines
  /\ status \in [Coroutines \cup {Main} -> co_stat_t]
  /\ stk_size \in [Coroutines -> {0, StackSize} \cup CustomSizes]
  /\ data \in [Coroutines \cup {Main} -> Data \cup {NULL}]
  /\ co_ready_list \in Seq(Coroutines)
  /\ co_dead_list \in Seq(Coroutines)
  /\ co_cache_list \in Seq(Coroutines)
  /\ co_curr \in Coroutines \cup {Main, NULL}
  /\ updating \in Phases

WithStatus(s) == {c \in Coroutines : status[c] = s}

\* A list holds each of the coroutines of S once, and nothing else.
Lists(list, S) == IsInjective(list) /\ Range(list) = S

\* No coroutine is lost or queued twice, whatever the order in which main and
\* the coroutines create, resume, suspend and end each other: status says
\* which list holds it, and only the current one runs (the intrusive bd_node
\* would be corrupted by a second insertion).
CoroutineInOnePlace ==
  /\ Lists(co_ready_list, WithStatus("ready"))
  /\ Lists(co_dead_list, WithStatus("dead"))
  /\ Lists(co_cache_list, WithStatus("null") \cap heap)
  /\ WithStatus("run") = {co_curr} \ {Main, NULL}
  /\ \A c \in Coroutines : status[c] # "null" => c \in heap
  /\ status[Main] = "null"
  /\ (updating \in {"init", "user"} => co_curr = Main)

\* However many coroutines live and die, the cache keeps at most the larger
\* watermark of them, and co_create never hands out from it a stack of
\* another size than the default one (co_update tests stk_size before it
\* recycles; only the POSIX valloc failure leaves a coroutine without stack).
CacheServesDefault ==
  /\ Len(co_cache_list) <= Lwm \/ Len(co_cache_list) <= Hwm
  /\ \A c \in Range(co_cache_list) :
       stk_size[c] = StackSize \/ ("valloc" \in CreateFailures /\ stk_size[c] = 0)

\* Where setup_coroutine fails with -1 only, co_update never switches to a
\* coroutine that has no stack.
NeverStackless == "valloc" \notin CreateFailures => updating # "crashed"

\* co_thread_cleanup frees everything but the coroutines that wait.
OnlyWaitingSurvive == updating = "cleaned" => heap = WithStatus("wait")

\* FIFO order: a ready coroutine runs, even while others keep each other
\* ready inside one co_update.
ReadyRuns ==
  \A c \in Coroutines :
    status[c] = "ready" ~> (status[c] = "run" \/ updating \in {"cleaned", "crashed"})
=============================================================================
