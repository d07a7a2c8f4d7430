------------------------- MODULE TaskManagerProofs -------------------------
(* The invariants of the task manager, for every number of tasks and of      *)
(* coroutines and of task ids, whether ids wrap or not, and that it          *)
(* implements TaskBatches while they do not.                                 *)
EXTENDS TaskManager, DataLemmas

\* What TaurusProofs shows of the scheduler.  Its definitions under Sch are
\* those of the instance Co.
Sch == INSTANCE TaurusProofs WITH Data <- Tasks

-----------------------------------------------------------------------------
(* From Co to Sch and back *)

LEMMA SchAssumption == Sch!TaurusAssumption
  BY SchedulerAssumption DEF SchedulerAssumption, Co!TaurusAssumption, Sch!TaurusAssumption

LEMMA SchInit == Co!Init => Sch!Init
  BY DEF Co!Init, Sch!Init

LEMMA SchNext == Co!Next => Sch!Next
<1> USE DEF Co!UserCode, Sch!UserCode, Co!InUpdate, Sch!InUpdate
<1> USE DEF Co!create_coroutine, Co!malloc_coroutine, Co!setup_coroutine, Co!cleanup_coroutines,
            Sch!create_coroutine, Sch!malloc_coroutine, Sch!setup_coroutine, Sch!cleanup_coroutines
<1>1. ASSUME NEW c, Co!co_thread_init_cache(c) PROVE Sch!co_thread_init_cache(c)
  BY <1>1 DEF Co!co_thread_init_cache, Sch!co_thread_init_cache
<1>2. ASSUME NEW c, NEW d, NEW size, Co!co_create(d, size, c) PROVE Sch!co_create(d, size, c)
  BY <1>2 DEF Co!co_create, Sch!co_create, Co!FromCache, Sch!FromCache
<1>3. ASSUME NEW co, Co!co_yield(co) PROVE Sch!co_yield(co)
  BY <1>3 DEF Co!co_yield, Sch!co_yield
<1>4. ASSUME NEW co, Co!co_resume(co) PROVE Sch!co_resume(co)
  BY <1>4 DEF Co!co_resume, Sch!co_resume
<1>5. ASSUME NEW co, NEW d, Co!co_set_data(co, d) PROVE Sch!co_set_data(co, d)
  BY <1>5 DEF Co!co_set_data, Sch!co_set_data
<1>6. Co!co_thread_init_return => Sch!co_thread_init_return
  BY DEF Co!co_thread_init_return, Sch!co_thread_init_return
<1>7. Co!FiberFunc_return => Sch!FiberFunc_return
  BY DEF Co!FiberFunc_return, Sch!FiberFunc_return
<1>8. Co!co_update_begin => Sch!co_update_begin
  BY DEF Co!co_update_begin, Sch!co_update_begin
<1>9. Co!co_update_run => Sch!co_update_run
  BY DEF Co!co_update_run, Sch!co_update_run
<1>10. Co!co_update_reap => Sch!co_update_reap
  BY DEF Co!co_update_reap, Sch!co_update_reap, Co!Reusable, Sch!Reusable
<1>11. Co!co_update_return => Sch!co_update_return
  BY DEF Co!co_update_return, Sch!co_update_return
<1>12. Co!co_thread_cleanup => Sch!co_thread_cleanup
  BY DEF Co!co_thread_cleanup, Sch!co_thread_cleanup, Co!Range, Sch!Range
<1>13. Co!co_thread_init_fail => Sch!co_thread_init_fail
  BY DEF Co!co_thread_init_fail, Sch!co_thread_init_fail
<1> HIDE DEF Co!UserCode, Sch!UserCode, Co!InUpdate, Sch!InUpdate,
            Co!create_coroutine, Co!malloc_coroutine, Co!setup_coroutine, Co!cleanup_coroutines,
            Sch!create_coroutine, Sch!malloc_coroutine, Sch!setup_coroutine, Sch!cleanup_coroutines
<1> QED BY <1>1, <1>2, <1>3, <1>4, <1>5, <1>6, <1>7, <1>8, <1>9, <1>10, <1>11, <1>12, <1>13
        DEF Co!Next, Sch!Next, Co!Handles, Sch!Handles

\* What the scheduler's invariant says, under the names of Co.
LEMMA SchInvariant ==
  ASSUME Sch!IInv
  PROVE  /\ Co!TypeOK /\ Co!CoroutineInOnePlace /\ Co!NeverStackless
         /\ co_curr = NULL => updating = "cleaned"
<1>1. Co!TypeOK
  BY DEF Sch!IInv, Co!TypeOK, Sch!TypeOK, Co!co_stat_t, Sch!co_stat_t, Co!Phases, Sch!Phases
<1>2. Co!CoroutineInOnePlace
  BY DEF Sch!IInv, Co!CoroutineInOnePlace, Sch!CoroutineInOnePlace, Co!Lists, Sch!Lists,
         Co!WithStatus, Sch!WithStatus, Co!Range, Sch!Range, Co!IsInjective, Sch!IsInjective
<1>3. Co!NeverStackless
  BY DEF Sch!IInv, Co!NeverStackless, Sch!NeverStackless
<1> QED BY <1>1, <1>2, <1>3 DEF Sch!IInv, Sch!SomeoneRuns

LEMMA SchStep ==
  ASSUME Sch!IInv, [Co!Next]_coVars
  PROVE  Sch!IInv' /\ Co!TypeOK'
<1>1. [Sch!Next]_Sch!vars
  BY SchNext DEF coVars, Sch!vars
<1>2. Sch!IInv'
  BY <1>1, SchAssumption, Sch!StepIInv
<1>3. Co!TypeOK'
  BY <1>2 DEF Sch!IInv, Co!TypeOK, Sch!TypeOK, Co!co_stat_t, Sch!co_stat_t, Co!Phases, Sch!Phases
<1> QED BY <1>2, <1>3

-----------------------------------------------------------------------------
(* The invariant *)

\* What NoticeMatchesList needs: while OnNotice walks over m_ready_list nothing
\* is pushed, for no code of a task runs.
NoticeRuns == itr # 0 => updating = "user" /\ ~already_add_notice

\* The parts of TablesNeverDangle.
SearchFindsLive ==
  \A id \in TaskIDs : FindTask(id) # NULL =>
    phase[FindTask(id)] = "live" /\ m_id[FindTask(id)] = id

PendingWait ==
  \A i \in Pending : m_ready_list[i].is_new =>
    LET t == m_ready_list[i].task IN
      /\ phase[t] = "live"
      /\ m_co[t] = NULL
      /\ \A j \in Pending \ {i} : m_ready_list[j] # NewItem(t)

Numbered == \A t \in Tasks : phase[t] # "free" => m_id[t] # 0

IInv ==
  /\ Sch!IInv
  /\ TypeOK
  /\ TaskOwnsCoroutine
  /\ SearchFindsLive
  /\ PendingWait
  /\ Numbered
  /\ NoticeMatchesList
  /\ NoticeRuns

LEMMA Parts == SearchFindsLive /\ PendingWait /\ Numbered <=> TablesNeverDangle
  BY DEF SearchFindsLive, PendingWait, Numbered, TablesNeverDangle

-----------------------------------------------------------------------------
(* Helpers *)

LEMMA NextID == m_id_generator \in TaskIDs => AllocID \in TaskIDs \ {0}
<1> SUFFICES ASSUME m_id_generator \in TaskIDs PROVE AllocID \in TaskIDs \ {0}
  OBVIOUS
<1>1. IdMod \in Nat \ {0, 1}
  BY TaskAssumption DEF TaskAssumption
<1>2. (m_id_generator + 1) % IdMod \in TaskIDs
  BY <1>1, ModRange DEF TaskIDs
<1>3. 1 % IdMod = 1
  BY <1>1, ModSmall
<1> QED BY <1>1, <1>2, <1>3 DEF AllocID, TaskIDs

\* An element of m_ready_list is one or the other.
LEMMA Items ==
  ASSUME NEW x \in ReadyInfo
  PROVE  \/ x.is_new /\ x.task \in Tasks /\ x = NewItem(x.task)
            /\ \A t : x = NewItem(t) => t = x.task
         \/ ~x.is_new /\ x.task_id \in TaskIDs /\ \A t : x # NewItem(t)
  BY DEF ReadyInfo, NewItem, ResumeItem

\* The code of a task is that of the current coroutine's.
LEMMA Current ==
  ASSUME IInv, InTask
  PROVE  /\ co_curr \in Coroutines /\ co_curr \in heap /\ co_curr # NULL
         /\ status[co_curr] = "run"
         /\ CurrentTask = data[co_curr]
         /\ CurrentTask \in Tasks
         /\ m_co[CurrentTask] = co_curr
         /\ phase[CurrentTask] # "free"
         /\ updating = "update" /\ itr = 0
<1>1. /\ Co!TypeOK /\ Co!CoroutineInOnePlace
      /\ co_curr = NULL => updating = "cleaned"
  BY SchInvariant DEF IInv
<1>2. co_curr # Main /\ itr = 0 /\ (updating = "user" => co_curr = Main)
      /\ updating \in {"user", "update"}
  BY <1>1 DEF InTask, Calling, Co!UserCode, Co!CoroutineInOnePlace
<1>3. co_curr \in Coroutines /\ co_curr # NULL /\ co_curr \in Co!WithStatus("run")
  BY <1>1, <1>2 DEF Co!TypeOK, Co!CoroutineInOnePlace
<1>4. status[co_curr] = "run" /\ co_curr \in heap
  BY <1>1, <1>3 DEF Co!WithStatus, Co!CoroutineInOnePlace
<1>5. data[co_curr] # NULL /\ m_co[data[co_curr]] = co_curr
  BY <1>3, <1>4 DEF IInv, TaskOwnsCoroutine
<1>6. data[co_curr] \in Tasks
  BY <1>1, <1>3, <1>5 DEF Co!TypeOK
<1>7. phase[data[co_curr]] # "free"
  BY <1>3, <1>5, <1>6 DEF IInv, TaskOwnsCoroutine
<1> QED BY <1>2, <1>3, <1>4, <1>5, <1>6, <1>7 DEF CurrentTask, Co!co_get_data

-----------------------------------------------------------------------------
(* The manager uses the scheduler as its interface allows *)

LEMMA Handled ==
  ASSUME IInv, NEW t \in Tasks
  PROVE  m_co[t] \in heap \cup {NULL}
<1>1. m_co[t] \in Coroutines \cup {NULL}
  BY DEF IInv, TypeOK
<1>2. ASSUME m_co[t] # NULL PROVE m_co[t] \in heap
  <2>1. m_co[t] \in Coroutines /\ status[m_co[t]] # "null"
    BY <1>1, <1>2 DEF IInv, TaskOwnsCoroutine
  <2>2. Co!CoroutineInOnePlace
    BY SchInvariant DEF IInv
  <2> QED BY <2>1, <2>2 DEF Co!CoroutineInOnePlace
<1> QED BY <1>2

LEMMA AtItemTyped ==
  ASSUME IInv, NEW b \in BOOLEAN, AtItem(b)
  PROVE  /\ itr \in 1 .. Len(m_ready_list) /\ itr \in Pending /\ itr # 0
         /\ m_ready_list[itr] \in ReadyInfo
         /\ m_ready_list[itr].is_new = b
<1>1. m_ready_list \in Seq(ReadyInfo) /\ itr \in 1 .. Len(m_ready_list)
  BY DEF IInv, TypeOK, AtItem
<1> QED BY <1>1 DEF AtItem, Pending

LEMMA UsesScheduler == IInv /\ [Next]_vars => [Co!Next]_coVars
<1> SUFFICES ASSUME IInv, [Next]_vars PROVE [Co!Next]_coVars
  OBVIOUS
<1>1. CASE UNCHANGED vars
  BY <1>1 DEF vars
<1>2. CASE Startup
  BY <1>2 DEF Startup, Co!Next
<1>3. ASSUME NEW t \in Tasks, StartTask(t) PROVE UNCHANGED coVars
  BY <1>3 DEF StartTask
<1>4. ASSUME NEW id \in TaskIDs, ResumeTask(id) PROVE UNCHANGED coVars
  BY <1>4 DEF ResumeTask
<1>5. ASSUME InTask, NEW f, SuspendIn(f) PROVE Co!Next
  <2>1. m_co[CurrentTask] \in Co!Handles
    BY <1>5, Current DEF Co!Handles
  <2> QED BY <1>5, <2>1 DEF SuspendIn, Co!Next
<1>6. ASSUME NEW id \in TaskIDs, Join(id) PROVE [Co!Next]_coVars
  BY <1>5, <1>6 DEF Join
<1>7. CASE Suspend \/ Yield
  BY <1>5, <1>7 DEF Suspend, Yield
<1>8. CASE OnTaskFinished
  BY <1>8 DEF OnTaskFinished
<1>9. CASE ExecuteReturn
  BY <1>9 DEF ExecuteReturn, Co!Next
<1>10. CASE OnNotice_begin
  BY <1>10 DEF OnNotice_begin
<1>11. CASE OnNotice_new
  <2>1. m_ready_list[itr].task \in Tasks
    BY <1>11, AtItemTyped, Items DEF OnNotice_new
  <2>2. \E c \in Coroutines \cup {NULL} : Co!co_create(m_ready_list[itr].task, StackSize, c)
    BY <1>11 DEF OnNotice_new, InitTask
  <2> QED BY <2>1, <2>2 DEF Co!Next
<1>12. CASE OnNotice_resume
  <2> DEFINE t == FindTask(m_ready_list[itr].task_id)
  <2>1. m_ready_list[itr].task_id \in TaskIDs
    BY <1>12, AtItemTyped, Items DEF OnNotice_resume
  <2>2. t \in Tasks \cup {NULL}
    BY <2>1 DEF IInv, TypeOK, FindTask
  <2>3. CASE t = NULL
    BY <1>12, <2>3 DEF OnNotice_resume
  <2>4. CASE t # NULL
    <3>1. Co!co_resume(m_co[t])
      BY <1>12, <2>4 DEF OnNotice_resume, Resume
    <3>2. m_co[t] \in Co!Handles
      BY <2>2, <2>4, Handled DEF Co!Handles
    <3> HIDE DEF t
    <3> QED BY <3>1, <3>2 DEF Co!Next
  <2> QED BY <2>3, <2>4
<1>13. CASE OnNotice_update
  BY <1>13 DEF OnNotice_update, Co!Next
<1>14. CASE RunTask \/ Reap \/ OnNotice_return
  BY <1>14 DEF RunTask, Reap, OnNotice_return, Co!Next
<1> QED BY <1>1, <1>2, <1>3, <1>4, <1>6, <1>7, <1>8, <1>9, <1>10, <1>11, <1>12, <1>13, <1>14
        DEF Next

-----------------------------------------------------------------------------
(* What preserves a part of the invariant *)

InUse(c) == status[c] \in {"ready", "run", "wait"}

\* The same coroutines are in use as before, with the same data.
KeepsUse ==
  /\ \A c \in Coroutines : InUse(c)' = InUse(c) /\ (InUse(c) => data'[c] = data[c])
  /\ data'[Main] = data[Main]

LEMMA OwnsKept ==
  ASSUME IInv, UNCHANGED m_co, KeepsUse,
         \A t \in Tasks : phase[t] # "free" => phase'[t] # "free"
  PROVE  TaskOwnsCoroutine'
  BY DEF IInv, TypeOK, TaskOwnsCoroutine, KeepsUse, InUse

\* Nothing new waits in m_ready_list, and those that do are left alone.
LEMMA PendingKept ==
  ASSUME IInv,
         \A i \in Pending' : m_ready_list'[i].is_new =>
           i \in Pending /\ m_ready_list'[i] = m_ready_list[i],
         m_ready_list' \in Seq(ReadyInfo),
         \A t \in Tasks : phase[t] = "live" /\ m_co[t] = NULL =>
           phase'[t] = "live" /\ m_co'[t] = NULL
  PROVE  PendingWait'
<1> SUFFICES ASSUME NEW i \in Pending', m_ready_list'[i].is_new
             PROVE  LET t == m_ready_list'[i].task IN
                      /\ phase'[t] = "live" /\ m_co'[t] = NULL
                      /\ \A j \in Pending' \ {i} : m_ready_list'[j] # NewItem(t)
  BY DEF PendingWait
<1> DEFINE t == m_ready_list'[i].task
<1>1. i \in Pending /\ m_ready_list[i] = m_ready_list'[i] /\ m_ready_list[i] \in ReadyInfo
  BY DEF Pending, IInv, TypeOK
<1>2. t \in Tasks
  BY <1>1, Items
<1>3. /\ phase[t] = "live" /\ m_co[t] = NULL
      /\ \A j \in Pending \ {i} : m_ready_list[j] # NewItem(t)
  BY <1>1 DEF IInv, PendingWait
<1>4. ASSUME NEW j \in Pending' \ {i}, m_ready_list'[j] = NewItem(t) PROVE FALSE
  <2>1. m_ready_list'[j].is_new
    BY <1>4 DEF NewItem
  <2> QED BY <2>1, <1>3, <1>4
<1> QED BY <1>2, <1>3, <1>4

\* A push of a task to resume.
LEMMA PushResume ==
  ASSUME IInv, NEW id \in TaskIDs, itr = 0, PushReady(ResumeItem(id))
  PROVE  /\ m_ready_list' \in Seq(ReadyInfo) /\ already_add_notice' \in BOOLEAN /\ itr' = 0
         /\ \A i \in Pending' : m_ready_list'[i].is_new =>
              i \in Pending /\ m_ready_list'[i] = m_ready_list[i]
         /\ NoticeMatchesList' /\ NoticeRuns'
<1>1. ResumeItem(id) \in ReadyInfo /\ ~ResumeItem(id).is_new
  BY DEF ReadyInfo, ResumeItem
<1>2. m_ready_list \in Seq(ReadyInfo)
  BY DEF IInv, TypeOK
<1>3. m_ready_list' = Append(m_ready_list, ResumeItem(id)) /\ already_add_notice' /\ itr' = 0
  BY DEF PushReady
<1>4. /\ m_ready_list' \in Seq(ReadyInfo) /\ m_ready_list' # <<>>
      /\ Len(m_ready_list') = Len(m_ready_list) + 1
      /\ m_ready_list'[Len(m_ready_list) + 1] = ResumeItem(id)
      /\ \A i \in 1 .. Len(m_ready_list) : m_ready_list'[i] = m_ready_list[i]
  BY <1>1, <1>2, <1>3
<1>5. ASSUME NEW i \in Pending', m_ready_list'[i].is_new
      PROVE  i \in Pending /\ m_ready_list'[i] = m_ready_list[i]
  <2>1. i \in 1 .. Len(m_ready_list) + 1
    BY <1>4, <1>5 DEF Pending
  <2>2. i # Len(m_ready_list) + 1
    BY <1>1, <1>4, <1>5
  <2>3. i \in 1 .. Len(m_ready_list)
    BY <2>1, <2>2, <1>2
  <2> QED BY <2>3, <1>2, <1>4 DEF Pending
<1> QED BY <1>3, <1>4, <1>5 DEF NoticeMatchesList, NoticeRuns

\* The notice variables are left alone.
LEMMA NoticeKept ==
  ASSUME IInv, UNCHANGED noticeVars
  PROVE  /\ m_ready_list' \in Seq(ReadyInfo) /\ already_add_notice' \in BOOLEAN /\ itr' \in Nat
         /\ \A i \in Pending' : m_ready_list'[i].is_new =>
              i \in Pending /\ m_ready_list'[i] = m_ready_list[i]
         /\ NoticeMatchesList' /\ (updating' = updating => NoticeRuns')
  BY DEF IInv, TypeOK, noticeVars, Pending, NoticeMatchesList, NoticeRuns

LEMMA Rests == IInv /\ UNCHANGED vars => IInv'
<1> SUFFICES ASSUME IInv, UNCHANGED vars PROVE IInv'
  OBVIOUS
<1>1. Sch!IInv' /\ Co!TypeOK'
  BY SchStep DEF vars, IInv
<1>2. UNCHANGED <<coVars, taskVars, tableVars, noticeVars>>
  BY DEF vars
<1>3. UNCHANGED <<heap, status, stk_size, data, co_ready_list, co_dead_list, co_cache_list,
                  co_curr, updating, phase, m_id, m_co, frame, m_id_generator, m_search_table,
                  m_join_table, m_ready_list, already_add_notice, itr>>
  BY <1>2 DEF coVars, taskVars, tableVars, noticeVars
<1>4. TypeOK'
  BY <1>1, <1>3 DEF IInv, TypeOK
<1>5. TaskOwnsCoroutine'
  BY <1>3 DEF IInv, TaskOwnsCoroutine
<1>6. SearchFindsLive' /\ Numbered' /\ PendingWait'
  BY <1>3 DEF IInv, SearchFindsLive, Numbered, PendingWait, FindTask, Pending
<1>7. NoticeMatchesList' /\ NoticeRuns'
  BY <1>3 DEF IInv, NoticeMatchesList, NoticeRuns
<1> QED BY <1>1, <1>4, <1>5, <1>6, <1>7 DEF IInv

LEMMA StepTypes == IInv /\ [Next]_vars => Sch!IInv' /\ Co!TypeOK'
  BY UsesScheduler, SchStep DEF IInv

LEMMA HeadReady ==
  ASSUME IInv, co_ready_list # <<>>
  PROVE  Head(co_ready_list) \in Coroutines /\ status[Head(co_ready_list)] = "ready"
<1>1. Co!TypeOK /\ Co!CoroutineInOnePlace
  BY SchInvariant DEF IInv
<1>2. co_ready_list \in Seq(Coroutines) /\ Co!Range(co_ready_list) = Co!WithStatus("ready")
  BY <1>1 DEF Co!TypeOK, Co!CoroutineInOnePlace, Co!Lists
<1>3. Head(co_ready_list) \in Co!Range(co_ready_list)
  BY <1>2 DEF Co!Range
<1> QED BY <1>2, <1>3 DEF Co!WithStatus

LEMMA HeadDead ==
  ASSUME IInv, co_dead_list # <<>>
  PROVE  Head(co_dead_list) \in Coroutines /\ status[Head(co_dead_list)] = "dead"
<1>1. Co!TypeOK /\ Co!CoroutineInOnePlace
  BY SchInvariant DEF IInv
<1>2. co_dead_list \in Seq(Coroutines) /\ Co!Range(co_dead_list) = Co!WithStatus("dead")
  BY <1>1 DEF Co!TypeOK, Co!CoroutineInOnePlace, Co!Lists
<1>3. Head(co_dead_list) \in Co!Range(co_dead_list)
  BY <1>2 DEF Co!Range
<1> QED BY <1>2, <1>3 DEF Co!WithStatus

\* But for co_create and the end of a coroutine, the scheduler's operations
\* only move coroutines that are in use, or that are not.
LEMMA SchedulerKeepsUse ==
  ASSUME IInv,
         \/ UNCHANGED coVars
         \/ \E c \in Coroutines \cup {NULL} : Co!co_thread_init_cache(c)
         \/ Co!co_thread_init_return
         \/ \E co \in Coroutines \cup {NULL} : Co!co_yield(co) \/ Co!co_resume(co)
         \/ Co!co_update_begin \/ Co!co_update_run \/ Co!co_update_reap \/ Co!co_update_return
  PROVE  KeepsUse
<1> USE SchedulerAssumption DEF SchedulerAssumption, Co!TaurusAssumption, KeepsUse, InUse
<1>1. Co!TypeOK
  BY DEF IInv, TypeOK
<1>2. CASE UNCHANGED coVars
  BY <1>2 DEF coVars
<1>3. ASSUME NEW c \in Coroutines \cup {NULL}, Co!co_thread_init_cache(c) PROVE KeepsUse
  BY <1>3 DEF Co!co_thread_init_cache
<1>4. CASE Co!co_thread_init_return \/ Co!co_update_begin \/ Co!co_update_return
  BY <1>4 DEF Co!co_thread_init_return, Co!co_update_begin, Co!co_update_return
<1>5. ASSUME NEW co \in Coroutines \cup {NULL}, Co!co_yield(co) PROVE KeepsUse
  BY <1>1, <1>5 DEF Co!co_yield, Co!TypeOK
<1>6. ASSUME NEW co \in Coroutines \cup {NULL}, Co!co_resume(co) PROVE KeepsUse
  BY <1>1, <1>6 DEF Co!co_resume, Co!TypeOK
<1>7. CASE Co!co_update_run
  BY <1>1, <1>7, HeadReady DEF Co!co_update_run, Co!TypeOK
<1>8. CASE Co!co_update_reap
  <2> DEFINE c == Head(co_dead_list)
  <2>1. c \in Coroutines /\ status[c] = "dead"
    BY <1>8, HeadDead DEF Co!co_update_reap
  <2>2. CASE status' = [status EXCEPT ![c] = "null"] /\ UNCHANGED data
    BY <1>1, <2>1, <2>2 DEF Co!TypeOK
  <2>3. CASE Co!cleanup_coroutines({c})
    <3>1. /\ status' = [x \in DOMAIN status |-> IF x \in {c} THEN "null" ELSE status[x]]
          /\ data' = [x \in DOMAIN data |-> IF x \in {c} THEN NULL ELSE data[x]]
      BY <2>3 DEF Co!cleanup_coroutines
    <3> HIDE DEF c
    <3> QED BY <1>1, <2>1, <3>1 DEF Co!TypeOK
  <2> QED BY <1>8, <2>2, <2>3 DEF Co!co_update_reap
<1> QED BY <1>2, <1>3, <1>4, <1>5, <1>6, <1>7, <1>8

LEMMA TablesKept ==
  ASSUME IInv, UNCHANGED <<phase, m_id, m_search_table>>
  PROVE  SearchFindsLive' /\ Numbered'
  BY DEF IInv, SearchFindsLive, Numbered, FindTask

-----------------------------------------------------------------------------
(* The actions, one by one *)

\* Main's walk through co_thread_init and co_update.
LEMMA MainWalksIInv ==
  ASSUME IInv, Startup \/ Reap \/ OnNotice_return
  PROVE  IInv'
<1>1. Sch!IInv' /\ Co!TypeOK'
  BY StepTypes DEF Next
<1>2. UNCHANGED <<taskVars, tableVars, noticeVars>>
  BY DEF Startup, Reap, OnNotice_return
<1>3. KeepsUse
  BY SchedulerKeepsUse DEF Startup, Reap, OnNotice_return
<1>4. UNCHANGED <<phase, m_id, m_co, frame, m_id_generator, m_search_table, m_join_table>>
  BY <1>2 DEF taskVars, tableVars
<1>5. TypeOK'
  BY <1>1, <1>2, <1>4, NoticeKept DEF IInv, TypeOK
<1>6. TaskOwnsCoroutine'
  BY <1>3, <1>4, OwnsKept
<1>7. SearchFindsLive' /\ Numbered'
  BY <1>4, TablesKept
<1>8. PendingWait'
  BY <1>2, <1>4, NoticeKept, PendingKept
<1>9. updating # "user" /\ itr = 0
  <2>1. updating # "user"
    BY DEF Startup, Reap, OnNotice_return, Co!co_thread_init_cache, Co!co_thread_init_return,
           Co!co_update_reap, Co!co_update_return, Co!InUpdate
  <2> QED BY <2>1 DEF IInv, NoticeRuns
<1>10. NoticeMatchesList' /\ NoticeRuns'
  BY <1>2, <1>9, NoticeKept DEF NoticeRuns, noticeVars
<1> QED BY <1>1, <1>5, <1>6, <1>7, <1>8, <1>10 DEF IInv

LEMMA RunTaskIInv ==
  ASSUME IInv, RunTask
  PROVE  IInv'
<1>1. Sch!IInv' /\ Co!TypeOK'
  BY StepTypes DEF Next
<1>2. /\ Co!co_update_run
      /\ frame' = [frame EXCEPT ![data[Head(co_ready_list)]] = NoFrame]
      /\ UNCHANGED <<phase, m_id, m_co, tableVars, noticeVars>>
  BY DEF RunTask
<1>3. KeepsUse
  BY <1>2, SchedulerKeepsUse
<1>4. UNCHANGED <<m_id_generator, m_search_table, m_join_table>>
  BY <1>2 DEF tableVars
<1>5. NoFrame \in Frame
  BY TaskAssumption DEF NoFrame, Frame, TaskIDs, TaskAssumption
<1>6. TypeOK'
  BY <1>1, <1>2, <1>4, <1>5, NoticeKept DEF IInv, TypeOK
<1>7. TaskOwnsCoroutine'
  BY <1>2, <1>3, OwnsKept
<1>8. SearchFindsLive' /\ Numbered'
  BY <1>2, <1>4, TablesKept
<1>9. PendingWait'
  BY <1>2, NoticeKept, PendingKept
<1>10. updating # "user" /\ itr = 0
  BY <1>2 DEF Co!co_update_run, Co!InUpdate, IInv, NoticeRuns
<1>11. NoticeMatchesList' /\ NoticeRuns'
  BY <1>2, <1>10, NoticeKept DEF NoticeRuns, noticeVars
<1> QED BY <1>1, <1>6, <1>7, <1>8, <1>9, <1>11 DEF IInv

LEMMA BeginIInv ==
  ASSUME IInv, OnNotice_begin
  PROVE  IInv'
<1>1. Sch!IInv' /\ Co!TypeOK'
  BY StepTypes DEF Next
<1>2. /\ updating = "user" /\ itr = 0 /\ ~already_add_notice' /\ itr' = 1
      /\ UNCHANGED <<coVars, taskVars, tableVars, m_ready_list>>
      /\ already_add_notice' \in BOOLEAN
  BY DEF OnNotice_begin
<1>3. UNCHANGED <<updating, phase, m_id, m_co, frame, m_id_generator, m_search_table, m_join_table>>
  BY <1>2 DEF taskVars, tableVars, coVars
<1>4. TypeOK'
  BY <1>1, <1>2, <1>3 DEF IInv, TypeOK
<1>5. TaskOwnsCoroutine'
  BY <1>2, <1>3, SchedulerKeepsUse, OwnsKept
<1>6. SearchFindsLive' /\ Numbered'
  BY <1>3, TablesKept
<1>7. PendingWait'
  <2>1. m_ready_list \in Seq(ReadyInfo)
    BY DEF IInv, TypeOK
  <2>2. Pending' = Pending
    BY <1>2, <2>1 DEF Pending
  <2> QED BY <1>2, <1>3, <2>1, <2>2, PendingKept
<1>8. NoticeMatchesList' /\ NoticeRuns'
  BY <1>2, <1>3 DEF NoticeMatchesList, NoticeRuns
<1> QED BY <1>1, <1>4, <1>5, <1>6, <1>7, <1>8 DEF IInv

LEMMA UpdateIInv ==
  ASSUME IInv, OnNotice_update
  PROVE  IInv'
<1>1. Sch!IInv' /\ Co!TypeOK'
  BY StepTypes DEF Next
<1>2. /\ itr > Len(m_ready_list) /\ m_ready_list' = <<>> /\ itr' = 0
      /\ Co!co_update_begin
      /\ UNCHANGED <<taskVars, tableVars, already_add_notice>>
  BY DEF OnNotice_update
<1>3. UNCHANGED <<phase, m_id, m_co, frame, m_id_generator, m_search_table, m_join_table>>
  BY <1>2 DEF taskVars, tableVars
<1>4. TypeOK'
  BY <1>1, <1>2, <1>3 DEF IInv, TypeOK
<1>5. TaskOwnsCoroutine'
  BY <1>2, <1>3, SchedulerKeepsUse, OwnsKept
<1>6. SearchFindsLive' /\ Numbered'
  BY <1>3, TablesKept
<1>7. PendingWait'
  BY <1>2 DEF PendingWait, Pending
<1>8. itr # 0
  <2>1. m_ready_list \in Seq(ReadyInfo)
    BY DEF IInv, TypeOK
  <2> QED BY <1>2, <2>1
<1>9. NoticeMatchesList' /\ NoticeRuns'
  BY <1>2, <1>8 DEF IInv, NoticeMatchesList, NoticeRuns
<1> QED BY <1>1, <1>4, <1>5, <1>6, <1>7, <1>9 DEF IInv

LEMMA StartTaskIInv ==
  ASSUME IInv, NEW t \in Tasks, StartTask(t)
  PROVE  IInv'
<1>1. Sch!IInv' /\ Co!TypeOK'
  BY StepTypes DEF Next
<1>2. /\ itr = 0 /\ phase[t] = "free"
      /\ m_id_generator' = AllocID
      /\ phase' = [phase EXCEPT ![t] = "live"]
      /\ m_id' = [m_id EXCEPT ![t] = AllocID]
      /\ m_co' = [m_co EXCEPT ![t] = NULL]
      /\ m_search_table' = [m_search_table EXCEPT ![AllocID] = t]
      /\ m_ready_list' = Append(m_ready_list, NewItem(t))
      /\ already_add_notice' = TRUE /\ itr' = 0
      /\ UNCHANGED <<coVars, frame, m_join_table>>
  BY DEF StartTask, Calling, PushReady
<1>3. AllocID \in TaskIDs \ {0}
  BY NextID DEF IInv, TypeOK
<1>4. NewItem(t) \in ReadyInfo /\ m_ready_list \in Seq(ReadyInfo)
  BY DEF ReadyInfo, IInv, TypeOK
<1> HIDE DEF NewItem
<1>5. /\ m_ready_list' \in Seq(ReadyInfo) /\ m_ready_list' # <<>>
      /\ Len(m_ready_list') = Len(m_ready_list) + 1
      /\ m_ready_list'[Len(m_ready_list) + 1] = NewItem(t)
      /\ \A i \in 1 .. Len(m_ready_list) : m_ready_list'[i] = m_ready_list[i]
  BY <1>2, <1>4
<1>6. m_co[t] = NULL /\ m_co' = m_co
  BY <1>2 DEF IInv, TypeOK, TaskOwnsCoroutine
<1>7. TypeOK'
  BY <1>1, <1>2, <1>3, <1>5, <1>6 DEF IInv, TypeOK
<1>8. TaskOwnsCoroutine'
  <2>1. KeepsUse
    BY <1>2, SchedulerKeepsUse
  <2>2. \A x \in Tasks : phase[x] # "free" => phase'[x] # "free"
    BY <1>2 DEF IInv, TypeOK
  <2> QED BY <1>6, <2>1, <2>2, OwnsKept
<1>9. SearchFindsLive'
  BY <1>2, <1>3 DEF IInv, TypeOK, SearchFindsLive, FindTask
<1>10. Numbered'
  BY <1>2, <1>3 DEF IInv, TypeOK, Numbered
<1>11. PendingWait'
  <2>1. /\ \A i \in Pending : i \in 1 .. Len(m_ready_list) /\ m_ready_list'[i] = m_ready_list[i]
        /\ Pending' = Pending \cup {Len(m_ready_list) + 1}
        /\ Len(m_ready_list) + 1 \notin Pending
    BY <1>2, <1>4, <1>5 DEF Pending
  <2>2. \A i \in Pending : m_ready_list[i] # NewItem(t)
    <3> SUFFICES ASSUME NEW i \in Pending, m_ready_list[i] = NewItem(t) PROVE FALSE
      OBVIOUS
    <3>1. m_ready_list[i].is_new /\ m_ready_list[i].task = t
      BY DEF NewItem
    <3>2. phase[t] = "live"
      BY <3>1 DEF IInv, PendingWait
    <3> QED BY <3>2, <1>2
  <2>3. NewItem(t).is_new /\ NewItem(t).task = t
    BY DEF NewItem
  <2> SUFFICES ASSUME NEW i \in Pending', m_ready_list'[i].is_new
               PROVE  LET x == m_ready_list'[i].task IN
                        /\ phase'[x] = "live" /\ m_co'[x] = NULL
                        /\ \A j \in Pending' \ {i} : m_ready_list'[j] # NewItem(x)
    BY DEF PendingWait
  <2>4. CASE i = Len(m_ready_list) + 1
    <3>1. phase'[t] = "live" /\ m_co'[t] = NULL
      BY <1>2, <1>6 DEF IInv, TypeOK
    <3> QED BY <2>1, <2>2, <2>3, <2>4, <3>1, <1>5
  <2>5. CASE i \in Pending
    <3> DEFINE x == m_ready_list[i].task
    <3>1. m_ready_list'[i] = m_ready_list[i] /\ m_ready_list[i] \in ReadyInfo
          /\ m_ready_list[i].is_new
      BY <2>1, <2>5, <1>4
    <3>2. x \in Tasks /\ m_ready_list[i] = NewItem(x)
      BY <3>1, Items
    <3>3. /\ phase[x] = "live" /\ m_co[x] = NULL
          /\ \A j \in Pending \ {i} : m_ready_list[j] # NewItem(x)
      BY <3>1, <2>5 DEF IInv, PendingWait
    <3>4. x # t
      BY <3>2, <2>2, <2>5
    <3>5. NewItem(t) # NewItem(x)
      <4>1. NewItem(x).task = x
        BY DEF NewItem
      <4> QED BY <4>1, <2>3, <3>4
    <3>6. phase'[x] = "live"
      BY <3>2, <3>3, <3>4, <1>2 DEF IInv, TypeOK
    <3> QED BY <3>1, <3>3, <3>5, <3>6, <2>1, <1>5, <1>6
  <2> QED BY <2>1, <2>4, <2>5
<1>12. NoticeMatchesList' /\ NoticeRuns'
  BY <1>2, <1>5 DEF NoticeMatchesList, NoticeRuns
<1> QED BY <1>1, <1>7, <1>8, <1>9, <1>10, <1>11, <1>12 DEF IInv

LEMMA ResumeTaskIInv ==
  ASSUME IInv, NEW id \in TaskIDs, ResumeTask(id)
  PROVE  IInv'
<1>1. Sch!IInv' /\ Co!TypeOK'
  BY StepTypes DEF Next
<1>2. itr = 0 /\ UNCHANGED <<coVars, taskVars, tableVars>>
  BY DEF ResumeTask, Calling
<1>3. /\ m_ready_list' \in Seq(ReadyInfo) /\ already_add_notice' \in BOOLEAN /\ itr' \in Nat
      /\ \A i \in Pending' : m_ready_list'[i].is_new =>
           i \in Pending /\ m_ready_list'[i] = m_ready_list[i]
      /\ NoticeMatchesList' /\ NoticeRuns'
  BY <1>2, PushResume, NoticeKept DEF ResumeTask, coVars
<1>4. UNCHANGED <<phase, m_id, m_co, frame, m_id_generator, m_search_table, m_join_table>>
  BY <1>2 DEF taskVars, tableVars
<1>5. TypeOK'
  BY <1>1, <1>3, <1>4 DEF IInv, TypeOK
<1>6. TaskOwnsCoroutine'
  BY <1>2, <1>4, SchedulerKeepsUse, OwnsKept
<1> QED BY <1>1, <1>3, <1>4, <1>5, <1>6, TablesKept, PendingKept DEF IInv

\* A task suspends itself, in _Suspend, _Yield or _Join.
LEMMA SuspendsIInv ==
  ASSUME IInv, Suspend \/ Yield \/ \E id \in TaskIDs : Join(id)
  PROVE  IInv'
<1>1. Sch!IInv' /\ Co!TypeOK'
  BY StepTypes DEF Next
<1>2. /\ InTask
      /\ UNCHANGED <<phase, m_id, m_co, m_id_generator, m_search_table, noticeVars>>
  BY DEF Suspend, Yield, Join, tableVars
<1>3. \/ UNCHANGED <<coVars, frame, m_join_table>>
      \/ \E f \in Frame : SuspendIn(f) /\ m_join_table' \in [TaskIDs -> TaskIDs \cup {NULL}]
  <2>1. CASE Suspend \/ Yield
    <3>1. \A op \in {"_Suspend", "_Yield"} : [NoFrame EXCEPT !.op = op] \in Frame
      <4>1. NoFrame \in Frame
        BY TaskAssumption DEF NoFrame, Frame, TaskIDs, TaskAssumption
      <4> QED BY <4>1 DEF Frame
    <3>2. m_join_table' \in [TaskIDs -> TaskIDs \cup {NULL}]
      BY <2>1 DEF Suspend, Yield, tableVars, IInv, TypeOK
    <3> QED BY <2>1, <3>1, <3>2 DEF Suspend, Yield
  <2>2. ASSUME NEW id \in TaskIDs, Join(id)
        PROVE  \/ UNCHANGED <<coVars, frame, m_join_table>>
               \/ \E f \in Frame : SuspendIn(f) /\ m_join_table' \in [TaskIDs -> TaskIDs \cup {NULL}]
    <3> DEFINE f == [op |-> "_Join", child |-> id, first |-> m_join_table'[id] = m_id[CurrentTask]]
    <3>1. f \in Frame
      BY DEF Frame
    <3>2. CASE FindTask(id) # NULL
      <4>1. m_join_table' = OnTaskJoin(m_id[CurrentTask], id) /\ SuspendIn(f)
        BY <2>2, <3>2 DEF Join
      <4>2. m_id[CurrentTask] \in TaskIDs
        BY <1>2, Current DEF IInv, TypeOK
      <4>3. m_join_table' \in [TaskIDs -> TaskIDs \cup {NULL}]
        BY <4>1, <4>2 DEF OnTaskJoin, IInv, TypeOK
      <4> QED BY <4>1, <4>3, <3>1
    <3>3. CASE FindTask(id) = NULL
      BY <2>2, <3>3 DEF Join
    <3> QED BY <3>2, <3>3
  <2> QED BY <2>1, <2>2
<1>4. /\ KeepsUse /\ updating' = updating
      /\ frame' \in [Tasks -> Frame]
      /\ m_join_table' \in [TaskIDs -> TaskIDs \cup {NULL}]
  <2>1. CASE UNCHANGED <<coVars, frame, m_join_table>>
    BY <2>1, SchedulerKeepsUse DEF IInv, TypeOK, coVars
  <2>2. ASSUME NEW f \in Frame, SuspendIn(f), m_join_table' \in [TaskIDs -> TaskIDs \cup {NULL}]
        PROVE  /\ KeepsUse /\ updating' = updating /\ frame' \in [Tasks -> Frame]
    <3>1. Co!co_yield(m_co[CurrentTask]) /\ m_co[CurrentTask] \in Coroutines
      BY <1>2, <2>2, Current DEF SuspendIn
    <3>2. updating' = updating
      BY <3>1 DEF Co!co_yield
    <3> QED BY <3>1, <3>2, <2>2, SchedulerKeepsUse DEF SuspendIn, IInv, TypeOK
  <2> QED BY <1>3, <2>1, <2>2
<1>5. TypeOK'
  BY <1>1, <1>2, <1>4, NoticeKept DEF IInv, TypeOK
<1>6. TaskOwnsCoroutine'
  BY <1>2, <1>4, OwnsKept
<1>7. SearchFindsLive' /\ Numbered'
  BY <1>2, TablesKept
<1>8. PendingWait'
  BY <1>2, NoticeKept, PendingKept
<1>9. NoticeMatchesList' /\ NoticeRuns'
  BY <1>2, <1>4, NoticeKept
<1> QED BY <1>1, <1>5, <1>6, <1>7, <1>8, <1>9 DEF IInv

LEMMA OnTaskFinishedIInv ==
  ASSUME IInv, OnTaskFinished
  PROVE  IInv'
<1> DEFINE t == CurrentTask
           id == m_id[t]
<1>1. Sch!IInv' /\ Co!TypeOK'
  BY StepTypes DEF Next
<1>2. /\ InTask /\ phase[t] = "live" /\ phase' = [phase EXCEPT ![t] = "notify"]
      /\ m_search_table' = [m_search_table EXCEPT ![id] = NULL]
      /\ ResumeParentTask(id)
      /\ UNCHANGED <<coVars, m_id, m_co, frame, m_id_generator>>
  BY DEF OnTaskFinished
<1>3. t \in Tasks /\ m_co[t] # NULL /\ itr = 0
  BY <1>2, Current
<1>4. id \in TaskIDs
  BY <1>3 DEF IInv, TypeOK
<1> HIDE DEF t, id
<1>5. /\ m_ready_list' \in Seq(ReadyInfo) /\ already_add_notice' \in BOOLEAN /\ itr' \in Nat
      /\ \A i \in Pending' : m_ready_list'[i].is_new =>
           i \in Pending /\ m_ready_list'[i] = m_ready_list[i]
      /\ NoticeMatchesList' /\ NoticeRuns'
  <2>1. m_join_table[id] \in TaskIDs \cup {NULL}
    BY <1>4 DEF IInv, TypeOK
  <2>2. updating' = updating
    BY <1>2 DEF coVars
  <2> QED BY <1>2, <1>3, <2>1, <2>2, PushResume, NoticeKept DEF ResumeParentTask
<1>6. m_join_table' = [m_join_table EXCEPT ![id] = NULL]
  BY <1>2 DEF ResumeParentTask
<1>7. TypeOK'
  BY <1>1, <1>2, <1>3, <1>4, <1>5, <1>6 DEF IInv, TypeOK
<1>8. TaskOwnsCoroutine'
  <2>1. \A x \in Tasks : phase[x] # "free" => phase'[x] # "free"
    BY <1>2 DEF IInv, TypeOK
  <2> QED BY <1>2, <2>1, SchedulerKeepsUse, OwnsKept
<1>9. SearchFindsLive'
  BY <1>2, <1>3, <1>4 DEF id, IInv, TypeOK, SearchFindsLive, FindTask
<1>10. Numbered'
  BY <1>2, <1>3 DEF IInv, TypeOK, Numbered
<1>11. PendingWait'
  <2>1. \A x \in Tasks : phase[x] = "live" /\ m_co[x] = NULL => phase'[x] = "live" /\ m_co'[x] = NULL
    BY <1>2, <1>3 DEF IInv, TypeOK
  <2> QED BY <1>5, <2>1, PendingKept
<1> QED BY <1>1, <1>5, <1>7, <1>8, <1>9, <1>10, <1>11 DEF IInv

LEMMA ExecuteReturnIInv ==
  ASSUME IInv, ExecuteReturn
  PROVE  IInv'
<1> DEFINE t == CurrentTask
<1>1. Sch!IInv' /\ Co!TypeOK'
  BY StepTypes DEF Next
<1>2. /\ InTask /\ phase[t] = "notify" /\ phase' = [phase EXCEPT ![t] = "free"]
      /\ m_id' = [m_id EXCEPT ![t] = 0]
      /\ m_co' = [m_co EXCEPT ![t] = NULL]
      /\ Co!FiberFunc_return
      /\ UNCHANGED <<frame, tableVars, noticeVars>>
  BY DEF ExecuteReturn
<1>3. t \in Tasks /\ co_curr \in Coroutines /\ m_co[t] = co_curr /\ co_curr # NULL
      /\ data[co_curr] = t /\ status[co_curr] = "run"
  BY <1>2, Current
<1> HIDE DEF t
<1>4. /\ status' = [status EXCEPT ![co_curr] = "dead"]
      /\ data' = data /\ updating' = updating
  BY <1>2 DEF Co!FiberFunc_return
<1>5. UNCHANGED <<m_id_generator, m_search_table, m_join_table>>
  BY <1>2 DEF tableVars
<1>6. 0 \in TaskIDs
  BY TaskAssumption DEF TaskAssumption, TaskIDs
<1>7. TypeOK'
  BY <1>1, <1>2, <1>5, <1>6, NoticeKept DEF IInv, TypeOK
<1>8. TaskOwnsCoroutine'
  <2>1. Co!TypeOK
    BY DEF IInv, TypeOK
  <2>2. ASSUME NEW x \in Tasks, m_co'[x] # NULL
        PROVE  phase'[x] # "free" /\ status'[m_co'[x]] \in {"ready", "run", "wait"}
               /\ data'[m_co'[x]] = x
    <3>1. x # t /\ m_co'[x] = m_co[x] /\ phase'[x] = phase[x]
      BY <1>2, <1>3, <2>2 DEF IInv, TypeOK
    <3>2. /\ phase[x] # "free" /\ status[m_co[x]] \in {"ready", "run", "wait"}
          /\ data[m_co[x]] = x
      BY <2>2, <3>1 DEF IInv, TaskOwnsCoroutine
    <3>3. m_co[x] # co_curr /\ m_co[x] \in Coroutines
      BY <1>3, <2>2, <3>1, <3>2 DEF IInv, TypeOK
    <3> QED BY <1>4, <2>1, <3>1, <3>2, <3>3 DEF Co!TypeOK
  <2>3. ASSUME NEW c \in Coroutines, status'[c] \in {"ready", "run", "wait"}
        PROVE  data'[c] # NULL /\ m_co'[data'[c]] = c
    <3>1. c # co_curr /\ status[c] \in {"ready", "run", "wait"}
      BY <1>3, <1>4, <2>1, <2>3 DEF Co!TypeOK
    <3>2. data[c] # NULL /\ m_co[data[c]] = c
      BY <3>1 DEF IInv, TaskOwnsCoroutine
    <3>3. data[c] # t /\ data[c] \in Tasks
      BY <1>3, <2>1, <3>1, <3>2 DEF Co!TypeOK
    <3> QED BY <1>2, <1>4, <3>2, <3>3 DEF IInv, TypeOK
  <2> QED BY <1>4, <2>2, <2>3 DEF IInv, TaskOwnsCoroutine
<1>9. SearchFindsLive' /\ Numbered'
  BY <1>2, <1>3, <1>5 DEF IInv, TypeOK, SearchFindsLive, Numbered, FindTask
<1>10. PendingWait'
  <2>1. \A x \in Tasks : phase[x] = "live" /\ m_co[x] = NULL => phase'[x] = "live" /\ m_co'[x] = NULL
    BY <1>2, <1>3 DEF IInv, TypeOK
  <2> QED BY <1>2, <2>1, NoticeKept, PendingKept
<1>11. NoticeMatchesList' /\ NoticeRuns'
  BY <1>2, <1>4, NoticeKept
<1> QED BY <1>1, <1>7, <1>8, <1>9, <1>10, <1>11 DEF IInv

\* OnNotice takes one element of m_ready_list.
LEMMA NextItem ==
  ASSUME IInv, NEW b \in BOOLEAN, AtItem(b)
  PROVE  /\ UNCHANGED <<phase, m_id, frame, m_id_generator, m_search_table, m_join_table,
                         m_ready_list, already_add_notice>>
         /\ m_ready_list' \in Seq(ReadyInfo) /\ itr' \in Nat
         /\ Pending' = Pending \ {itr} /\ itr \in Pending
         /\ NoticeMatchesList' /\ (updating' = updating => NoticeRuns')
<1>1. /\ UNCHANGED <<phase, m_id, frame, m_id_generator, m_search_table, m_join_table,
                      m_ready_list, already_add_notice>>
      /\ itr' = itr + 1 /\ itr \in 1 .. Len(m_ready_list)
  BY DEF AtItem, tableVars
<1>2. m_ready_list \in Seq(ReadyInfo)
  BY DEF IInv, TypeOK
<1>3. Pending' = Pending \ {itr} /\ itr \in Pending /\ itr' \in Nat /\ itr' # 0
  BY <1>1, <1>2 DEF Pending
<1> QED BY <1>1, <1>2, <1>3 DEF IInv, NoticeMatchesList, NoticeRuns

LEMMA NoticeResumeIInv ==
  ASSUME IInv, OnNotice_resume
  PROVE  IInv'
<1> DEFINE t == FindTask(m_ready_list[itr].task_id)
<1>1. Sch!IInv' /\ Co!TypeOK'
  BY StepTypes DEF Next
<1>2. AtItem(FALSE) /\ UNCHANGED m_co
      /\ IF t # NULL THEN Co!co_resume(m_co[t]) ELSE UNCHANGED coVars
  BY DEF OnNotice_resume, Resume
<1>3. /\ UNCHANGED <<phase, m_id, frame, m_id_generator, m_search_table, m_join_table,
                      m_ready_list, already_add_notice>>
      /\ m_ready_list' \in Seq(ReadyInfo) /\ itr' \in Nat
      /\ Pending' = Pending \ {itr}
      /\ NoticeMatchesList' /\ (updating' = updating => NoticeRuns')
  BY <1>2, NextItem
<1>4. t \in Tasks \cup {NULL}
  <2>1. m_ready_list[itr].task_id \in TaskIDs
    BY <1>2, AtItemTyped, Items
  <2> QED BY <2>1 DEF IInv, TypeOK, FindTask
<1> HIDE DEF t
<1>5. KeepsUse /\ updating' = updating
  <2>1. CASE t = NULL
    BY <1>2, <2>1, SchedulerKeepsUse DEF coVars
  <2>2. CASE t # NULL
    <3>1. Co!co_resume(m_co[t]) /\ m_co[t] \in Coroutines \cup {NULL}
      BY <1>2, <1>4, <2>2 DEF IInv, TypeOK
    <3> QED BY <3>1, SchedulerKeepsUse DEF Co!co_resume
  <2> QED BY <2>1, <2>2
<1>6. TypeOK'
  BY <1>1, <1>2, <1>3 DEF IInv, TypeOK
<1>7. TaskOwnsCoroutine'
  BY <1>2, <1>3, <1>5, OwnsKept
<1>8. PendingWait'
  BY <1>2, <1>3, PendingKept
<1> QED BY <1>1, <1>3, <1>5, <1>6, <1>7, <1>8, TablesKept DEF IInv

\* What CTask::Init gets: nothing, or a coroutine that was not in use.
LEMMA InitTaskCases ==
  ASSUME IInv, NEW t \in Tasks, InitTask(t)
  PROVE  /\ updating' = updating
         /\ \/ UNCHANGED coVars /\ m_co' = [m_co EXCEPT ![t] = NULL]
            \/ \E c \in Coroutines :
                 /\ status[c] = "null" /\ m_co' = [m_co EXCEPT ![t] = c]
                 /\ data' = [data EXCEPT ![c] = t]
                 /\ status' = [status EXCEPT ![c] = "ready"]
<1>1. PICK c \in Coroutines \cup {NULL} :
        Co!co_create(t, StackSize, c) /\ m_co' = [m_co EXCEPT ![t] = c]
  BY DEF InitTask
<1>2. Sch!co_create(t, StackSize, c)
  BY <1>1 DEF Co!co_create, Sch!co_create, Co!FromCache, Sch!FromCache,
         Co!UserCode, Sch!UserCode, Co!create_coroutine, Co!malloc_coroutine, Co!setup_coroutine,
         Sch!create_coroutine, Sch!malloc_coroutine, Sch!setup_coroutine
<1>3. \/ c = NULL /\ UNCHANGED Sch!vars
      \/ /\ c \in Coroutines
         /\ status[c] = "null"
         /\ data' = [data EXCEPT ![c] = t]
         /\ status' = [status EXCEPT ![c] = "ready"]
  <2>1. StackSize \in CustomSizes \cup {0, StackSize}
    OBVIOUS
  <2> QED BY <1>2, <2>1, SchAssumption, Sch!CreateCases DEF IInv
<1>4. updating' = updating
  BY <1>1 DEF Co!co_create
<1> QED BY <1>1, <1>3, <1>4 DEF Sch!vars, coVars

LEMMA NoticeNewIInv ==
  ASSUME IInv, OnNotice_new
  PROVE  IInv'
<1> DEFINE t == m_ready_list[itr].task
<1>1. Sch!IInv' /\ Co!TypeOK'
  BY StepTypes DEF Next
<1>2. AtItem(TRUE) /\ InitTask(t)
  BY DEF OnNotice_new
<1>3. /\ UNCHANGED <<phase, m_id, frame, m_id_generator, m_search_table, m_join_table,
                      m_ready_list, already_add_notice>>
      /\ m_ready_list' \in Seq(ReadyInfo) /\ itr' \in Nat
      /\ Pending' = Pending \ {itr} /\ itr \in Pending
      /\ NoticeMatchesList' /\ (updating' = updating => NoticeRuns')
  BY <1>2, NextItem
<1>4. t \in Tasks /\ m_ready_list[itr] = NewItem(t) /\ m_ready_list[itr].is_new
  BY <1>2, AtItemTyped, Items
<1>5. /\ phase[t] = "live" /\ m_co[t] = NULL
      /\ \A j \in Pending \ {itr} : m_ready_list[j] # NewItem(t)
  BY <1>3, <1>4 DEF IInv, PendingWait
<1> HIDE DEF t
<1>6. updating' = updating
      /\ \/ UNCHANGED coVars /\ m_co' = [m_co EXCEPT ![t] = NULL]
         \/ \E c \in Coroutines :
              /\ status[c] = "null" /\ m_co' = [m_co EXCEPT ![t] = c]
              /\ data' = [data EXCEPT ![c] = t]
              /\ status' = [status EXCEPT ![c] = "ready"]
  BY <1>2, <1>4, InitTaskCases
<1>7. Co!TypeOK /\ m_co \in [Tasks -> Coroutines \cup {NULL}]
  BY DEF IInv, TypeOK
<1>8. m_co' \in [Tasks -> Coroutines \cup {NULL}] /\ \A x \in Tasks \ {t} : m_co'[x] = m_co[x]
  BY <1>4, <1>6, <1>7
<1>9. TypeOK'
  BY <1>1, <1>3, <1>8 DEF IInv, TypeOK
<1>10. TaskOwnsCoroutine'
  <2>1. CASE UNCHANGED coVars /\ m_co' = [m_co EXCEPT ![t] = NULL]
    <3>1. m_co' = m_co
      BY <1>4, <1>5, <1>7, <2>1
    <3> QED BY <1>3, <2>1, <3>1, SchedulerKeepsUse, OwnsKept
  <2>2. ASSUME NEW c \in Coroutines,
               status[c] = "null", m_co' = [m_co EXCEPT ![t] = c],
               data' = [data EXCEPT ![c] = t], status' = [status EXCEPT ![c] = "ready"]
        PROVE  TaskOwnsCoroutine'
    <3> USE SchedulerAssumption DEF SchedulerAssumption, Co!TaurusAssumption
    <3>1. \A x \in Coroutines \cup {Main} :
            /\ status'[x] = IF x = c THEN "ready" ELSE status[x]
            /\ data'[x] = IF x = c THEN t ELSE data[x]
      BY <1>7, <2>2 DEF Co!TypeOK
    <3>2. \A x \in Tasks : m_co'[x] = IF x = t THEN c ELSE m_co[x]
      BY <1>7, <2>2
    <3>3. \A x \in Tasks : m_co[x] # NULL =>
            m_co[x] \in Coroutines /\ m_co[x] # c /\ data[m_co[x]] = x
            /\ phase[x] # "free" /\ status[m_co[x]] \in {"ready", "run", "wait"}
      BY <1>7, <2>2 DEF IInv, TaskOwnsCoroutine
    <3>4. \A x \in Tasks : m_co'[x] # NULL =>
            /\ phase'[x] # "free"
            /\ status'[m_co'[x]] \in {"ready", "run", "wait"}
            /\ data'[m_co'[x]] = x
      BY <1>3, <1>5, <3>1, <3>2, <3>3
    <3>5. \A x \in Coroutines : status'[x] \in {"ready", "run", "wait"} =>
            data'[x] # NULL /\ m_co'[data'[x]] = x
      <4> SUFFICES ASSUME NEW x \in Coroutines, status'[x] \in {"ready", "run", "wait"}
                   PROVE  data'[x] # NULL /\ m_co'[data'[x]] = x
        OBVIOUS
      <4>1. CASE x = c
        BY <1>4, <3>1, <3>2, <4>1
      <4>2. CASE x # c
        <5>1. data[x] # NULL /\ m_co[data[x]] = x /\ data[x] \in Tasks
          BY <1>7, <3>1, <4>2 DEF IInv, TaskOwnsCoroutine, Co!TypeOK
        <5>2. data[x] # t
          BY <1>5, <5>1
        <5> QED BY <3>1, <3>2, <4>2, <5>1, <5>2
      <4> QED BY <4>1, <4>2
    <3>6. data'[Main] = NULL
      BY <3>1 DEF IInv, TaskOwnsCoroutine
    <3> QED BY <3>4, <3>5, <3>6 DEF TaskOwnsCoroutine
  <2> QED BY <1>6, <2>1, <2>2
<1>11. SearchFindsLive' /\ Numbered'
  BY <1>3, TablesKept
<1>12. PendingWait'
  <2> SUFFICES ASSUME NEW i \in Pending', m_ready_list'[i].is_new
               PROVE  LET x == m_ready_list'[i].task IN
                        /\ phase'[x] = "live" /\ m_co'[x] = NULL
                        /\ \A j \in Pending' \ {i} : m_ready_list'[j] # NewItem(x)
    BY DEF PendingWait
  <2> DEFINE x == m_ready_list[i].task
  <2>1. i \in Pending \ {itr} /\ m_ready_list'[i] = m_ready_list[i] /\ m_ready_list[i].is_new
        /\ m_ready_list[i] \in ReadyInfo
    BY <1>3 DEF Pending
  <2>2. x \in Tasks /\ m_ready_list[i] = NewItem(x)
    BY <2>1, Items
  <2>3. /\ phase[x] = "live" /\ m_co[x] = NULL
        /\ \A j \in Pending \ {i} : m_ready_list[j] # NewItem(x)
    BY <2>1 DEF IInv, PendingWait
  <2>4. x # t
    BY <1>5, <2>1, <2>2
  <2> QED BY <1>3, <1>8, <2>1, <2>2, <2>3, <2>4
<1> QED BY <1>1, <1>3, <1>6, <1>9, <1>10, <1>11, <1>12 DEF IInv

-----------------------------------------------------------------------------

LEMMA InitIInv == Init => IInv
<1> SUFFICES ASSUME Init PROVE IInv
  OBVIOUS
<1> USE TaskAssumption, SchedulerAssumption
    DEF TaskAssumption, SchedulerAssumption, Co!TaurusAssumption
<1>1. Sch!IInv
  BY SchInit, SchAssumption, Sch!InitIInv DEF Init
<1>2. Co!TypeOK
  BY <1>1, SchInvariant
<1>3. NoFrame \in Frame /\ 0 \in TaskIDs
  BY DEF NoFrame, Frame, TaskIDs
<1>4. TypeOK
  <2>1. /\ phase \in [Tasks -> {"free", "live", "notify"}] /\ m_id \in [Tasks -> TaskIDs]
        /\ m_co \in [Tasks -> Coroutines \cup {NULL}] /\ frame \in [Tasks -> Frame]
    BY <1>3 DEF Init
  <2>2. /\ m_id_generator \in TaskIDs
        /\ m_search_table \in [TaskIDs -> Tasks \cup {NULL}]
        /\ m_join_table \in [TaskIDs -> TaskIDs \cup {NULL}]
    BY <1>3 DEF Init
  <2>3. m_ready_list \in Seq(ReadyInfo) /\ already_add_notice \in BOOLEAN /\ itr \in Nat
    <3>1. m_ready_list = <<>> /\ already_add_notice = FALSE /\ itr = 0
      BY DEF Init
    <3>2. m_ready_list \in Seq(ReadyInfo)
      BY <3>1
    <3>3. already_add_notice \in BOOLEAN
      BY <3>1
    <3> QED BY <3>1, <3>2, <3>3
  <2> QED BY <1>2, <2>1, <2>2, <2>3 DEF TypeOK
<1>5. TaskOwnsCoroutine
  BY DEF Init, Co!Init, TaskOwnsCoroutine
<1>6. SearchFindsLive /\ PendingWait /\ Numbered
  BY DEF Init, SearchFindsLive, PendingWait, Numbered, FindTask, Pending
<1>7. NoticeMatchesList /\ NoticeRuns
  BY DEF Init, NoticeMatchesList, NoticeRuns
<1> QED BY <1>1, <1>4, <1>5, <1>6, <1>7 DEF IInv

LEMMA StepIInv == IInv /\ [Next]_vars => IInv'
  BY Rests, MainWalksIInv, RunTaskIInv, BeginIInv, UpdateIInv, StartTaskIInv, ResumeTaskIInv,
     SuspendsIInv, OnTaskFinishedIInv, ExecuteReturnIInv, NoticeResumeIInv, NoticeNewIInv
     DEF Next

-----------------------------------------------------------------------------
(* Where the tasks are, and the calls they are suspended in *)

\* The status of a task's coroutine.
Stage(t) == IF m_co[t] = NULL THEN "none" ELSE status[m_co[t]]

\* A task is suspended in a call exactly while it waits and until it has run
\* again, and it waits in no other way.
FramesMatch ==
  \A t \in Tasks : /\ frame[t].op # "none" => Stage(t) \in {"wait", "ready"}
                   /\ Stage(t) = "wait" => frame[t].op # "none"

\* Between notices nothing is ready: tasks are made ready by OnNotice, which
\* runs all of them.
NothingReady ==
  updating \in {"init", "user"} /\ itr = 0 => \A c \in Coroutines : status[c] # "ready"

LEMMA Owned ==
  ASSUME IInv, NEW t \in Tasks, m_co[t] # NULL
  PROVE  m_co[t] \in Coroutines /\ InUse(m_co[t]) /\ data[m_co[t]] = t
  BY DEF IInv, TypeOK, TaskOwnsCoroutine, InUse

LEMMA StageIdle ==
  ASSUME IInv,
         \/ Startup \/ Reap \/ OnNotice_begin \/ OnNotice_update \/ OnNotice_return
         \/ OnTaskFinished
         \/ \E t \in Tasks : StartTask(t)
         \/ \E id \in TaskIDs : ResumeTask(id)
  PROVE  UNCHANGED frame /\ \A t \in Tasks : Stage(t)' = Stage(t)
<1>1. Co!TypeOK
  BY DEF IInv, TypeOK
<1>2. CASE Startup \/ OnNotice_update \/ OnNotice_return
  BY <1>2 DEF Startup, OnNotice_update, OnNotice_return, Co!co_thread_init_cache,
     Co!co_thread_init_return, Co!co_update_begin, Co!co_update_return, taskVars, Stage
<1>3. CASE OnNotice_begin \/ OnTaskFinished \/ \E id \in TaskIDs : ResumeTask(id)
  BY <1>3 DEF OnNotice_begin, OnTaskFinished, ResumeTask, coVars, taskVars, Stage
<1>4. ASSUME NEW t \in Tasks, StartTask(t)
      PROVE  UNCHANGED frame /\ \A x \in Tasks : Stage(x)' = Stage(x)
  <2>1. phase[t] = "free" /\ m_co' = [m_co EXCEPT ![t] = NULL] /\ UNCHANGED <<status, frame>>
    BY <1>4 DEF StartTask, coVars
  <2>2. m_co' = m_co
    BY <2>1 DEF IInv, TypeOK, TaskOwnsCoroutine
  <2> QED BY <2>1, <2>2 DEF Stage
<1>5. CASE Reap
  <2> DEFINE c == Head(co_dead_list)
  <2>1. UNCHANGED <<frame, m_co>> /\ Co!co_update_reap
    BY <1>5 DEF Reap, taskVars
  <2>2. c \in Coroutines /\ status[c] = "dead"
    BY <2>1, HeadDead DEF Co!co_update_reap
  <2>3. status' = [status EXCEPT ![c] = "null"]
        \/ status' = [x \in DOMAIN status |-> IF x \in {c} THEN "null" ELSE status[x]]
    BY <2>1 DEF Co!co_update_reap, Co!cleanup_coroutines
  <2> HIDE DEF c
  <2>4. \A x \in Coroutines \ {c} : status'[x] = status[x]
    BY <1>1, <2>3 DEF Co!TypeOK
  <2>5. \A t \in Tasks : m_co[t] # NULL => m_co[t] \in Coroutines \ {c}
    BY <2>2, Owned DEF InUse
  <2> QED BY <2>1, <2>4, <2>5 DEF Stage
<1> QED BY <1>2, <1>3, <1>4, <1>5

LEMMA StageSuspend ==
  ASSUME IInv, InTask, NEW f, SuspendIn(f), UNCHANGED m_co
  PROVE  /\ frame' = [frame EXCEPT ![CurrentTask] = f] /\ CurrentTask \in Tasks
         /\ \A x \in Tasks : Stage(x)' = IF x = CurrentTask THEN "wait" ELSE Stage(x)
         /\ status' = [status EXCEPT ![co_curr] = "wait"]
<1> DEFINE t == CurrentTask
<1>1. Co!TypeOK
  BY DEF IInv, TypeOK
<1>2. /\ co_curr \in Coroutines /\ co_curr # NULL /\ status[co_curr] = "run"
      /\ t \in Tasks /\ m_co[t] = co_curr
  BY Current
<1>3. status' = [status EXCEPT ![co_curr] = "wait"]
  BY <1>2 DEF SuspendIn, Co!co_yield
<1>4. frame' = [frame EXCEPT ![t] = f]
  BY DEF SuspendIn
<1> HIDE DEF t
<1>5. status'[co_curr] = "wait" /\ \A x \in Coroutines \ {co_curr} : status'[x] = status[x]
  BY <1>1, <1>2, <1>3 DEF Co!TypeOK
<1>6. \A x \in Tasks \ {t} : m_co[x] # NULL => m_co[x] \in Coroutines \ {co_curr}
  BY <1>2, Owned
<1>7. \A x \in Tasks : Stage(x)' = IF x = t THEN "wait" ELSE Stage(x)
  BY <1>2, <1>5, <1>6 DEF Stage
<1> QED BY <1>2, <1>3, <1>4, <1>7 DEF t

LEMMA StageReturn ==
  ASSUME IInv, ExecuteReturn
  PROVE  /\ CurrentTask \in Tasks /\ UNCHANGED frame
         /\ Stage(CurrentTask) = "run"
         /\ \A x \in Tasks : Stage(x)' = IF x = CurrentTask THEN "none" ELSE Stage(x)
<1> DEFINE t == CurrentTask
<1>1. Co!TypeOK /\ m_co \in [Tasks -> Coroutines \cup {NULL}]
  BY DEF IInv, TypeOK
<1>2. /\ InTask /\ m_co' = [m_co EXCEPT ![t] = NULL] /\ Co!FiberFunc_return
      /\ UNCHANGED frame
  BY DEF ExecuteReturn
<1>3. /\ co_curr \in Coroutines /\ co_curr # NULL /\ status[co_curr] = "run"
      /\ t \in Tasks /\ m_co[t] = co_curr
  BY <1>2, Current
<1>4. status' = [status EXCEPT ![co_curr] = "dead"]
  BY <1>2 DEF Co!FiberFunc_return
<1> HIDE DEF t
<1>5. \A x \in Coroutines \ {co_curr} : status'[x] = status[x]
  BY <1>1, <1>3, <1>4 DEF Co!TypeOK
<1>6. \A x \in Tasks \ {t} : m_co[x] # NULL => m_co[x] \in Coroutines \ {co_curr}
  BY <1>3, Owned
<1>7. m_co'[t] = NULL /\ \A x \in Tasks \ {t} : m_co'[x] = m_co[x]
  BY <1>1, <1>2, <1>3
<1>8. Stage(t) = "run" /\ \A x \in Tasks : Stage(x)' = IF x = t THEN "none" ELSE Stage(x)
  BY <1>3, <1>5, <1>6, <1>7 DEF Stage
<1> QED BY <1>2, <1>3, <1>8 DEF t

LEMMA StageNew ==
  ASSUME IInv, OnNotice_new
  PROVE  LET t == m_ready_list[itr].task IN
           /\ t \in Tasks /\ itr \in Pending /\ m_ready_list[itr] = NewItem(t)
           /\ UNCHANGED <<frame, m_ready_list>>
           /\ Stage(t) = "none"
           /\ \A x \in Tasks : IF x = t THEN Stage(x)' \in {"none", "ready"}
                                        ELSE Stage(x)' = Stage(x)
<1> DEFINE t == m_ready_list[itr].task
<1>1. Co!TypeOK /\ m_co \in [Tasks -> Coroutines \cup {NULL}] /\ NULL \notin Coroutines
  BY SchedulerAssumption DEF IInv, TypeOK, SchedulerAssumption, Co!TaurusAssumption
<1>2. AtItem(TRUE) /\ InitTask(t)
  BY DEF OnNotice_new
<1>3. t \in Tasks /\ m_ready_list[itr] = NewItem(t) /\ m_ready_list[itr].is_new /\ itr \in Pending
  BY <1>2, AtItemTyped, Items
<1>4. m_co[t] = NULL
  BY <1>3 DEF IInv, PendingWait
<1>5. UNCHANGED <<frame, m_ready_list>>
  BY <1>2, NextItem
<1> HIDE DEF t
<1>6. Stage(t) = "none"
  BY <1>4 DEF Stage
<1>7. ASSUME NEW c \in Coroutines, status[c] = "null", m_co' = [m_co EXCEPT ![t] = c],
             status' = [status EXCEPT ![c] = "ready"]
      PROVE  \A x \in Tasks : IF x = t THEN Stage(x)' \in {"none", "ready"}
                                       ELSE Stage(x)' = Stage(x)
  <2>1. status'[c] = "ready" /\ \A y \in Coroutines \ {c} : status'[y] = status[y]
    BY <1>1, <1>7 DEF Co!TypeOK
  <2>2. m_co'[t] = c /\ c # NULL /\ \A x \in Tasks \ {t} : m_co'[x] = m_co[x]
    BY <1>1, <1>3, <1>7
  <2>3. \A x \in Tasks : m_co[x] # NULL => m_co[x] \in Coroutines \ {c}
    BY <1>7, Owned DEF InUse
  <2> QED BY <1>4, <2>1, <2>2, <2>3 DEF Stage
<1>8. \A x \in Tasks : IF x = t THEN Stage(x)' \in {"none", "ready"} ELSE Stage(x)' = Stage(x)
  <2>1. CASE UNCHANGED coVars /\ m_co' = [m_co EXCEPT ![t] = NULL]
    <3>1. m_co' = m_co /\ UNCHANGED status
      BY <1>1, <1>4, <2>1 DEF coVars
    <3> QED BY <1>4, <3>1 DEF Stage
  <2> QED BY <1>2, <1>3, <1>7, <2>1, InitTaskCases
<1> QED BY <1>3, <1>5, <1>6, <1>8 DEF t

LEMMA StageResume ==
  ASSUME IInv, OnNotice_resume
  PROVE  LET y == FindTask(m_ready_list[itr].task_id) IN
           /\ UNCHANGED frame
           /\ \A x \in Tasks :
                Stage(x)' = IF x = y /\ Stage(x) = "wait" THEN "ready" ELSE Stage(x)
<1> DEFINE y == FindTask(m_ready_list[itr].task_id)
<1>1. Co!TypeOK /\ m_co \in [Tasks -> Coroutines \cup {NULL}]
  BY DEF IInv, TypeOK
<1>2. AtItem(FALSE) /\ UNCHANGED m_co
      /\ IF y # NULL THEN Co!co_resume(m_co[y]) ELSE UNCHANGED coVars
  BY DEF OnNotice_resume, Resume
<1>3. y \in Tasks \cup {NULL} /\ UNCHANGED frame /\ NULL \notin Tasks
  <2>1. m_ready_list[itr].task_id \in TaskIDs
    BY <1>2, AtItemTyped, Items
  <2> QED BY <1>2, <2>1, NextItem, TaskAssumption DEF IInv, TypeOK, FindTask, TaskAssumption
<1>4. co_curr = Main /\ Main \notin Coroutines
  <2>1. updating = "user"
    BY <1>2, AtItemTyped DEF IInv, NoticeRuns
  <2>2. Co!CoroutineInOnePlace
    BY SchInvariant DEF IInv
  <2> QED BY <2>1, <2>2, SchedulerAssumption
          DEF Co!CoroutineInOnePlace, SchedulerAssumption, Co!TaurusAssumption
<1> HIDE DEF y
<1>5. \A x \in Tasks :
        Stage(x)' = IF x = y /\ Stage(x) = "wait" THEN "ready" ELSE Stage(x)
  <2>1. CASE y = NULL
    BY <1>2, <1>3, <2>1 DEF Stage, coVars
  <2>2. CASE y # NULL /\ m_co[y] # NULL /\ status[m_co[y]] = "wait"
    <3>1. m_co[y] \in Coroutines /\ y \in Tasks
      BY <1>1, <1>3, <2>2
    <3>2. status' = [status EXCEPT ![m_co[y]] = "ready"]
      BY <1>2, <1>4, <2>2, <3>1 DEF Co!co_resume
    <3>3. status'[m_co[y]] = "ready" /\ \A c \in Coroutines \ {m_co[y]} : status'[c] = status[c]
      BY <1>1, <3>1, <3>2 DEF Co!TypeOK
    <3>4. \A x \in Tasks \ {y} : m_co[x] # NULL => m_co[x] \in Coroutines \ {m_co[y]}
      BY <2>2, <3>1, Owned
    <3> QED BY <1>2, <1>3, <2>2, <3>1, <3>3, <3>4 DEF Stage
  <2>3. CASE y # NULL /\ ~(m_co[y] # NULL /\ status[m_co[y]] = "wait")
    <3>1. UNCHANGED status
      BY <1>2, <2>3 DEF Co!co_resume
    <3> QED BY <1>2, <1>3, <2>3, <3>1 DEF Stage
  <2> QED BY <2>1, <2>2, <2>3
<1> QED BY <1>3, <1>5 DEF y

LEMMA StageRun ==
  ASSUME IInv, RunTask
  PROVE  LET y == data[Head(co_ready_list)] IN
           /\ y \in Tasks /\ m_co[y] = Head(co_ready_list)
           /\ frame' = [frame EXCEPT ![y] = NoFrame]
           /\ Stage(y) = "ready"
           /\ \A x \in Tasks : Stage(x)' = IF x = y THEN "run" ELSE Stage(x)
<1> DEFINE c == Head(co_ready_list)
           y == data[c]
<1>1. Co!TypeOK
  BY DEF IInv, TypeOK
<1>2. Co!co_update_run /\ frame' = [frame EXCEPT ![y] = NoFrame] /\ UNCHANGED m_co
  BY DEF RunTask
<1>3. c \in Coroutines /\ status[c] = "ready"
  BY <1>2, HeadReady DEF Co!co_update_run
<1>4. status' = [status EXCEPT ![c] = "run"]
  BY <1>2 DEF Co!co_update_run
<1> HIDE DEF c
<1>5. y # NULL /\ m_co[y] = c
  BY <1>3 DEF IInv, TaskOwnsCoroutine
<1>6. y \in Tasks /\ c # NULL
  BY <1>1, <1>3, <1>5, SchedulerAssumption
     DEF Co!TypeOK, SchedulerAssumption, Co!TaurusAssumption
<1>7. status'[c] = "run" /\ \A x \in Coroutines \ {c} : status'[x] = status[x]
  BY <1>1, <1>3, <1>4 DEF Co!TypeOK
<1>8. \A x \in Tasks \ {y} : m_co[x] # NULL => m_co[x] \in Coroutines \ {c}
  BY <1>5, Owned
<1>9. Stage(y) = "ready" /\ \A x \in Tasks : Stage(x)' = IF x = y THEN "run" ELSE Stage(x)
  BY <1>2, <1>3, <1>5, <1>6, <1>7, <1>8 DEF Stage
<1> QED BY <1>2, <1>5, <1>6, <1>9 DEF c

-----------------------------------------------------------------------------
(* Who waits in _Join is woken *)

JoinsLive == \A id \in TaskIDs : m_join_table[id] # NULL => FindTask(id) # NULL

\* The second part of JoinerWoken.
Woken(t) ==
  Registered(t) /\ InOp(t, "_Join") /\ frame[t].first =>
    m_join_table[frame[t].child] = m_id[t] \/ ResumePending(t) \/ Stage(t) = "ready"

JInv ==
  /\ IInv
  /\ FramesMatch
  /\ NothingReady
  /\ JoinsLive
  /\ \A t \in Tasks : Woken(t)

LEMMA JInvJoinerWoken == JInv => JoinerWoken
<1> SUFFICES ASSUME JInv PROVE JoinerWoken
  OBVIOUS
<1>1. \A t \in Tasks : Stage(t) = "ready" => status[m_co[t]] = "ready"
  BY DEF Stage
<1> QED BY <1>1 DEF JInv, JoinerWoken, JoinsLive, Woken

LEMMA NothingReadyStep ==
  ASSUME JInv, [Next]_vars
  PROVE  NothingReady'
<1>1. /\ NothingReady /\ Co!TypeOK
      /\ itr # 0 => updating = "user"
      /\ Co!CoroutineInOnePlace
  BY SchInvariant DEF JInv, IInv, TypeOK, NoticeRuns
<1> USE DEF NothingReady
<1>2. CASE UNCHANGED vars
  BY <1>1, <1>2 DEF vars, coVars, noticeVars
<1>3. CASE Startup
  BY <1>1, <1>3 DEF Startup, noticeVars, Co!co_thread_init_cache, Co!co_thread_init_return
<1>4. ASSUME \/ \E t \in Tasks : StartTask(t)
             \/ \E id \in TaskIDs : ResumeTask(id)
      PROVE  NothingReady'
  BY <1>1, <1>4 DEF StartTask, ResumeTask, Calling, coVars
<1>5. CASE Suspend \/ Yield \/ OnTaskFinished \/ ExecuteReturn \/ \E id \in TaskIDs : Join(id)
  <2>1. updating = "update"
    BY <1>5, Current DEF JInv, Suspend, Yield, OnTaskFinished, ExecuteReturn, Join
  <2>2. updating' = updating
    BY <1>5 DEF Suspend, Yield, OnTaskFinished, ExecuteReturn, Join, SuspendIn, Co!co_yield,
       Co!FiberFunc_return, coVars
  <2> QED BY <2>1, <2>2
<1>6. CASE OnNotice_begin
  BY <1>6 DEF OnNotice_begin
<1>7. CASE OnNotice_new \/ OnNotice_resume
  <2>1. itr' = itr + 1 /\ itr \in Nat
    BY <1>7 DEF OnNotice_new, OnNotice_resume, AtItem, JInv, IInv, TypeOK
  <2> QED BY <2>1
<1>8. CASE OnNotice_update \/ RunTask \/ Reap
  BY <1>8 DEF OnNotice_update, RunTask, Reap, Co!co_update_begin, Co!co_update_run,
     Co!co_update_reap, Co!InUpdate
<1>9. CASE OnNotice_return
  <2>1. co_ready_list = <<>> /\ UNCHANGED status
    BY <1>9 DEF OnNotice_return, Co!co_update_return
  <2>2. Co!WithStatus("ready") = {}
    BY <1>1, <2>1 DEF Co!CoroutineInOnePlace, Co!Lists, Co!Range
  <2> QED BY <2>1, <2>2 DEF Co!WithStatus
<1> QED BY <1>2, <1>3, <1>4, <1>5, <1>6, <1>7, <1>8, <1>9 DEF Next

LEMMA JoinCases ==
  ASSUME NEW id \in TaskIDs, Join(id)
  PROVE  \/ UNCHANGED <<coVars, frame, m_co, m_join_table>>
         \/ /\ InTask /\ FindTask(id) # NULL /\ UNCHANGED m_co
            /\ m_join_table' = OnTaskJoin(m_id[CurrentTask], id)
            /\ SuspendIn([op |-> "_Join", child |-> id,
                          first |-> m_join_table'[id] = m_id[CurrentTask]])
  BY DEF Join

LEMMA FramesMatchStep ==
  ASSUME JInv, [Next]_vars
  PROVE  FramesMatch'
<1>1. IInv /\ FramesMatch /\ frame \in [Tasks -> Frame]
  BY DEF JInv, IInv, TypeOK
<1> USE DEF FramesMatch
<1>2. CASE UNCHANGED vars
  BY <1>1, <1>2 DEF vars, coVars, taskVars, Stage
<1>3. ASSUME \/ Startup \/ Reap \/ OnNotice_begin \/ OnNotice_update \/ OnNotice_return
             \/ OnTaskFinished
             \/ \E t \in Tasks : StartTask(t)
             \/ \E id \in TaskIDs : ResumeTask(id)
      PROVE  FramesMatch'
  BY <1>1, <1>3, StageIdle
<1>4. ASSUME InTask, UNCHANGED m_co, NEW f, SuspendIn(f), f.op # "none" PROVE FramesMatch'
  BY <1>1, <1>4, StageSuspend
<1>5. CASE Suspend \/ Yield
  <2>1. InTask /\ UNCHANGED m_co
    BY <1>5 DEF Suspend, Yield
  <2>2. SuspendIn([NoFrame EXCEPT !.op = "_Suspend"]) \/ SuspendIn([NoFrame EXCEPT !.op = "_Yield"])
    BY <1>5 DEF Suspend, Yield
  <2>3. [NoFrame EXCEPT !.op = "_Suspend"].op # "none" /\ [NoFrame EXCEPT !.op = "_Yield"].op # "none"
    BY DEF NoFrame
  <2> QED BY <1>4, <2>1, <2>2, <2>3
<1>6. ASSUME NEW id \in TaskIDs, Join(id) PROVE FramesMatch'
  <2>1. CASE UNCHANGED <<coVars, frame, m_co, m_join_table>>
    BY <1>1, <2>1 DEF coVars, Stage
  <2>2. CASE InTask /\ UNCHANGED m_co
             /\ SuspendIn([op |-> "_Join", child |-> id,
                           first |-> m_join_table'[id] = m_id[CurrentTask]])
    BY <1>4, <2>2
  <2> QED BY <1>6, <2>1, <2>2, JoinCases
<1>7. CASE ExecuteReturn
  BY <1>1, <1>7, StageReturn
<1>8. CASE OnNotice_new
  <2> DEFINE y == m_ready_list[itr].task
  <2>1. /\ y \in Tasks /\ UNCHANGED frame /\ Stage(y) = "none"
        /\ \A x \in Tasks : IF x = y THEN Stage(x)' \in {"none", "ready"} ELSE Stage(x)' = Stage(x)
    BY <1>1, <1>8, StageNew
  <2> HIDE DEF y
  <2> QED BY <1>1, <2>1
<1>9. CASE OnNotice_resume
  BY <1>1, <1>9, StageResume
<1>10. CASE RunTask
  <2> DEFINE y == data[Head(co_ready_list)]
  <2>1. /\ y \in Tasks /\ frame' = [frame EXCEPT ![y] = NoFrame]
        /\ \A x \in Tasks : Stage(x)' = IF x = y THEN "run" ELSE Stage(x)
    BY <1>1, <1>10, StageRun
  <2>2. NoFrame.op = "none"
    BY DEF NoFrame
  <2> HIDE DEF y
  <2> QED BY <1>1, <2>1, <2>2
<1> QED BY <1>2, <1>3, <1>5, <1>6, <1>7, <1>8, <1>9, <1>10 DEF Next

LEMMA JoinsLiveStep ==
  ASSUME JInv, [Next]_vars
  PROVE  JoinsLive'
<1>1. /\ JoinsLive /\ m_join_table \in [TaskIDs -> TaskIDs \cup {NULL}]
      /\ m_search_table \in [TaskIDs -> Tasks \cup {NULL}] /\ NULL \notin Tasks
  BY TaskAssumption DEF JInv, IInv, TypeOK, TaskAssumption
<1> USE DEF JoinsLive, FindTask
<1>2. CASE UNCHANGED <<m_join_table, m_search_table>>
  BY <1>1, <1>2
<1>3. ASSUME NEW t \in Tasks, StartTask(t) PROVE JoinsLive'
  <2>1. UNCHANGED m_join_table /\ m_search_table' = [m_search_table EXCEPT ![AllocID] = t]
    BY <1>3 DEF StartTask
  <2> QED BY <1>1, <2>1
<1>4. ASSUME NEW id \in TaskIDs, Join(id) PROVE JoinsLive'
  <2>1. UNCHANGED m_search_table
    BY <1>4 DEF Join
  <2> QED BY <1>1, <1>2, <1>4, <2>1, JoinCases DEF OnTaskJoin
<1>5. CASE OnTaskFinished
  <2> DEFINE id == m_id[CurrentTask]
  <2>1. m_join_table' = [m_join_table EXCEPT ![id] = NULL]
        /\ m_search_table' = [m_search_table EXCEPT ![id] = NULL]
    BY <1>5 DEF OnTaskFinished, ResumeParentTask
  <2> HIDE DEF id
  <2> QED BY <1>1, <2>1
<1>6. ASSUME \/ Startup \/ Reap \/ OnNotice_begin \/ OnNotice_update \/ OnNotice_return
             \/ OnNotice_new \/ OnNotice_resume \/ RunTask \/ Suspend \/ Yield \/ ExecuteReturn
             \/ \E id \in TaskIDs : ResumeTask(id)
      PROVE  UNCHANGED tableVars
  BY <1>6 DEF Startup, Reap, OnNotice_begin, OnNotice_update, OnNotice_return, OnNotice_new,
     OnNotice_resume, RunTask, Suspend, Yield, ExecuteReturn, ResumeTask, AtItem
<1>7. UNCHANGED tableVars => UNCHANGED <<m_join_table, m_search_table>>
  BY DEF tableVars
<1>8. UNCHANGED vars => UNCHANGED tableVars
  BY DEF vars
<1> QED BY <1>2, <1>3, <1>4, <1>5, <1>6, <1>7, <1>8 DEF Next

\* What keeps the second part of JoinerWoken for a task t.
LEMMA WokenKept ==
  ASSUME NEW t \in Tasks, Woken(t),
         frame'[t] = frame[t],
         Registered(t)' => Registered(t) /\ m_id'[t] = m_id[t],
         InOp(t, "_Join") =>
           \/ m_join_table'[frame[t].child] = m_join_table[frame[t].child]
           \/ m_join_table[frame[t].child] # m_id[t] \/ ResumePending(t)',
         Registered(t)' /\ InOp(t, "_Join") /\ ResumePending(t) =>
           ResumePending(t)' \/ Stage(t)' = "ready",
         Stage(t) = "ready" => Stage(t)' = "ready"
  PROVE  Woken(t)'
  BY DEF Woken, InOp

\* A push of any item leaves those that are pending.
LEMMA PushKeepsPending ==
  ASSUME IInv, itr = 0, NEW x, PushReady(x)
  PROVE  /\ \A i \in Pending : i \in Pending' /\ m_ready_list'[i] = m_ready_list[i]
         /\ \E i \in Pending' : m_ready_list'[i] = x
<1>1. m_ready_list \in Seq(ReadyInfo)
  BY DEF IInv, TypeOK
<1>2. m_ready_list' = Append(m_ready_list, x) /\ itr' = 0
  BY DEF PushReady
<1>3. /\ DOMAIN m_ready_list' = 1 .. Len(m_ready_list) + 1
      /\ DOMAIN m_ready_list = 1 .. Len(m_ready_list) /\ Len(m_ready_list) \in Nat
      /\ m_ready_list'[Len(m_ready_list) + 1] = x
      /\ \A i \in 1 .. Len(m_ready_list) : m_ready_list'[i] = m_ready_list[i]
  BY <1>1, <1>2
<1>4. Len(m_ready_list) + 1 \in Pending'
  BY <1>2, <1>3 DEF Pending
<1> QED BY <1>2, <1>3, <1>4 DEF Pending

LEMMA WokenStep ==
  ASSUME JInv, [Next]_vars, NEW t \in Tasks
  PROVE  Woken(t)'
<1>1. /\ Woken(t) /\ IInv /\ FramesMatch
      /\ frame \in [Tasks -> Frame] /\ m_id \in [Tasks -> TaskIDs]
      /\ phase \in [Tasks -> {"free", "live", "notify"}]
      /\ m_search_table \in [TaskIDs -> Tasks \cup {NULL}]
      /\ m_join_table \in [TaskIDs -> TaskIDs \cup {NULL}]
      /\ m_ready_list \in Seq(ReadyInfo)
      /\ NULL \notin Tasks \cup TaskIDs
  BY TaskAssumption DEF JInv, IInv, TypeOK, TaskAssumption, TaskIDs
<1> USE DEF FindTask
<1>2. UNCHANGED <<phase, m_id, m_search_table>> =>
        (Registered(t)' => Registered(t) /\ m_id'[t] = m_id[t])
  BY DEF Registered
<1>3. UNCHANGED <<m_id, m_ready_list, itr>> => (ResumePending(t) => ResumePending(t)')
  BY DEF ResumePending, Pending
<1>4. CASE UNCHANGED vars
  <2>1. UNCHANGED <<phase, m_id, m_search_table, m_join_table, frame, m_ready_list, itr, m_co, status>>
    BY <1>4 DEF vars, coVars, taskVars, tableVars, noticeVars
  <2>2. Stage(t)' = Stage(t)
    BY <2>1 DEF Stage
  <2> QED BY <1>1, <1>2, <1>3, <2>1, <2>2, WokenKept
<1>5. CASE Startup \/ Reap \/ OnNotice_return \/ OnNotice_begin
  <2>1. UNCHANGED <<phase, m_id, m_search_table, m_join_table, m_ready_list>>
    BY <1>5 DEF Startup, Reap, OnNotice_return, OnNotice_begin, taskVars, tableVars, noticeVars
  <2>2. frame' = frame /\ Stage(t)' = Stage(t)
    BY <1>1, <1>5, StageIdle
  <2>3. Pending' = Pending
    <3>1. itr' = itr \/ (itr = 0 /\ itr' = 1)
      BY <1>5 DEF Startup, Reap, OnNotice_return, OnNotice_begin, noticeVars
    <3> QED BY <1>1, <2>1, <3>1 DEF Pending
  <2>4. ResumePending(t) => ResumePending(t)'
    BY <2>1, <2>3 DEF ResumePending
  <2> QED BY <1>1, <1>2, <2>1, <2>2, <2>4, WokenKept
<1>6. CASE OnNotice_update
  <2>1. UNCHANGED <<phase, m_id, m_search_table, m_join_table>> /\ itr > Len(m_ready_list)
    BY <1>6 DEF OnNotice_update, taskVars, tableVars
  <2>2. frame' = frame /\ Stage(t)' = Stage(t)
    BY <1>1, <1>6, StageIdle
  <2>3. itr \in Nat
    BY <1>1 DEF IInv, TypeOK
  <2>4. ~ResumePending(t)
    BY <1>1, <2>1, <2>3 DEF ResumePending, Pending
  <2> QED BY <1>1, <1>2, <2>1, <2>2, <2>4, WokenKept
<1>7. ASSUME NEW x \in Tasks, StartTask(x) PROVE Woken(t)'
  <2>1. /\ itr = 0 /\ PushReady(NewItem(x)) /\ phase[x] = "free" /\ UNCHANGED m_join_table
        /\ phase' = [phase EXCEPT ![x] = "live"]
        /\ m_id' = [m_id EXCEPT ![x] = AllocID]
        /\ m_search_table' = [m_search_table EXCEPT ![AllocID] = x]
    BY <1>7 DEF StartTask, Calling
  <2>2. frame' = frame /\ Stage(t)' = Stage(t)
    BY <1>1, <1>7, StageIdle
  <2>3. CASE t = x
    <3>1. m_co[x] = NULL
      BY <1>1, <2>1 DEF IInv, TaskOwnsCoroutine
    <3>2. frame[t].op = "none"
      BY <1>1, <2>3, <3>1 DEF FramesMatch, Stage
    <3> QED BY <2>2, <3>2 DEF Woken, InOp
  <2>4. CASE t # x
    <3>1. Registered(t)' => Registered(t) /\ m_id'[t] = m_id[t]
      BY <1>1, <2>1, <2>4 DEF Registered
    <3>2. m_id'[t] = m_id[t]
      BY <1>1, <2>1, <2>4
    <3>3. ResumePending(t) => ResumePending(t)'
      BY <1>1, <2>1, <3>2, PushKeepsPending DEF ResumePending
    <3> QED BY <1>1, <2>1, <2>2, <3>1, <3>3, WokenKept
  <2> QED BY <2>3, <2>4
<1>8. ASSUME NEW id \in TaskIDs, ResumeTask(id) PROVE Woken(t)'
  <2>1. UNCHANGED <<phase, m_id, m_search_table, m_join_table>> /\ itr = 0
    BY <1>8 DEF ResumeTask, Calling, taskVars, tableVars
  <2>2. frame' = frame /\ Stage(t)' = Stage(t)
    BY <1>1, <1>8, StageIdle
  <2>3. PushReady(ResumeItem(id)) \/ UNCHANGED <<m_ready_list, itr>>
    BY <1>8 DEF ResumeTask, noticeVars
  <2>4. ResumePending(t) => ResumePending(t)'
    BY <1>1, <1>3, <2>1, <2>3, PushKeepsPending DEF ResumePending
  <2> QED BY <1>1, <1>2, <2>1, <2>2, <2>4, WokenKept
<1>9. CASE Suspend \/ Yield
  <2>1. /\ InTask /\ UNCHANGED <<m_co, phase, m_id, m_search_table, m_join_table, m_ready_list, itr>>
    BY <1>9 DEF Suspend, Yield, tableVars, noticeVars
  <2>2. PICK f : SuspendIn(f) /\ f.op # "_Join"
    <3>1. /\ [NoFrame EXCEPT !.op = "_Suspend"].op # "_Join"
          /\ [NoFrame EXCEPT !.op = "_Yield"].op # "_Join"
      BY DEF NoFrame
    <3> QED BY <1>9, <3>1 DEF Suspend, Yield
  <2>3. frame' = [frame EXCEPT ![CurrentTask] = f]
        /\ \A x \in Tasks : Stage(x)' = IF x = CurrentTask THEN "wait" ELSE Stage(x)
    BY <1>1, <2>1, <2>2, StageSuspend
  <2>4. CASE t = CurrentTask
    BY <1>1, <2>2, <2>3, <2>4 DEF Woken, InOp
  <2>5. CASE t # CurrentTask
    BY <1>1, <1>2, <1>3, <2>1, <2>3, <2>5, WokenKept
  <2> QED BY <2>4, <2>5
<1>10. ASSUME NEW id \in TaskIDs, Join(id) PROVE Woken(t)'
  <2> DEFINE f == [op |-> "_Join", child |-> id, first |-> m_join_table'[id] = m_id[CurrentTask]]
  <2>1. UNCHANGED <<phase, m_id, m_search_table, m_ready_list, itr>>
    BY <1>10 DEF Join, noticeVars
  <2>2. CASE UNCHANGED <<coVars, frame, m_co, m_join_table>>
    <3>1. Stage(t)' = Stage(t)
      BY <2>2 DEF coVars, Stage
    <3> QED BY <1>1, <1>2, <1>3, <2>1, <2>2, <3>1, WokenKept
  <2>3. CASE /\ InTask /\ UNCHANGED m_co /\ m_join_table' = OnTaskJoin(m_id[CurrentTask], id)
             /\ SuspendIn(f)
    <3>1. frame' = [frame EXCEPT ![CurrentTask] = f]
          /\ \A x \in Tasks : Stage(x)' = IF x = CurrentTask THEN "wait" ELSE Stage(x)
      BY <1>1, <2>3, StageSuspend
    <3>2. CASE t = CurrentTask
      <4>1. frame'[t] = f /\ f.child = id /\ (f.first => m_join_table'[id] = m_id[t])
        BY <1>1, <3>1, <3>2
      <4> HIDE DEF f
      <4> QED BY <2>1, <4>1 DEF Woken
    <3>3. CASE t # CurrentTask
      <4>1. frame'[t] = frame[t] /\ Stage(t)' = Stage(t)
        BY <1>1, <3>1, <3>3
      <4>2. m_join_table'[frame[t].child] = m_join_table[frame[t].child]
            \/ m_join_table[frame[t].child] # m_id[t]
        <5>1. frame[t].child \in TaskIDs
          BY <1>1 DEF Frame
        <5> QED BY <1>1, <2>3, <5>1 DEF OnTaskJoin
      <4> QED BY <1>1, <1>2, <1>3, <2>1, <4>1, <4>2, WokenKept
    <3> QED BY <3>2, <3>3
  <2> QED BY <1>10, <2>2, <2>3, JoinCases
<1>11. CASE OnTaskFinished
  <2> DEFINE id == m_id[CurrentTask]
  <2>1. /\ InTask /\ phase' = [phase EXCEPT ![CurrentTask] = "notify"]
        /\ m_search_table' = [m_search_table EXCEPT ![id] = NULL]
        /\ ResumeParentTask(id) /\ UNCHANGED m_id
    BY <1>11 DEF OnTaskFinished
  <2>2. frame' = frame /\ Stage(t)' = Stage(t)
    BY <1>1, <1>11, StageIdle
  <2>3. itr = 0 /\ CurrentTask \in Tasks /\ id \in TaskIDs /\ phase[CurrentTask] # "free"
    BY <1>1, <2>1, Current
  <2>4. m_join_table' = [m_join_table EXCEPT ![id] = NULL]
        /\ IF m_join_table[id] # NULL /\ m_search_table'[m_join_table[id]] # NULL
             THEN PushReady(ResumeItem(m_join_table[id]))
             ELSE UNCHANGED <<m_ready_list, itr>>
    BY <2>1 DEF ResumeParentTask, noticeVars
  <2> HIDE DEF id
  <2>5. Registered(t)' => Registered(t) /\ m_id'[t] = m_id[t]
    BY <1>1, <2>1, <2>3 DEF Registered
  <2>6. ResumePending(t) => ResumePending(t)'
    BY <1>1, <1>3, <2>1, <2>3, <2>4, PushKeepsPending DEF ResumePending
  <2>7. CASE /\ Registered(t)' /\ InOp(t, "_Join") /\ frame[t].child = id
             /\ m_join_table[id] = m_id[t]
    <3>1. m_search_table'[m_id[t]] = t
      BY <2>1, <2>7 DEF Registered
    <3>2. m_id[t] # NULL /\ t # NULL
      BY <1>1
    <3>3. PushReady(ResumeItem(m_id[t]))
      BY <2>4, <2>7, <3>1, <3>2
    <3>4. ResumePending(t)'
      BY <1>1, <2>1, <2>3, <3>3, PushKeepsPending DEF ResumePending
    <3> QED BY <3>4 DEF Woken
  <2>8. CASE ~(/\ Registered(t)' /\ InOp(t, "_Join") /\ frame[t].child = id
               /\ m_join_table[id] = m_id[t])
    <3>1. CASE ~Registered(t)'
      BY <3>1 DEF Woken
    <3>2. CASE ~InOp(t, "_Join")
      BY <2>2, <3>2 DEF Woken, InOp
    <3>3. CASE Registered(t)' /\ InOp(t, "_Join")
      <4>1. frame[t].child \in TaskIDs
        BY <1>1 DEF Frame
      <4>2. m_join_table'[frame[t].child] = m_join_table[frame[t].child]
            \/ m_join_table[frame[t].child] # m_id[t]
        BY <1>1, <2>3, <2>4, <2>8, <3>3, <4>1
      <4> QED BY <1>1, <2>2, <2>5, <2>6, <4>2, WokenKept
    <3> QED BY <3>1, <3>2, <3>3
  <2> QED BY <2>7, <2>8
<1>12. CASE ExecuteReturn
  <2>1. /\ phase' = [phase EXCEPT ![CurrentTask] = "free"]
        /\ m_id' = [m_id EXCEPT ![CurrentTask] = 0]
        /\ UNCHANGED <<m_search_table, m_join_table, m_ready_list, itr>>
    BY <1>12 DEF ExecuteReturn, tableVars, noticeVars
  <2>2. /\ frame' = frame /\ CurrentTask \in Tasks
        /\ \A x \in Tasks : Stage(x)' = IF x = CurrentTask THEN "none" ELSE Stage(x)
    BY <1>1, <1>12, StageReturn
  <2>3. CASE t = CurrentTask
    <3>1. phase'[t] = "free"
      BY <1>1, <2>1, <2>3
    <3> QED BY <3>1 DEF Woken, Registered
  <2>4. CASE t # CurrentTask
    <3>1. phase'[t] = phase[t] /\ m_id'[t] = m_id[t]
      BY <1>1, <2>1, <2>4
    <3>2. Registered(t)' => Registered(t)
      BY <2>1, <3>1 DEF Registered
    <3>3. ResumePending(t) => ResumePending(t)'
      BY <2>1, <3>1 DEF ResumePending, Pending
    <3> QED BY <1>1, <2>1, <2>2, <2>4, <3>1, <3>2, <3>3, WokenKept
  <2> QED BY <2>3, <2>4
<1>13. CASE OnNotice_new
  <2> DEFINE y == m_ready_list[itr].task
  <2>1. AtItem(TRUE)
    BY <1>13 DEF OnNotice_new
  <2>2. /\ UNCHANGED <<phase, m_id, m_search_table, m_join_table, m_ready_list>>
        /\ Pending' = Pending \ {itr}
    BY <1>1, <2>1, NextItem
  <2>3. /\ m_ready_list[itr] = NewItem(y) /\ UNCHANGED frame /\ Stage(y) = "none"
        /\ \A x \in Tasks : IF x = y THEN Stage(x)' \in {"none", "ready"} ELSE Stage(x)' = Stage(x)
    BY <1>1, <1>13, StageNew
  <2>4. ResumePending(t) => ResumePending(t)'
    <3>1. \A id : NewItem(y) # ResumeItem(id)
      BY DEF NewItem, ResumeItem
    <3> HIDE DEF y
    <3> QED BY <2>2, <2>3, <3>1 DEF ResumePending
  <2> HIDE DEF y
  <2> QED BY <1>1, <1>2, <2>2, <2>3, <2>4, WokenKept
<1>14. CASE OnNotice_resume
  <2> DEFINE id == m_ready_list[itr].task_id
  <2>1. AtItem(FALSE)
    BY <1>14 DEF OnNotice_resume
  <2>2. /\ UNCHANGED <<phase, m_id, m_search_table, m_join_table, m_ready_list>>
        /\ Pending' = Pending \ {itr}
    BY <1>1, <2>1, NextItem
  <2>3. UNCHANGED frame
        /\ Stage(t)' = IF t = FindTask(id) /\ Stage(t) = "wait" THEN "ready" ELSE Stage(t)
    BY <1>1, <1>14, StageResume
  <2>4. Registered(t)' /\ InOp(t, "_Join") /\ ResumePending(t) =>
          ResumePending(t)' \/ Stage(t)' = "ready"
    <3> SUFFICES ASSUME Registered(t)', InOp(t, "_Join"), ResumePending(t), ~ResumePending(t)'
                 PROVE  Stage(t)' = "ready"
      OBVIOUS
    <3>1. m_ready_list[itr] = ResumeItem(m_id[t])
      BY <2>2 DEF ResumePending
    <3>2. id = m_id[t]
      BY <3>1 DEF ResumeItem
    <3>3. FindTask(id) = t
      BY <2>2, <3>2 DEF Registered
    <3>4. Stage(t) \in {"wait", "ready"}
      BY <1>1 DEF FramesMatch, InOp
    <3> HIDE DEF id
    <3> QED BY <2>3, <3>3, <3>4
  <2> HIDE DEF id
  <2> QED BY <1>1, <1>2, <2>2, <2>3, <2>4, WokenKept
<1>15. CASE RunTask
  <2> DEFINE y == data[Head(co_ready_list)]
  <2>1. UNCHANGED <<phase, m_id, m_search_table, m_join_table, m_ready_list, itr>>
    BY <1>15 DEF RunTask, tableVars, noticeVars
  <2>2. /\ y \in Tasks /\ frame' = [frame EXCEPT ![y] = NoFrame]
        /\ \A x \in Tasks : Stage(x)' = IF x = y THEN "run" ELSE Stage(x)
    BY <1>1, <1>15, StageRun
  <2> HIDE DEF y
  <2>3. CASE t = y
    <3>1. frame'[t].op = "none"
      BY <1>1, <2>2, <2>3 DEF NoFrame
    <3> QED BY <3>1 DEF Woken, InOp
  <2>4. CASE t # y
    BY <1>1, <1>2, <1>3, <2>1, <2>2, <2>4, WokenKept
  <2> QED BY <2>3, <2>4
<1> QED BY <1>4, <1>5, <1>6, <1>7, <1>8, <1>9, <1>10, <1>11, <1>12, <1>13, <1>14, <1>15 DEF Next

LEMMA InitJInv == Init => JInv
<1> SUFFICES ASSUME Init PROVE JInv
  OBVIOUS
<1>1. FramesMatch
  BY DEF Init, FramesMatch, Stage, NoFrame
<1>2. NothingReady
  BY DEF Init, Co!Init, NothingReady
<1>3. JoinsLive
  BY DEF Init, JoinsLive
<1>4. \A t \in Tasks : Woken(t)
  BY DEF Init, Woken, InOp, NoFrame
<1> QED BY <1>1, <1>2, <1>3, <1>4, InitIInv DEF JInv

LEMMA StepJInv == JInv /\ [Next]_vars => JInv'
<1> SUFFICES ASSUME JInv, [Next]_vars PROVE JInv'
  OBVIOUS
<1>1. IInv'
  BY StepIInv DEF JInv
<1> QED BY <1>1, NothingReadyStep, FramesMatchStep, JoinsLiveStep, WokenStep DEF JInv

-----------------------------------------------------------------------------
(* A task that waits in a notifier after its end is not woken *)

Sleeps(t) == phase[t] = "notify" /\ Stage(t) = "wait"

LEMMA SleepsStep ==
  ASSUME IInv, [Next]_vars, NEW t \in Tasks, Sleeps(t)
  PROVE  phase'[t] = "notify" /\ m_co'[t] = m_co[t] /\ Stage(t)' = "wait"
<1>1. /\ phase \in [Tasks -> {"free", "live", "notify"}]
      /\ m_co \in [Tasks -> Coroutines \cup {NULL}]
      /\ phase[t] = "notify" /\ Stage(t) = "wait"
  BY DEF IInv, TypeOK, Sleeps
<1>2. CASE UNCHANGED vars
  BY <1>1, <1>2 DEF vars, coVars, taskVars, Stage
<1>3. CASE \/ Startup \/ Reap \/ OnNotice_begin \/ OnNotice_update \/ OnNotice_return
           \/ OnTaskFinished
           \/ \E x \in Tasks : StartTask(x)
           \/ \E id \in TaskIDs : ResumeTask(id)
  <2>1. Stage(t)' = Stage(t)
    BY <1>3, StageIdle
  <2>2. m_co'[t] = m_co[t] /\ phase'[t] = phase[t]
    BY <1>1, <1>3 DEF Startup, Reap, OnNotice_begin, OnNotice_update, OnNotice_return,
       OnTaskFinished, StartTask, ResumeTask, taskVars
  <2> QED BY <1>1, <2>1, <2>2
<1>4. CASE Suspend \/ Yield \/ \E id \in TaskIDs : Join(id)
  <2>1. InTask /\ UNCHANGED <<phase, m_co>>
    BY <1>4 DEF Suspend, Yield, Join
  <2>2. UNCHANGED coVars \/ \E f : SuspendIn(f)
    BY <1>4, JoinCases DEF Suspend, Yield
  <2>3. Stage(t)' = "wait"
    <3>1. CASE UNCHANGED coVars
      BY <1>1, <2>1, <3>1 DEF coVars, Stage
    <3>2. CASE \E f : SuspendIn(f)
      BY <1>1, <2>1, <3>2, StageSuspend
    <3> QED BY <2>2, <3>1, <3>2
  <2> QED BY <1>1, <2>1, <2>3
<1>5. CASE ExecuteReturn
  <2>1. t # CurrentTask /\ Stage(t)' = "wait"
    BY <1>1, <1>5, StageReturn
  <2> QED BY <1>1, <1>5, <2>1 DEF ExecuteReturn
<1>6. CASE OnNotice_new
  <2>1. t # m_ready_list[itr].task /\ Stage(t)' = "wait"
    BY <1>1, <1>6, StageNew
  <2> QED BY <1>1, <1>6, <2>1 DEF OnNotice_new, InitTask, AtItem
\* What the id of an element of m_ready_list leads to is a live task.
<1>7. CASE OnNotice_resume
  <2>1. AtItem(FALSE) /\ UNCHANGED <<phase, m_co>>
    BY <1>7 DEF OnNotice_resume, AtItem
  <2>2. m_ready_list[itr].task_id \in TaskIDs
    BY <2>1, AtItemTyped, Items
  <2>3. NULL \notin Tasks
    BY TaskAssumption DEF TaskAssumption
  <2>4. t # FindTask(m_ready_list[itr].task_id)
    BY <1>1, <2>2, <2>3 DEF IInv, SearchFindsLive
  <2>5. Stage(t)' = "wait"
    BY <1>1, <1>7, <2>4, StageResume
  <2> QED BY <1>1, <2>1, <2>5
<1>8. CASE RunTask
  <2>1. Stage(t)' = "wait"
    BY <1>1, <1>8, StageRun
  <2> QED BY <1>1, <1>8, <2>1 DEF RunTask
<1> QED BY <1>2, <1>3, <1>4, <1>5, <1>6, <1>7, <1>8 DEF Next

-----------------------------------------------------------------------------
(* The theorems *)

\* The strengthened invariant holds in every state.
THEOREM TasksInductive == Spec => []IInv
  BY InitIInv, StepIInv, PTL DEF Spec

\* The variables of the manager stay within the ranges of the C++ ones.
THEOREM TasksTypeOK == Spec => []TypeOK
  BY TasksInductive, PTL DEF IInv

\* The tables hold no deleted task, however ids wrap.
THEOREM TasksNeverDangle == Spec => []TablesNeverDangle
<1>1. IInv => TablesNeverDangle
  BY Parts DEF IInv
<1> QED BY <1>1, TasksInductive, PTL

\* m_co of a task is a coroutine that runs that task and no other.
THEOREM TasksOwn == Spec => []TaskOwnsCoroutine
  BY TasksInductive, PTL DEF IInv

\* No push on m_ready_list goes unannounced between notices.
THEOREM TasksAnnounced == Spec => []NoticeMatchesList
  BY TasksInductive, PTL DEF IInv

\* OnNotice switches to no coroutine that has no stack, where creation reports
\* its failures.
THEOREM TasksNeverStackless == Spec => []NeverStackless
<1>1. IInv => NeverStackless
  BY SchInvariant DEF IInv, NeverStackless
<1> QED BY <1>1, TasksInductive, PTL

\* Who joined a task first is not forgotten: its resume is on its way as soon
\* as the task has ended, however ids wrap.
THEOREM TasksJoinerWoken == Spec => []JoinerWoken
  BY InitJInv, StepJInv, JInvJoinerWoken, PTL DEF Spec

\* Nothing becomes ready while co_update runs the tasks.
THEOREM TasksOneSlice == Spec => OneSlicePerNotice
<1>1. ASSUME IInv, [Next]_vars, updating = "update", updating' = "update"
      PROVE  Range(co_ready_list') \subseteq Range(co_ready_list)
  <2>1. itr = 0 /\ co_ready_list \in Seq(Coroutines)
    BY <1>1 DEF IInv, NoticeRuns, TypeOK, Co!TypeOK
  <2>2. CASE UNCHANGED co_ready_list
    BY <2>2
  <2>3. CASE RunTask
    <3>1. co_ready_list # <<>> /\ co_ready_list' = Tail(co_ready_list)
      BY <2>3 DEF RunTask, Co!co_update_run
    <3> QED BY <2>1, <3>1 DEF Range
  <2>4. ASSUME \/ UNCHANGED vars \/ Startup \/ Reap \/ OnNotice_return \/ OnNotice_begin
               \/ OnNotice_update \/ Suspend \/ Yield \/ OnTaskFinished \/ ExecuteReturn
               \/ \E t \in Tasks : StartTask(t)
               \/ \E id \in TaskIDs : ResumeTask(id) \/ Join(id)
        PROVE  UNCHANGED co_ready_list
    BY <1>1, <2>4
       DEF vars, coVars, Startup, Reap, OnNotice_return, OnNotice_begin, OnNotice_update, Suspend,
           Yield, OnTaskFinished, ExecuteReturn, StartTask, ResumeTask, Join, SuspendIn,
           Co!co_thread_init_cache, Co!co_thread_init_return, Co!co_update_reap,
           Co!co_update_return, Co!co_update_begin, Co!co_yield, Co!FiberFunc_return
  <2>5. ~OnNotice_new /\ ~OnNotice_resume
    BY <2>1 DEF OnNotice_new, OnNotice_resume, AtItem
  <2> QED BY <1>1, <2>2, <2>3, <2>4, <2>5 DEF Next
<1> QED BY <1>1, TasksInductive, PTL DEF Spec, OneSlicePerNotice

\* Once its closure has ended no id leads to a task, whatever was queued, joined
\* or started with the same id: one that suspends itself in a notifier is woken
\* by nothing, for every number of tasks and ids.
THEOREM TasksEndedSleep == Spec => EndedSleeps
<1> DEFINE Kept(t) == phase[t] = "notify" /\ Waiting(t) =>
             phase'[t] = "notify" /\ m_co'[t] = m_co[t] /\ status'[m_co[t]] = "wait"
<1>1. ASSUME IInv, [Next]_vars, NEW t \in Tasks PROVE Kept(t)
  <2> SUFFICES ASSUME phase[t] = "notify", Waiting(t)
               PROVE  phase'[t] = "notify" /\ m_co'[t] = m_co[t] /\ status'[m_co[t]] = "wait"
    OBVIOUS
  <2>1. Sleeps(t) /\ m_co[t] # NULL
    BY DEF Sleeps, Waiting, Stage
  <2>2. phase'[t] = "notify" /\ m_co'[t] = m_co[t] /\ Stage(t)' = "wait"
    BY <1>1, <2>1, SleepsStep
  <2> QED BY <2>1, <2>2 DEF Stage
<1>2. IInv /\ [Next]_vars => \A t \in Tasks : Kept(t)
  BY <1>1
<1>3. IInv /\ [Next]_vars =>
        [\A t \in Tasks : phase[t] = "notify" /\ Waiting(t) =>
           phase'[t] = "notify" /\ m_co'[t] = m_co[t] /\ status'[m_co[t]] = "wait"]_vars
  BY <1>2
<1> QED BY <1>3, TasksInductive, PTL DEF Spec, EndedSleeps

-----------------------------------------------------------------------------
(* The task manager implements TaskBatches as long as ids do not wrap.  First *)
(* the refinement mapping, with names for its parts.                          *)

Live == {t \in Tasks : Alive(t)}
Fresh == {t \in Tasks : StartPending(t)}
Wanted == {t \in PendingTasks : Alive(t)}
Asked == IF itr = 0 THEN Wanted ELSE {}
ReadyTasks == {data[c] : c \in Range(co_ready_list)}
Batch == ReadyTasks \cup (IF itr = 0 THEN {} ELSE Wanted)
MayFail == CreateFailures \cap {"malloc", "setup"} # {}

\* While ids do not wrap, no two tasks have had the same one, so that the id of
\* a live task leads to it and an id that is waiting names no task to come.
KInv ==
  /\ JInv
  /\ \A t \in Tasks : phase[t] = "live" => FindTask(m_id[t]) = t
  /\ \A t \in Tasks : m_id[t] <= m_id_generator
  /\ \A i \in Pending : ~m_ready_list[i].is_new => m_ready_list[i].task_id <= m_id_generator
  /\ \A t \in Tasks : Stage(t) = "ready" => phase[t] = "live"

LEMMA Typed ==
  ASSUME KInv
  PROVE  /\ JInv /\ IInv /\ FramesMatch /\ NothingReady /\ Co!TypeOK /\ Co!CoroutineInOnePlace
         /\ phase \in [Tasks -> {"free", "live", "notify"}]
         /\ m_id \in [Tasks -> TaskIDs]
         /\ m_co \in [Tasks -> Coroutines \cup {NULL}]
         /\ m_id_generator \in TaskIDs
         /\ m_search_table \in [TaskIDs -> Tasks \cup {NULL}]
         /\ m_join_table \in [TaskIDs -> TaskIDs \cup {NULL}]
         /\ m_ready_list \in Seq(ReadyInfo) /\ itr \in Nat
         /\ NULL \notin Tasks \cup TaskIDs
         /\ NULL \notin Coroutines /\ Main \notin Coroutines
  BY SchInvariant, TaskAssumption, SchedulerAssumption
     DEF KInv, JInv, IInv, TypeOK, TaskAssumption, TaskIDs, SchedulerAssumption,
         Co!TaurusAssumption

\* What m_search_table leads to is live, and the other way round.
LEMMA LiveTasks ==
  ASSUME KInv
  PROVE  /\ \A t \in Tasks : Registered(t) <=> phase[t] = "live"
         /\ \A id \in TaskIDs : FindTask(id) # NULL =>
              FindTask(id) \in Tasks /\ phase[FindTask(id)] = "live" /\ m_id[FindTask(id)] = id
              /\ id <= m_id_generator
<1>1. \A id \in TaskIDs : FindTask(id) # NULL =>
        FindTask(id) \in Tasks /\ phase[FindTask(id)] = "live" /\ m_id[FindTask(id)] = id
  BY Typed DEF IInv, SearchFindsLive, FindTask
<1>2. \A t \in Tasks : t # NULL /\ m_id[t] \in TaskIDs
  BY Typed
<1> QED BY <1>1, <1>2 DEF KInv, Registered

\* The tasks of the ready coroutines.
LEMMA ReadyStages == IInv => ReadyTasks = {t \in Tasks : Stage(t) = "ready"}
<1> SUFFICES ASSUME IInv PROVE ReadyTasks = {t \in Tasks : Stage(t) = "ready"}
  OBVIOUS
<1>1. /\ Co!TypeOK /\ Co!CoroutineInOnePlace /\ NULL \notin Coroutines
      /\ m_co \in [Tasks -> Coroutines \cup {NULL}]
  BY SchInvariant, SchedulerAssumption
     DEF IInv, TypeOK, SchedulerAssumption, Co!TaurusAssumption
<1>2. Range(co_ready_list) = {c \in Coroutines : status[c] = "ready"}
  BY <1>1 DEF Co!CoroutineInOnePlace, Co!Lists, Co!WithStatus, Range, Co!Range
<1>3. ASSUME NEW c \in Coroutines, status[c] = "ready"
      PROVE  data[c] \in Tasks /\ Stage(data[c]) = "ready"
  <2>1. data[c] # NULL /\ m_co[data[c]] = c
    BY <1>3 DEF IInv, TaskOwnsCoroutine
  <2> QED BY <1>1, <1>3, <2>1 DEF Co!TypeOK, Stage
<1>4. ASSUME NEW t \in Tasks, Stage(t) = "ready"
      PROVE  m_co[t] \in Coroutines /\ status[m_co[t]] = "ready" /\ data[m_co[t]] = t
  <2>1. m_co[t] # NULL /\ status[m_co[t]] = "ready"
    BY <1>4 DEF Stage
  <2> QED BY <2>1, Owned
<1> QED BY <1>2, <1>3, <1>4 DEF ReadyTasks

\* The targets of the elements of a list from a position on, by a search table.
To(table, item) == IF item.is_new THEN item.task ELSE table[item.task_id]
Targets(table, list, from) ==
  {To(table, list[i]) : i \in {k \in DOMAIN list : k >= from}} \ {NULL}

LEMMA TargetsPushed ==
  ASSUME NEW S, NEW list \in Seq(S), NEW x \in S, NEW table
  PROVE  Targets(table, Append(list, x), 0) =
           Targets(table, list, 0) \cup ({To(table, x)} \ {NULL})
<1>1. /\ DOMAIN Append(list, x) = DOMAIN list \cup {Len(list) + 1}
      /\ DOMAIN list = 1 .. Len(list)
      /\ \A i \in DOMAIN list : Append(list, x)[i] = list[i]
      /\ Append(list, x)[Len(list) + 1] = x
  OBVIOUS
<1>2. {k \in DOMAIN list : k >= 0} = DOMAIN list
      /\ {k \in DOMAIN Append(list, x) : k >= 0} = DOMAIN list \cup {Len(list) + 1}
  BY <1>1
<1> DEFINE app == Append(list, x)
<1> HIDE DEF app
<1> QED BY <1>1, <1>2 DEF Targets, app

LEMMA TargetsPassed ==
  ASSUME NEW S, NEW list \in Seq(S), NEW i \in 1 .. Len(list), NEW table
  PROVE  Targets(table, list, i) =
           Targets(table, list, i + 1) \cup ({To(table, list[i])} \ {NULL})
<1>1. {k \in DOMAIN list : k >= i} = {k \in DOMAIN list : k >= i + 1} \cup {i}
  OBVIOUS
<1> QED BY <1>1 DEF Targets

LEMMA TargetsEnds ==
  ASSUME NEW S, NEW list \in Seq(S), NEW table
  PROVE  /\ Targets(table, list, 0) = Targets(table, list, 1)
         /\ \A i \in Nat : i > Len(list) => Targets(table, list, i) = {}
         /\ Targets(table, <<>>, 0) = {}
<1>1. {k \in DOMAIN list : k >= 0} = {k \in DOMAIN list : k >= 1}
  OBVIOUS
<1>2. \A i \in Nat : i > Len(list) => {k \in DOMAIN list : k >= i} = {}
  OBVIOUS
<1>3. {k \in DOMAIN <<>> : k >= 0} = {}
  OBVIOUS
<1> QED BY <1>1, <1>2, <1>3 DEF Targets

\* The tasks that the elements of a list from a position on start.
Starts(list, from) ==
  {t \in Tasks : \E i \in {k \in DOMAIN list : k >= from} : list[i] = NewItem(t)}

LEMMA StartsPushed ==
  ASSUME NEW S, NEW list \in Seq(S), NEW x \in S
  PROVE  Starts(Append(list, x), 0) = Starts(list, 0) \cup {t \in Tasks : x = NewItem(t)}
<1> DEFINE app == Append(list, x)
<1>1. /\ DOMAIN app = DOMAIN list \cup {Len(list) + 1}
      /\ DOMAIN list = 1 .. Len(list)
      /\ \A i \in DOMAIN list : app[i] = list[i]
      /\ app[Len(list) + 1] = x
  OBVIOUS
<1> HIDE DEF app
<1>2. {k \in DOMAIN list : k >= 0} = DOMAIN list
      /\ {k \in DOMAIN app : k >= 0} = DOMAIN list \cup {Len(list) + 1}
  BY <1>1
<1> QED BY <1>1, <1>2 DEF Starts, app

LEMMA ResumeStartsNone ==
  ASSUME NEW list \in Seq(ReadyInfo), NEW id \in TaskIDs
  PROVE  Starts(Append(list, ResumeItem(id)), 0) = Starts(list, 0)
<1>1. ResumeItem(id) \in ReadyInfo /\ \A t \in Tasks : ResumeItem(id) # NewItem(t)
  BY DEF ResumeItem, NewItem, ReadyInfo
<1>2. {t \in Tasks : ResumeItem(id) = NewItem(t)} = {}
  BY <1>1
<1>3. Starts(Append(list, ResumeItem(id)), 0)
        = Starts(list, 0) \cup {t \in Tasks : ResumeItem(id) = NewItem(t)}
  BY <1>1, StartsPushed
<1> QED BY <1>2, <1>3

LEMMA StartsPassed ==
  ASSUME NEW S, NEW list \in Seq(S), NEW i \in 1 .. Len(list)
  PROVE  Starts(list, i) = Starts(list, i + 1) \cup {t \in Tasks : list[i] = NewItem(t)}
<1>1. {k \in DOMAIN list : k >= i} = {k \in DOMAIN list : k >= i + 1} \cup {i}
  OBVIOUS
<1> QED BY <1>1 DEF Starts

LEMMA StartsEnds ==
  ASSUME NEW S, NEW list \in Seq(S)
  PROVE  /\ Starts(list, 0) = Starts(list, 1)
         /\ \A i \in Nat : i > Len(list) => Starts(list, i) = {}
         /\ Starts(<<>>, 0) = {}
<1>1. {k \in DOMAIN list : k >= 0} = {k \in DOMAIN list : k >= 1}
  OBVIOUS
<1>2. \A i \in Nat : i > Len(list) => {k \in DOMAIN list : k >= i} = {}
  OBVIOUS
<1>3. {k \in DOMAIN <<>> : k >= 0} = {}
  OBVIOUS
<1> QED BY <1>1, <1>2, <1>3 DEF Starts

-----------------------------------------------------------------------------
(* The abstract state, in terms of the detailed one *)

Abstraction ==
  /\ Fresh = Starts(m_ready_list, itr)
  /\ Live = {t \in Tasks : phase[t] = "live" /\ (Stage(t) # "none" \/ t \in Fresh)}
  /\ ReadyTasks = {t \in Tasks : Stage(t) = "ready"}
  /\ ReadyTasks \subseteq Live
  /\ \A t \in Fresh : phase[t] = "live" /\ Stage(t) = "none"
  /\ Wanted = Targets(m_search_table, m_ready_list, itr) \cap Live
  /\ data[Main] = NULL /\ CurrentTask = data[co_curr]
  /\ updating = "user" => co_curr = Main

LEMMA Abstracts == KInv => Abstraction
<1> SUFFICES ASSUME KInv PROVE Abstraction
  OBVIOUS
<1>1. PendingTasks = Targets(m_search_table, m_ready_list, itr)
  BY DEF PendingTasks, Targets, Target, To, FindTask, Pending
<1>2. data[Main] = NULL
  BY Typed DEF IInv, TaskOwnsCoroutine
<1>3. updating = "user" => co_curr = Main
  BY Typed DEF Co!CoroutineInOnePlace
<1>4. Fresh = Starts(m_ready_list, itr)
  BY DEF Fresh, Starts, StartPending, Pending
<1>5. ASSUME NEW t \in Fresh PROVE phase[t] = "live" /\ Stage(t) = "none"
  <2>1. PICK i \in Pending : m_ready_list[i] = NewItem(t)
    BY DEF Fresh, StartPending
  <2>2. m_ready_list[i].is_new /\ m_ready_list[i].task = t
    BY <2>1 DEF NewItem
  <2>3. phase[t] = "live" /\ m_co[t] = NULL
    BY <2>1, <2>2, Typed DEF IInv, PendingWait
  <2> QED BY <2>3 DEF Stage
<1>6. \A t \in Tasks : m_co[t] # NULL <=> Stage(t) # "none"
  <2> SUFFICES ASSUME NEW t \in Tasks PROVE m_co[t] # NULL <=> Stage(t) # "none"
    OBVIOUS
  <2>1. ASSUME m_co[t] # NULL PROVE Stage(t) # "none"
    BY <2>1, Owned, Typed DEF Stage, InUse
  <2> QED BY <2>1 DEF Stage
<1>7. \A t \in Tasks : Alive(t) <=> phase[t] = "live" /\ (Stage(t) # "none" \/ t \in Fresh)
  BY <1>6, LiveTasks DEF Alive, Fresh
<1>8. ReadyTasks = {t \in Tasks : Stage(t) = "ready"}
  BY Typed, ReadyStages
<1>9. Live = {t \in Tasks : phase[t] = "live" /\ (Stage(t) # "none" \/ t \in Fresh)}
  BY <1>7 DEF Live
<1>10. ReadyTasks \subseteq Live
  BY <1>8, <1>9 DEF KInv
<1>11. PendingTasks \subseteq Tasks
  <2> SUFFICES ASSUME NEW i \in Pending, Target(m_ready_list[i]) # NULL
               PROVE  Target(m_ready_list[i]) \in Tasks
    BY DEF PendingTasks
  <2>1. m_ready_list[i] \in ReadyInfo
    BY Typed DEF Pending
  <2> QED BY <2>1, Items, Typed DEF Target, FindTask
<1>12. Wanted = Targets(m_search_table, m_ready_list, itr) \cap Live
  BY <1>1, <1>11 DEF Wanted, Live
<1> QED BY <1>2, <1>3, <1>4, <1>5, <1>8, <1>9, <1>10, <1>12
        DEF Abstraction, CurrentTask, Co!co_get_data

LEMMA AbstractsNext == KInv' => Abstraction'
  BY Abstracts, PTL

\* Only OnNotice is at an element of m_ready_list, and main runs it.
LEMMA NoticeByMain ==
  ASSUME KInv
  PROVE  /\ updating = "user" => co_curr = Main /\ CurrentTask = NULL
         /\ itr # 0 => updating = "user"
         /\ updating \in {"init", "user"} /\ itr = 0 => ReadyTasks = {}
<1>1. updating = "user" => co_curr = Main
  BY Typed DEF Co!CoroutineInOnePlace
<1>2. itr # 0 => updating = "user"
  BY Typed DEF IInv, NoticeRuns
<1>3. Abstraction
  BY Abstracts
<1>4. ASSUME updating \in {"init", "user"}, itr = 0 PROVE ReadyTasks = {}
  <2>1. \A t \in Tasks : Stage(t) # "ready"
    BY <1>4, Typed DEF NothingReady, Stage
  <2> QED BY <1>3, <2>1 DEF Abstraction
<1> QED BY <1>1, <1>2, <1>3, <1>4 DEF Abstraction

-----------------------------------------------------------------------------
(* Ids and live tasks, while ids do not wrap *)

\* How an action treats the tables, in the cases that KInv tells apart.
LEMMA StartTables ==
  ASSUME KInv, ~IdsWrap, NEW t \in Tasks, StartTask(t)
  PROVE  /\ itr = 0 /\ phase[t] = "free" /\ phase' = [phase EXCEPT ![t] = "live"]
         /\ AllocID = m_id_generator + 1 /\ AllocID \in TaskIDs
         /\ m_id_generator' = AllocID
         /\ m_id' = [m_id EXCEPT ![t] = AllocID]
         /\ m_search_table' = [m_search_table EXCEPT ![AllocID] = t]
         /\ m_ready_list' = Append(m_ready_list, NewItem(t)) /\ itr' = itr
<1>1. IdMod \in Nat \ {0, 1} /\ m_id_generator \in 0 .. IdMod - 1
      /\ m_id_generator < IdMod - 1
  BY Typed, TaskAssumption DEF TaskAssumption, TaskIDs, StartTask
<1>2. (m_id_generator + 1) % IdMod = m_id_generator + 1
  BY <1>1, ModSmall
<1>3. AllocID = m_id_generator + 1 /\ AllocID \in TaskIDs
  BY <1>1, <1>2 DEF AllocID, TaskIDs
<1> QED BY <1>3 DEF StartTask, Calling, PushReady

LEMMA FinishTables ==
  ASSUME KInv, OnTaskFinished
  PROVE  LET id == m_id[CurrentTask]
             parent == m_join_table[id] IN
           /\ itr = 0 /\ CurrentTask \in Tasks /\ id \in TaskIDs
           /\ phase[CurrentTask] = "live" /\ Stage(CurrentTask) = "run"
           /\ phase' = [phase EXCEPT ![CurrentTask] = "notify"]
           /\ m_search_table' = [m_search_table EXCEPT ![id] = NULL]
           /\ UNCHANGED <<coVars, m_id, m_co, m_id_generator, itr>>
           /\ \/ /\ parent \in TaskIDs /\ m_search_table'[parent] # NULL
                 /\ m_ready_list' = Append(m_ready_list, ResumeItem(parent))
              \/ UNCHANGED m_ready_list
<1>1. /\ InTask /\ phase[CurrentTask] = "live"
      /\ phase' = [phase EXCEPT ![CurrentTask] = "notify"]
      /\ m_search_table' = [m_search_table EXCEPT ![m_id[CurrentTask]] = NULL]
      /\ ResumeParentTask(m_id[CurrentTask])
      /\ UNCHANGED <<coVars, m_id, m_co, frame, m_id_generator>>
  BY DEF OnTaskFinished
<1>2. /\ itr = 0 /\ CurrentTask \in Tasks /\ m_co[CurrentTask] = co_curr
      /\ co_curr # NULL /\ status[co_curr] = "run"
  BY <1>1, Current, Typed
<1>3. m_id[CurrentTask] \in TaskIDs
  BY <1>2, Typed
<1>4. m_join_table[m_id[CurrentTask]] \in TaskIDs \cup {NULL}
  BY <1>3, Typed
<1>5. Stage(CurrentTask) = "run"
  BY <1>2 DEF Stage
<1>6. itr' = itr
  BY <1>1 DEF ResumeParentTask, PushReady, noticeVars
<1>7. \/ /\ m_join_table[m_id[CurrentTask]] # NULL
         /\ m_search_table'[m_join_table[m_id[CurrentTask]]] # NULL
         /\ m_ready_list' = Append(m_ready_list, ResumeItem(m_join_table[m_id[CurrentTask]]))
      \/ UNCHANGED m_ready_list
  BY <1>1 DEF ResumeParentTask, PushReady, noticeVars
<1> QED BY <1>1, <1>2, <1>3, <1>4, <1>5, <1>6, <1>7

\* An element pushed on m_ready_list is the only one that was not pending.
LEMMA PushedPending ==
  ASSUME KInv, NEW x \in ReadyInfo, m_ready_list' = Append(m_ready_list, x), itr' = itr
  PROVE  \A i \in Pending' : \/ i \in Pending /\ m_ready_list'[i] = m_ready_list[i]
                             \/ m_ready_list'[i] = x
<1>1. m_ready_list \in Seq(ReadyInfo)
  BY Typed
<1> QED BY <1>1 DEF Pending

\* A suspension makes nothing ready, and gives control back to main.
LEMMA SuspendStages ==
  ASSUME KInv, Suspend \/ Yield \/ \E id \in TaskIDs : Join(id)
  PROVE  /\ CurrentTask \in Tasks /\ co_curr # Main
         /\ \/ UNCHANGED <<coVars, m_co>> /\ \A x \in Tasks : Stage(x)' = Stage(x)
            \/ /\ co_curr' = Main /\ Stage(CurrentTask) = "run"
               /\ \A x \in Tasks : Stage(x)' = IF x = CurrentTask THEN "wait" ELSE Stage(x)
<1>1. InTask /\ UNCHANGED m_co
  BY DEF Suspend, Yield, Join
<1>2. /\ CurrentTask \in Tasks /\ co_curr # Main /\ m_co[CurrentTask] = co_curr
      /\ co_curr # NULL /\ status[co_curr] = "run"
  BY <1>1, Current, Typed
<1>3. ASSUME NEW f, SuspendIn(f)
      PROVE  /\ co_curr' = Main /\ Stage(CurrentTask) = "run"
             /\ \A x \in Tasks : Stage(x)' = IF x = CurrentTask THEN "wait" ELSE Stage(x)
  <2>1. \A x \in Tasks : Stage(x)' = IF x = CurrentTask THEN "wait" ELSE Stage(x)
    BY <1>1, <1>3, StageSuspend, Typed
  <2> QED BY <1>2, <1>3, <2>1 DEF SuspendIn, Co!co_yield, Stage
<1>4. CASE UNCHANGED coVars
  BY <1>1, <1>2, <1>4 DEF coVars, Stage
<1>5. UNCHANGED coVars \/ \E f : SuspendIn(f)
  BY JoinCases DEF Suspend, Yield
<1> QED BY <1>1, <1>2, <1>3, <1>4, <1>5

LEMMA KInvStep == ~IdsWrap => (KInv /\ [Next]_vars => KInv')
<1> SUFFICES ASSUME ~IdsWrap, KInv, [Next]_vars PROVE KInv'
  OBVIOUS
<1>1. JInv'
  BY StepJInv, Typed
<1> DEFINE Found == \A t \in Tasks : phase[t] = "live" => FindTask(m_id[t]) = t
           Given == \A t \in Tasks : m_id[t] <= m_id_generator
           WaitingIds == \A i \in Pending : ~m_ready_list[i].is_new =>
                        m_ready_list[i].task_id <= m_id_generator
           Lives == \A t \in Tasks : Stage(t) = "ready" => phase[t] = "live"
<1>2. Found /\ Given /\ WaitingIds /\ Lives
  BY DEF KInv
<1>3. SUFFICES Found' /\ Given' /\ WaitingIds' /\ Lives'
  BY <1>1 DEF KInv
<1>4. ASSUME UNCHANGED <<phase, m_id, m_id_generator, m_search_table>>
      PROVE  Found' /\ Given'
  BY <1>2, <1>4 DEF FindTask
<1>5. ASSUME UNCHANGED <<m_id_generator, m_ready_list>>, Pending' \subseteq Pending
      PROVE  WaitingIds'
  BY <1>2, <1>5
<1>6. ASSUME UNCHANGED <<m_ready_list, itr>> PROVE Pending' \subseteq Pending
  BY <1>6 DEF Pending
<1>7. ASSUME \A t \in Tasks : Stage(t)' = "ready" => Stage(t) = "ready" /\ phase'[t] = phase[t]
      PROVE  Lives'
  BY <1>2, <1>7
<1>8. \A t \in Tasks : m_id[t] \in TaskIDs /\ t # NULL
  BY Typed
<1>9. m_id_generator \in Nat /\ TaskIDs \subseteq Nat
  BY Typed, TaskAssumption DEF TaskIDs, TaskAssumption
<1> HIDE DEF Found, Given, WaitingIds, Lives
<1>10. CASE UNCHANGED vars
  <2>1. UNCHANGED <<phase, m_id, m_co, m_id_generator, m_search_table, m_ready_list, itr, status>>
    BY <1>10 DEF vars, coVars, taskVars, tableVars, noticeVars
  <2>2. \A t \in Tasks : Stage(t)' = Stage(t)
    BY <2>1 DEF Stage
  <2> QED BY <2>1, <2>2, <1>4, <1>5, <1>6, <1>7
<1>11. CASE Startup \/ Reap \/ OnNotice_return
  <2>1. UNCHANGED <<phase, m_id, m_id_generator, m_search_table, m_ready_list, itr>>
    BY <1>11 DEF Startup, Reap, OnNotice_return, taskVars, tableVars, noticeVars
  <2>2. \A t \in Tasks : Stage(t)' = Stage(t)
    BY <1>11, StageIdle, Typed
  <2> QED BY <2>1, <2>2, <1>4, <1>5, <1>6, <1>7
<1>12. CASE OnNotice_begin
  <2>1. UNCHANGED <<phase, m_id, m_id_generator, m_search_table, m_ready_list>>
        /\ itr = 0 /\ itr' = 1
    BY <1>12 DEF OnNotice_begin, taskVars, tableVars
  <2>2. \A t \in Tasks : Stage(t)' = Stage(t)
    BY <1>12, StageIdle, Typed
  <2>3. Pending' \subseteq Pending
    <3>1. m_ready_list \in Seq(ReadyInfo)
      BY Typed
    <3> QED BY <2>1, <3>1 DEF Pending
  <2> QED BY <2>1, <2>2, <2>3, <1>4, <1>5, <1>7
<1>13. CASE OnNotice_update
  <2>1. UNCHANGED <<phase, m_id, m_id_generator, m_search_table>>
        /\ m_ready_list' = <<>>
    BY <1>13 DEF OnNotice_update, taskVars, tableVars
  <2>2. \A t \in Tasks : Stage(t)' = Stage(t)
    BY <1>13, StageIdle, Typed
  <2>3. WaitingIds'
    BY <2>1 DEF WaitingIds, Pending
  <2> QED BY <2>1, <2>2, <2>3, <1>4, <1>7
<1>14. ASSUME NEW t \in Tasks, StartTask(t) PROVE Found' /\ Given' /\ WaitingIds' /\ Lives'
  <2>1. /\ itr = 0 /\ phase[t] = "free" /\ phase' = [phase EXCEPT ![t] = "live"]
        /\ AllocID = m_id_generator + 1 /\ AllocID \in TaskIDs
        /\ m_id_generator' = AllocID
        /\ m_id' = [m_id EXCEPT ![t] = AllocID]
        /\ m_search_table' = [m_search_table EXCEPT ![AllocID] = t]
        /\ m_ready_list' = Append(m_ready_list, NewItem(t)) /\ itr' = itr
    BY <1>14, StartTables
  <2>2. \A x \in Tasks : Stage(x)' = Stage(x)
    BY <1>14, StageIdle, Typed
  <2>3. \A x \in Tasks : phase'[x] = IF x = t THEN "live" ELSE phase[x]
    BY <2>1, Typed
  <2>4. \A x \in Tasks : m_id'[x] = IF x = t THEN AllocID ELSE m_id[x]
    BY <2>1, Typed
  <2>5. Given'
    <3>1. \A x \in Tasks : m_id[x] \in Nat /\ m_id[x] <= m_id_generator
      BY <1>2, <1>8, <1>9 DEF Given
    <3>2. \A n \in Nat : n <= m_id_generator => n <= m_id_generator + 1
      BY <1>9
    <3>3. m_id_generator' = m_id_generator + 1 /\ AllocID <= m_id_generator'
      BY <1>9, <2>1
    <3> QED BY <2>4, <3>1, <3>2, <3>3 DEF Given
  <2>6. Found'
    <3>1. \A x \in Tasks : m_id[x] # AllocID
      BY <1>2, <1>8, <1>9, <2>1 DEF Given
    <3> QED BY <1>2, <1>8, <2>1, <2>3, <2>4, <3>1, Typed DEF Found, FindTask
  <2>7. WaitingIds'
    <3>1. NewItem(t) \in ReadyInfo /\ NewItem(t).is_new
      BY DEF NewItem, ReadyInfo
    <3>2. \A i \in Pending' : \/ i \in Pending /\ m_ready_list'[i] = m_ready_list[i]
                              \/ m_ready_list'[i] = NewItem(t)
      BY <2>1, <3>1, PushedPending
    <3>3. \A i \in Pending : ~m_ready_list[i].is_new => m_ready_list[i].task_id \in TaskIDs
      <4>1. \A i \in Pending : m_ready_list[i] \in ReadyInfo
        BY Typed DEF Pending
      <4> QED BY <4>1, Items
    <3>4. \A n \in TaskIDs : n <= m_id_generator => n <= m_id_generator'
      BY <1>9, <2>1
    <3> QED BY <1>2, <3>1, <3>2, <3>3, <3>4 DEF WaitingIds
  <2>8. Lives'
    BY <1>2, <2>2, <2>3 DEF Lives
  <2> QED BY <2>5, <2>6, <2>7, <2>8
<1>15. ASSUME NEW id \in TaskIDs, ResumeTask(id) PROVE Found' /\ Given' /\ WaitingIds' /\ Lives'
  <2>1. UNCHANGED <<phase, m_id, m_id_generator, m_search_table>>
    BY <1>15 DEF ResumeTask, taskVars, tableVars
  <2>2. \A x \in Tasks : Stage(x)' = Stage(x)
    BY <1>15, StageIdle, Typed
  <2>3. CASE UNCHANGED <<m_ready_list, itr>>
    BY <2>1, <2>2, <2>3, <1>4, <1>5, <1>6, <1>7
  <2>4. CASE FindTask(id) # NULL /\ PushReady(ResumeItem(id))
    <3>1. ResumeItem(id) \in ReadyInfo /\ ResumeItem(id).task_id = id
      BY DEF ResumeItem, ReadyInfo
    <3>2. \A i \in Pending' : \/ i \in Pending /\ m_ready_list'[i] = m_ready_list[i]
                              \/ m_ready_list'[i] = ResumeItem(id)
      BY <2>4, <3>1, PushedPending DEF PushReady
    <3>3. id <= m_id_generator
      BY <2>4, LiveTasks
    <3>4. WaitingIds'
      BY <1>2, <2>1, <3>1, <3>2, <3>3 DEF WaitingIds
    <3> QED BY <2>1, <2>2, <3>4, <1>4, <1>7
  <2> QED BY <1>15, <2>3, <2>4 DEF ResumeTask, noticeVars
<1>16. CASE Suspend \/ Yield \/ \E id \in TaskIDs : Join(id)
  <2>1. UNCHANGED <<phase, m_id, m_id_generator, m_search_table, m_ready_list, itr>>
    BY <1>16 DEF Suspend, Yield, Join, tableVars, noticeVars
  <2>2. \A x \in Tasks : Stage(x)' = "ready" => Stage(x) = "ready"
    BY <1>16, Typed, SuspendStages
  <2> QED BY <2>1, <2>2, <1>4, <1>5, <1>6, <1>7
<1>17. CASE OnTaskFinished
  <2> DEFINE t == CurrentTask
             id == m_id[t]
             parent == m_join_table[id]
  <2>1. /\ itr = 0 /\ t \in Tasks /\ id \in TaskIDs
        /\ phase[t] = "live" /\ Stage(t) = "run"
        /\ phase' = [phase EXCEPT ![t] = "notify"]
        /\ m_search_table' = [m_search_table EXCEPT ![id] = NULL]
        /\ UNCHANGED <<coVars, m_id, m_co, m_id_generator, itr>>
        /\ \/ /\ parent \in TaskIDs /\ m_search_table'[parent] # NULL
              /\ m_ready_list' = Append(m_ready_list, ResumeItem(parent))
           \/ UNCHANGED m_ready_list
    BY <1>17, FinishTables
  <2>2. \A x \in Tasks : Stage(x)' = Stage(x)
    BY <1>17, StageIdle, Typed
  <2> HIDE DEF t, id, parent
  <2>3. \A x \in Tasks : phase'[x] = IF x = t THEN "notify" ELSE phase[x]
    BY <2>1, Typed
  <2>4. Found'
    <3>1. \A x \in Tasks : phase[x] = "live" /\ x # t => m_id[x] # id
      BY <1>2, <2>1 DEF Found, id
    <3> QED BY <1>2, <1>8, <2>1, <2>3, <3>1, Typed DEF Found, FindTask
  <2>5. Given'
    BY <1>2, <2>1 DEF Given
  <2>6. Lives'
    BY <1>2, <2>1, <2>2, <2>3 DEF Lives
  <2>7. CASE UNCHANGED m_ready_list
    BY <2>1, <2>4, <2>5, <2>6, <2>7, <1>5, <1>6
  <2>8. CASE /\ parent \in TaskIDs /\ m_search_table'[parent] # NULL
             /\ m_ready_list' = Append(m_ready_list, ResumeItem(parent))
    <3>1. ResumeItem(parent) \in ReadyInfo /\ ResumeItem(parent).task_id = parent
      BY <2>8 DEF ResumeItem, ReadyInfo
    <3>2. \A i \in Pending' : \/ i \in Pending /\ m_ready_list'[i] = m_ready_list[i]
                              \/ m_ready_list'[i] = ResumeItem(parent)
      BY <2>1, <2>8, <3>1, PushedPending
    <3>3. FindTask(parent) # NULL
      BY <2>1, <2>8, Typed DEF FindTask
    <3>4. parent <= m_id_generator
      BY <2>8, <3>3, LiveTasks
    <3>5. WaitingIds'
      BY <1>2, <2>1, <3>1, <3>2, <3>4 DEF WaitingIds
    <3> QED BY <2>4, <2>5, <2>6, <3>5
  <2> QED BY <2>1, <2>7, <2>8
<1>18. CASE ExecuteReturn
  <2>1. /\ phase[CurrentTask] = "notify" /\ phase' = [phase EXCEPT ![CurrentTask] = "free"]
        /\ m_id' = [m_id EXCEPT ![CurrentTask] = 0]
        /\ UNCHANGED <<m_id_generator, m_search_table, m_ready_list, itr>>
    BY <1>18 DEF ExecuteReturn, tableVars, noticeVars
  <2>2. /\ CurrentTask \in Tasks
        /\ \A x \in Tasks : Stage(x)' = IF x = CurrentTask THEN "none" ELSE Stage(x)
    BY <1>18, StageReturn, Typed
  <2>3. /\ \A x \in Tasks : phase'[x] = IF x = CurrentTask THEN "free" ELSE phase[x]
        /\ \A x \in Tasks : m_id'[x] = IF x = CurrentTask THEN 0 ELSE m_id[x]
    BY <2>1, Typed
  <2>4. Found'
    BY <1>2, <2>1, <2>3 DEF Found, FindTask
  <2>5. Given'
    BY <1>2, <1>9, <2>1, <2>3 DEF Given
  <2>6. Lives'
    BY <1>2, <2>2, <2>3 DEF Lives
  <2> QED BY <2>1, <2>4, <2>5, <2>6, <1>5, <1>6
<1>19. CASE OnNotice_new
  <2>1. /\ UNCHANGED <<phase, m_id, m_id_generator, m_search_table, m_ready_list>>
        /\ Pending' = Pending \ {itr} /\ itr \in Pending
    BY <1>19, NextItem, Typed DEF OnNotice_new
  <2>2. PICK t \in Tasks :
          /\ m_ready_list[itr] = NewItem(t)
          /\ \A x \in Tasks : IF x = t THEN Stage(x)' \in {"none", "ready"}
                                       ELSE Stage(x)' = Stage(x)
    BY <1>19, StageNew, Typed
  <2>3. phase[t] = "live"
    <3>1. NewItem(t).is_new /\ NewItem(t).task = t
      BY DEF NewItem
    <3>2. PendingWait
      BY Typed DEF IInv
    <3> QED BY <2>1, <2>2, <3>1, <3>2 DEF PendingWait
  <2>4. Lives'
    BY <1>2, <2>1, <2>2, <2>3 DEF Lives
  <2> QED BY <2>1, <2>4, <1>4, <1>5
<1>20. CASE OnNotice_resume
  <2>1. /\ UNCHANGED <<phase, m_id, m_id_generator, m_search_table, m_ready_list>>
        /\ Pending' = Pending \ {itr} /\ itr \in Pending
        /\ m_ready_list[itr] \in ReadyInfo /\ ~m_ready_list[itr].is_new
    BY <1>20, NextItem, AtItemTyped, Typed DEF OnNotice_resume
  <2> DEFINE id == m_ready_list[itr].task_id
             y == FindTask(id)
  <2>2. \A x \in Tasks : Stage(x)' = IF x = y /\ Stage(x) = "wait" THEN "ready" ELSE Stage(x)
    BY <1>20, StageResume, Typed
  <2>3. id \in TaskIDs
    BY <2>1, Items
  <2>4. y # NULL => phase[y] = "live"
    BY <2>3, LiveTasks
  <2> HIDE DEF id, y
  <2>5. Lives'
    BY <1>2, <1>8, <2>1, <2>2, <2>4 DEF Lives
  <2> QED BY <2>1, <2>5, <1>4, <1>5
<1>21. CASE RunTask
  <2>1. UNCHANGED <<phase, m_id, m_id_generator, m_search_table, m_ready_list, itr>>
    BY <1>21 DEF RunTask, tableVars, noticeVars
  <2>2. PICK y \in Tasks : \A x \in Tasks : Stage(x)' = IF x = y THEN "run" ELSE Stage(x)
    BY <1>21, StageRun, Typed
  <2> QED BY <2>1, <2>2, <1>4, <1>5, <1>6, <1>7
<1> QED BY <1>10, <1>11, <1>12, <1>13, <1>14, <1>15, <1>16, <1>17, <1>18, <1>19, <1>20, <1>21
        DEF Next

LEMMA KInvInit == Init => KInv
<1> SUFFICES ASSUME Init PROVE KInv
  OBVIOUS
<1>1. IdMod \in Nat \ {0, 1} /\ 0 <= 0
  BY TaskAssumption DEF TaskAssumption
<1> QED BY <1>1, InitJInv DEF Init, KInv, Pending, Stage

-----------------------------------------------------------------------------
(* The abstract actions, in the names of the mapping *)

LEMMA MapStutter ==
  ASSUME Live' = Live, Fresh' = Fresh, Asked' = Asked, Batch' = Batch,
         CurrentTask' = CurrentTask
  PROVE  UNCHANGED Batches!vars
  BY DEF Batches!vars, Live, Fresh, Asked, Batch, Wanted, ReadyTasks

LEMMA MapStart ==
  ASSUME Batch = {} \/ CurrentTask # NULL, NEW t \in Tasks, t \notin Live,
         Live' = Live \cup {t}, Fresh' = Fresh \cup {t}, Asked' = Asked \cup {t},
         Batch' = Batch, CurrentTask' = CurrentTask
  PROVE  Batches!Next
<1>1. Batches!Start(t)
  BY DEF Batches!Start, Batches!MayCall, Live, Fresh, Asked, Batch, Wanted, ReadyTasks
<1> QED BY <1>1 DEF Batches!Next

LEMMA MapResume ==
  ASSUME Batch = {} \/ CurrentTask # NULL, NEW t \in Tasks, t \in Live,
         Live' = Live, Fresh' = Fresh, Asked' = Asked \cup {t},
         Batch' = Batch, CurrentTask' = CurrentTask
  PROVE  Batches!Next
<1>1. Batches!Resume(t)
  BY DEF Batches!Resume, Batches!MayCall, Live, Fresh, Asked, Batch, Wanted, ReadyTasks
<1> QED BY <1>1 DEF Batches!Next

LEMMA MapBegin ==
  ASSUME Batch = {}, CurrentTask = NULL, Live' = Live, Fresh' = Fresh, Asked' = {},
         Batch' = Asked, CurrentTask' = NULL
  PROVE  Batches!Next
<1>1. Batches!Begin
  BY DEF Batches!Begin, Live, Fresh, Asked, Batch, Wanted, ReadyTasks
<1> QED BY <1>1 DEF Batches!Next

LEMMA MapCreate ==
  ASSUME NEW t \in Tasks, t \in Batch \cap Fresh, CurrentTask = NULL, Live' = Live,
         Fresh' = Fresh \ {t}, Asked' = Asked, Batch' = Batch, CurrentTask' = NULL
  PROVE  Batches!Next
<1>1. Batches!Create(t)
  BY DEF Batches!Create, Live, Fresh, Asked, Batch, Wanted, ReadyTasks
<1> QED BY <1>1 DEF Batches!Next

LEMMA MapFail ==
  ASSUME MayFail, NEW t \in Tasks, t \in Batch \cap Fresh, CurrentTask = NULL,
         Live' = Live \ {t}, Fresh' = Fresh \ {t}, Asked' = Asked, Batch' = Batch \ {t},
         CurrentTask' = NULL
  PROVE  Batches!Next
<1>1. Batches!Fail(t)
  BY DEF Batches!Fail, MayFail, Live, Fresh, Asked, Batch, Wanted, ReadyTasks
<1> QED BY <1>1 DEF Batches!Next

LEMMA MapRun ==
  ASSUME NEW t \in Tasks, t \in (Batch \cap Live) \ Fresh, CurrentTask = NULL, Live' = Live,
         Fresh' = Fresh, Asked' = Asked, Batch' = Batch \ {t}, CurrentTask' = t
  PROVE  Batches!Next
<1>1. Batches!Run(t)
  BY DEF Batches!Run, Live, Fresh, Asked, Batch, Wanted, ReadyTasks
<1> QED BY <1>1 DEF Batches!Next

LEMMA MapSuspend ==
  ASSUME CurrentTask # NULL, Live' = Live, Fresh' = Fresh, Asked' = Asked, Batch' = Batch,
         CurrentTask' = NULL
  PROVE  Batches!Next
<1>1. Batches!Suspend
  BY DEF Batches!Suspend, Live, Fresh, Asked, Batch, Wanted, ReadyTasks
<1> QED BY <1>1 DEF Batches!Next

LEMMA MapFinish ==
  ASSUME CurrentTask \in Live, NEW parents,
         parents = {} \/ \E t \in Live \ {CurrentTask} : parents = {t},
         Live' = Live \ {CurrentTask}, Fresh' = Fresh,
         Asked' = (Asked \ {CurrentTask}) \cup parents,
         Batch' = Batch, CurrentTask' = CurrentTask
  PROVE  Batches!Next
<1>1. Batches!Finish(parents)
  BY DEF Batches!Finish, Live, Fresh, Asked, Batch, Wanted, ReadyTasks
<1>2. parents \in {{}} \cup {{t} : t \in {u \in Tasks : Alive(u)} \ {CurrentTask}}
  BY DEF Live
<1> QED BY <1>1, <1>2 DEF Batches!Next

-----------------------------------------------------------------------------
(* Every step maps to an abstract step, or to a stutter *)

\* An action that changes neither the tables nor which tasks have coroutines.
LEMMA TablesAlone ==
  ASSUME KInv, KInv', UNCHANGED <<phase, m_search_table, m_ready_list, itr>>,
         \A t \in Tasks : Stage(t)' = "none" <=> Stage(t) = "none"
  PROVE  /\ Live' = Live /\ Fresh' = Fresh /\ Wanted' = Wanted /\ Asked' = Asked
         /\ ReadyTasks' = ReadyTasks => Batch' = Batch
<1>1. Abstraction /\ Abstraction'
  BY Abstracts, AbstractsNext
<1>2. Fresh' = Fresh
  BY <1>1 DEF Abstraction
<1>3. Live' = Live
  BY <1>1, <1>2 DEF Abstraction
<1>4. Wanted' = Wanted
  BY <1>1, <1>3 DEF Abstraction
<1> QED BY <1>2, <1>3, <1>4 DEF Asked, Batch

LEMMA SameReady ==
  ASSUME KInv, KInv', \A t \in Tasks : Stage(t)' = "ready" <=> Stage(t) = "ready"
  PROVE  ReadyTasks' = ReadyTasks
<1>1. Abstraction /\ Abstraction'
  BY Abstracts, AbstractsNext
<1> QED BY <1>1 DEF Abstraction

\* Between the notices, the code that calls is main's, with an empty batch, or
\* that of a task.
LEMMA Caller ==
  ASSUME KInv, Calling
  PROVE  Batch = {} \/ CurrentTask # NULL
<1>1. itr = 0 /\ (updating = "user" \/ co_curr # Main)
  BY DEF Calling, Co!UserCode
<1>2. CASE updating = "user"
  BY <1>1, <1>2, NoticeByMain DEF Batch
<1>3. CASE co_curr # Main
  BY <1>3, Current, Typed DEF InTask
<1> QED BY <1>1, <1>2, <1>3

\* A task that is still to be started is one of the targets.
LEMMA FreshWanted == KInv => Fresh \subseteq Wanted
<1> SUFFICES ASSUME KInv, NEW t \in Fresh PROVE t \in Wanted
  OBVIOUS
<1>1. Abstraction
  BY Abstracts
<1>2. t \in Tasks /\ t # NULL /\ t \in Live
  BY <1>1, Typed DEF Abstraction, Fresh
<1>3. PICK i \in {k \in DOMAIN m_ready_list : k >= itr} : m_ready_list[i] = NewItem(t)
  BY <1>1 DEF Abstraction, Starts
<1>4. To(m_search_table, m_ready_list[i]) = t
  BY <1>3 DEF To, NewItem
<1> QED BY <1>1, <1>2, <1>3, <1>4 DEF Abstraction, Targets

LEMMA FreshWantedNext == KInv' => (Fresh \subseteq Wanted)'
  BY FreshWanted, PTL

\* What passing an element of m_ready_list leaves alone.
LEMMA ItemPassed ==
  ASSUME KInv, KInv', NEW b \in BOOLEAN, AtItem(b), updating' = updating
  PROVE  LET y == To(m_search_table, m_ready_list[itr]) IN
           /\ UNCHANGED <<phase, m_search_table, m_ready_list>>
           /\ itr' = itr + 1 /\ itr \in 1 .. Len(m_ready_list) /\ itr \in Pending
           /\ m_ready_list[itr] \in ReadyInfo /\ m_ready_list[itr].is_new = b
           /\ Fresh = Fresh' \cup {t \in Tasks : m_ready_list[itr] = NewItem(t)}
           /\ Targets(m_search_table, m_ready_list, itr)
                = Targets(m_search_table', m_ready_list', itr') \cup ({y} \ {NULL})
           /\ CurrentTask = NULL /\ CurrentTask' = NULL
           /\ Asked = {} /\ Asked' = {}
           /\ Batch = ReadyTasks \cup Wanted /\ Batch' = ReadyTasks' \cup Wanted'
<1>1. Abstraction /\ Abstraction'
  BY Abstracts, AbstractsNext
<1>2. /\ UNCHANGED <<phase, m_search_table, m_ready_list>>
      /\ itr' = itr + 1 /\ itr \in 1 .. Len(m_ready_list) /\ itr # 0 /\ itr' # 0
      /\ itr \in Pending /\ m_ready_list[itr] \in ReadyInfo /\ m_ready_list[itr].is_new = b
  BY AtItemTyped, Typed DEF AtItem, tableVars
<1>3. Starts(m_ready_list, itr)
        = Starts(m_ready_list, itr + 1) \cup {t \in Tasks : m_ready_list[itr] = NewItem(t)}
  BY <1>2, StartsPassed, Typed
<1>4. Targets(m_search_table, m_ready_list, itr)
        = Targets(m_search_table, m_ready_list, itr + 1)
            \cup ({To(m_search_table, m_ready_list[itr])} \ {NULL})
  BY <1>2, TargetsPassed, Typed
<1>5. updating = "user" /\ CurrentTask = NULL
  BY <1>2, NoticeByMain
<1>6. CurrentTask' = NULL
  BY <1>1, <1>5 DEF Abstraction
<1>7. Asked = {} /\ Asked' = {} /\ Batch = ReadyTasks \cup Wanted
      /\ Batch' = ReadyTasks' \cup Wanted'
  BY <1>2 DEF Asked, Batch
<1>8. Fresh = Fresh' \cup {t \in Tasks : m_ready_list[itr] = NewItem(t)}
  BY <1>1, <1>2, <1>3 DEF Abstraction
<1>9. Targets(m_search_table', m_ready_list', itr') = Targets(m_search_table, m_ready_list, itr + 1)
  BY <1>2
<1> QED BY <1>2, <1>4, <1>5, <1>6, <1>7, <1>8, <1>9

\* CTask::Init gets no coroutine only where co_create can fail.
LEMMA NewFails ==
  ASSUME IInv, OnNotice_new, NEW t, t = m_ready_list[itr].task, Stage(t)' = "none"
  PROVE  MayFail
<1>1. /\ Co!TypeOK /\ m_co \in [Tasks -> Coroutines \cup {NULL}] /\ NULL \notin Coroutines
      /\ t \in Tasks
  BY StageNew, SchedulerAssumption DEF IInv, TypeOK, SchedulerAssumption, Co!TaurusAssumption
<1>2. PICK c \in Coroutines \cup {NULL} :
        Co!co_create(t, StackSize, c) /\ m_co' = [m_co EXCEPT ![t] = c]
  BY DEF OnNotice_new, InitTask
<1>3. c = NULL
  <2> SUFFICES ASSUME c # NULL PROVE FALSE
    OBVIOUS
  <2>1. m_co'[t] = c /\ status'[c] = "ready"
    BY <1>1, <1>2 DEF Co!co_create, Co!TypeOK
  <2> QED BY <2>1 DEF Stage
<1>4. co_cache_list # <<>> => Head(co_cache_list) \in Coroutines
  BY <1>1 DEF Co!TypeOK
<1>5. Co!create_coroutine(c, StackSize)
  BY <1>1, <1>2, <1>3, <1>4 DEF Co!co_create, Co!FromCache
<1> QED BY <1>1, <1>3, <1>5 DEF Co!create_coroutine, Co!malloc_coroutine, MayFail

LEMMA MapNew ==
  ASSUME KInv, KInv', OnNotice_new
  PROVE  Batches!Next
<1>1. Abstraction /\ Abstraction'
  BY Abstracts, AbstractsNext
<1>2. PICK t : /\ t = m_ready_list[itr].task
               /\ t \in Tasks /\ m_ready_list[itr] = NewItem(t) /\ Stage(t) = "none"
               /\ \A x \in Tasks : IF x = t THEN Stage(x)' \in {"none", "ready"}
                                            ELSE Stage(x)' = Stage(x)
  BY StageNew, Typed
<1>3. Stage(t)' = "none" => MayFail
  BY <1>2, NewFails, Typed
<1>4. /\ UNCHANGED <<phase, m_search_table, m_ready_list>>
      /\ itr' = itr + 1 /\ itr \in Pending /\ m_ready_list[itr].is_new
      /\ Fresh = Fresh' \cup {x \in Tasks : m_ready_list[itr] = NewItem(x)}
      /\ Targets(m_search_table, m_ready_list, itr)
           = Targets(m_search_table', m_ready_list', itr')
               \cup ({To(m_search_table, m_ready_list[itr])} \ {NULL})
      /\ CurrentTask = NULL /\ CurrentTask' = NULL
      /\ Asked = {} /\ Asked' = {}
      /\ Batch = ReadyTasks \cup Wanted /\ Batch' = ReadyTasks' \cup Wanted'
  <2>1. AtItem(TRUE) /\ updating' = updating
    BY DEF OnNotice_new, InitTask, Co!co_create
  <2> QED BY <2>1, ItemPassed
<1>5. To(m_search_table, m_ready_list[itr]) = t /\ t # NULL
  BY <1>2, Typed DEF To, NewItem
<1>6. {x \in Tasks : m_ready_list[itr] = NewItem(x)} = {t}
  <2>1. \A x : NewItem(x).task = x
    BY DEF NewItem
  <2>2. \A x \in Tasks : m_ready_list[itr] = NewItem(x) <=> x = t
    BY <1>2, <2>1
  <2> QED BY <1>2, <2>2
<1>7. t \notin Fresh'
  <2>1. \A j \in Pending \ {itr} : m_ready_list[j] # NewItem(t)
    BY <1>2, <1>4, Typed DEF IInv, PendingWait, NewItem
  <2>2. \A i \in {k \in DOMAIN m_ready_list : k >= itr + 1} : i \in Pending \ {itr}
    BY <1>4, Typed DEF Pending
  <2> QED BY <1>1, <1>4, <2>1, <2>2 DEF Abstraction, Starts
<1>8. t \in Fresh /\ Fresh' = Fresh \ {t}
  BY <1>4, <1>6, <1>7
<1>9. t \in Live /\ t \in Batch /\ t \notin ReadyTasks
  <2>1. t \in Live /\ t \notin ReadyTasks
    BY <1>1, <1>2, <1>8 DEF Abstraction
  <2>2. t \in Wanted
    BY <1>8, FreshWanted
  <2> QED BY <1>4, <2>1, <2>2
<1>10. CASE Stage(t)' = "ready"
  <2>1. Live' = Live
    BY <1>1, <1>2, <1>4, <1>8, <1>9, <1>10 DEF Abstraction
  <2>2. Wanted = Wanted' \cup {t}
    BY <1>1, <1>4, <1>5, <1>9, <2>1 DEF Abstraction
  <2>3. ReadyTasks' = ReadyTasks \cup {t}
    BY <1>1, <1>2, <1>10 DEF Abstraction
  <2>4. Batch' = Batch
    BY <1>4, <2>2, <2>3
  <2> QED BY <1>2, <1>4, <1>8, <1>9, <2>1, <2>4, MapCreate
<1>11. CASE Stage(t)' = "none"
  <2>1. Live' = Live \ {t}
    BY <1>1, <1>2, <1>4, <1>8, <1>11 DEF Abstraction
  <2>2. Wanted' = Wanted \ {t}
    BY <1>1, <1>4, <1>5, <2>1 DEF Abstraction
  <2>3. ReadyTasks' = ReadyTasks
    BY <1>1, <1>2, <1>11 DEF Abstraction
  <2>4. Batch' = Batch \ {t}
    BY <1>4, <1>9, <2>2, <2>3
  <2> QED BY <1>2, <1>3, <1>4, <1>8, <1>9, <1>11, <2>1, <2>4, MapFail
<1> QED BY <1>2, <1>10, <1>11

\* In OnNotice no task's coroutine is the running one.
LEMMA NoneRuns ==
  ASSUME KInv, co_curr = Main, NEW t \in Tasks
  PROVE  Stage(t) # "run"
<1> SUFFICES ASSUME Stage(t) = "run" PROVE FALSE
  OBVIOUS
<1>1. m_co[t] \in Coroutines /\ status[m_co[t]] = "run"
  BY Typed DEF Stage
<1>2. m_co[t] \in {co_curr} \ {Main, NULL}
  BY <1>1, Typed DEF Co!CoroutineInOnePlace, Co!WithStatus
<1> QED BY <1>2

LEMMA MapItemResume ==
  ASSUME KInv, KInv', OnNotice_resume
  PROVE  UNCHANGED Batches!vars
<1>1. Abstraction /\ Abstraction'
  BY Abstracts, AbstractsNext
<1>2. PICK y : /\ y = FindTask(m_ready_list[itr].task_id)
               /\ \A x \in Tasks :
                    Stage(x)' = IF x = y /\ Stage(x) = "wait" THEN "ready" ELSE Stage(x)
  BY StageResume, Typed
<1>3. /\ UNCHANGED <<phase, m_search_table, m_ready_list>>
      /\ itr' = itr + 1 /\ itr \in Pending /\ itr # 0
      /\ m_ready_list[itr] \in ReadyInfo /\ ~m_ready_list[itr].is_new
      /\ Fresh = Fresh' \cup {x \in Tasks : m_ready_list[itr] = NewItem(x)}
      /\ Targets(m_search_table, m_ready_list, itr)
           = Targets(m_search_table', m_ready_list', itr')
               \cup ({To(m_search_table, m_ready_list[itr])} \ {NULL})
      /\ CurrentTask = NULL /\ CurrentTask' = NULL
      /\ Asked = {} /\ Asked' = {}
      /\ Batch = ReadyTasks \cup Wanted /\ Batch' = ReadyTasks' \cup Wanted'
  <2>1. AtItem(FALSE) /\ updating' = updating
    BY DEF OnNotice_resume, Resume, Co!co_resume, coVars
  <2>2. m_ready_list[itr].is_new = FALSE /\ itr # 0
    BY <2>1, AtItemTyped, Typed
  <2> QED BY <2>1, <2>2, ItemPassed
<1>4. To(m_search_table, m_ready_list[itr]) = y
  BY <1>2, <1>3 DEF To, FindTask
<1>5. Fresh' = Fresh
  <2>1. \A x \in Tasks : m_ready_list[itr] # NewItem(x)
    BY <1>3, Items
  <2> QED BY <1>3, <2>1
<1>6. m_ready_list[itr].task_id \in TaskIDs
  BY <1>3, Items
<1>7. y # NULL => y \in Tasks /\ phase[y] = "live"
  BY <1>2, <1>6, LiveTasks
<1>8. co_curr = Main
  BY <1>3, NoticeByMain
<1>9. Live' = Live
  BY <1>1, <1>2, <1>3, <1>5 DEF Abstraction
<1>10. Wanted = Wanted' \cup (({y} \ {NULL}) \cap Live)
  BY <1>1, <1>3, <1>4, <1>9 DEF Abstraction
<1>11. CASE y \notin Live
  <2>1. \A x \in Tasks : Stage(x)' = Stage(x)
    BY <1>1, <1>2, <1>7, <1>11, Typed DEF Abstraction
  <2>2. ReadyTasks' = ReadyTasks
    BY <2>1, SameReady
  <2>3. Batch' = Batch
    BY <1>3, <1>10, <1>11, <2>2
  <2> QED BY <1>3, <1>5, <1>9, <2>3, MapStutter
<1>12. CASE y \in Live
  <2>1. y \in Tasks /\ (Stage(y) # "none" \/ y \in Fresh)
    BY <1>1, <1>12 DEF Abstraction
  <2>2. ReadyTasks' \subseteq ReadyTasks \cup {y} /\ ReadyTasks \subseteq ReadyTasks'
    BY <1>1, <1>2 DEF Abstraction
  <2>3. y \in ReadyTasks' \cup Wanted'
    <3>1. CASE y \in Fresh
      BY <1>5, <3>1, FreshWantedNext
    <3>2. CASE Stage(y) # "none"
      <4>1. Stage(y) \in {"wait", "ready"}
        BY <1>8, <2>1, <3>2, Owned, NoneRuns, Typed DEF Stage, InUse
      <4>2. Stage(y)' = "ready"
        BY <1>2, <2>1, <4>1
      <4> QED BY <1>1, <2>1, <4>2 DEF Abstraction
    <3> QED BY <2>1, <3>1, <3>2
  <2>4. y # NULL
    BY <2>1, Typed
  <2>5. Batch' = Batch
    BY <1>3, <1>10, <1>12, <2>2, <2>3, <2>4
  <2> QED BY <1>3, <1>5, <1>9, <2>5, MapStutter
<1> QED BY <1>11, <1>12

LEMMA MapStartTask ==
  ASSUME KInv, KInv', ~IdsWrap, NEW t \in Tasks, StartTask(t)
  PROVE  Batches!Next
<1>1. Abstraction /\ Abstraction'
  BY Abstracts, AbstractsNext
<1>2. /\ itr = 0 /\ phase[t] = "free" /\ phase' = [phase EXCEPT ![t] = "live"]
      /\ AllocID = m_id_generator + 1 /\ AllocID \in TaskIDs
      /\ m_search_table' = [m_search_table EXCEPT ![AllocID] = t]
      /\ m_ready_list' = Append(m_ready_list, NewItem(t)) /\ itr' = itr
  BY StartTables
<1>3. UNCHANGED <<data, co_curr>> /\ Calling
  BY DEF StartTask, coVars
<1>4. ReadyTasks' = ReadyTasks /\ \A x \in Tasks : Stage(x)' = Stage(x)
  BY StageIdle, SameReady, Typed
<1>5. Fresh' = Fresh \cup {t}
  <2>1. NewItem(t) \in ReadyInfo /\ {x \in Tasks : NewItem(t) = NewItem(x)} = {t}
    BY DEF NewItem, ReadyInfo
  <2>2. Starts(m_ready_list', 0) = Starts(m_ready_list, 0) \cup {t}
    BY <1>2, <2>1, StartsPushed, Typed
  <2> QED BY <1>1, <1>2, <2>2 DEF Abstraction
<1>11. t \notin Live /\ Live' = Live \cup {t}
  BY <1>1, <1>2, <1>4, <1>5, Typed DEF Abstraction
<1>6. NewItem(t) \in ReadyInfo /\ To(m_search_table', NewItem(t)) = t /\ t # NULL
  BY Typed DEF NewItem, ReadyInfo, To
<1>7. Targets(m_search_table', m_ready_list', 0) = Targets(m_search_table', m_ready_list, 0) \cup {t}
  BY <1>2, <1>6, TargetsPushed, Typed
<1>8. Targets(m_search_table', m_ready_list, 0) = Targets(m_search_table, m_ready_list, 0)
  <2>1. ASSUME NEW i \in DOMAIN m_ready_list
        PROVE  To(m_search_table', m_ready_list[i]) = To(m_search_table, m_ready_list[i])
    <3>1. m_ready_list[i] \in ReadyInfo /\ i \in Pending
      BY <1>2, Typed DEF Pending
    <3>2. CASE m_ready_list[i].is_new
      BY <3>2 DEF To
    <3>3. CASE ~m_ready_list[i].is_new
      <4>1. m_ready_list[i].task_id <= m_id_generator /\ m_ready_list[i].task_id \in TaskIDs
        BY <3>1, <3>3, Items DEF KInv
      <4>2. m_ready_list[i].task_id # AllocID
        BY <1>2, <4>1, Typed, TaskAssumption DEF TaskIDs, TaskAssumption
      <4> QED BY <1>2, <3>3, <4>1, <4>2, Typed DEF To
    <3> QED BY <3>2, <3>3
  <2>2. {k \in DOMAIN m_ready_list : k >= 0} \subseteq DOMAIN m_ready_list
    OBVIOUS
  <2> QED BY <2>1, <2>2 DEF Targets
<1>9. Asked' = Asked \cup {t}
  BY <1>1, <1>2, <1>7, <1>8, <1>11 DEF Abstraction, Asked
<1>10. Batch' = Batch /\ CurrentTask' = CurrentTask
  BY <1>1, <1>2, <1>3, <1>4 DEF Abstraction, Batch
<1> QED BY <1>3, <1>5, <1>9, <1>10, <1>11, Caller, MapStart

LEMMA MapResumeTask ==
  ASSUME KInv, KInv', NEW id \in TaskIDs, ResumeTask(id)
  PROVE  [Batches!Next]_Batches!vars
<1>1. Abstraction /\ Abstraction'
  BY Abstracts, AbstractsNext
<1>2. /\ UNCHANGED <<phase, m_search_table, data, co_curr>> /\ Calling /\ itr = 0
      /\ IF FindTask(id) # NULL THEN PushReady(ResumeItem(id)) ELSE UNCHANGED <<m_ready_list, itr>>
  BY DEF ResumeTask, Calling, coVars, taskVars, tableVars, noticeVars
<1>3. ReadyTasks' = ReadyTasks /\ \A x \in Tasks : Stage(x)' = Stage(x)
  BY StageIdle, SameReady, Typed
<1>4. CurrentTask' = CurrentTask
  BY <1>1, <1>2 DEF Abstraction
<1>5. CASE FindTask(id) = NULL
  BY <1>2, <1>3, <1>4, <1>5, TablesAlone, MapStutter
<1>6. CASE FindTask(id) # NULL
  <2>1. FindTask(id) \in Tasks
    BY <1>6, LiveTasks
  <2>2. m_ready_list' = Append(m_ready_list, ResumeItem(id)) /\ itr' = itr
    BY <1>2, <1>6 DEF PushReady
  <2>3. ResumeItem(id) \in ReadyInfo /\ To(m_search_table, ResumeItem(id)) = FindTask(id)
    BY DEF ResumeItem, ReadyInfo, To, FindTask
  <2>4. Targets(m_search_table, m_ready_list', 0)
          = Targets(m_search_table, m_ready_list, 0) \cup {FindTask(id)}
    BY <1>6, <2>2, <2>3, TargetsPushed, Typed
  <2>5. Starts(m_ready_list', 0) = Starts(m_ready_list, 0)
    BY <2>2, ResumeStartsNone, Typed
  <2>6. Fresh' = Fresh
    BY <1>1, <1>2, <2>2, <2>5 DEF Abstraction
  <2>7. Live' = Live
    BY <1>1, <1>2, <1>3, <2>6 DEF Abstraction
  <2>8. Asked' = Asked \cup ({FindTask(id)} \cap Live) /\ Batch' = Batch
    BY <1>1, <1>2, <1>3, <2>2, <2>4, <2>7 DEF Abstraction, Asked, Batch
  <2>9. CASE FindTask(id) \in Live
    BY <1>2, <1>4, <2>1, <2>6, <2>7, <2>8, <2>9, Caller, MapResume
  <2>10. CASE FindTask(id) \notin Live
    BY <1>4, <2>6, <2>7, <2>8, <2>10, MapStutter
  <2> QED BY <2>9, <2>10
<1> QED BY <1>5, <1>6

LEMMA MapSuspends ==
  ASSUME KInv, KInv', Suspend \/ Yield \/ \E id \in TaskIDs : Join(id)
  PROVE  [Batches!Next]_Batches!vars
<1>1. Abstraction /\ Abstraction'
  BY Abstracts, AbstractsNext
<1>2. UNCHANGED <<phase, m_search_table, m_ready_list, itr>>
  BY DEF Suspend, Yield, Join, tableVars, noticeVars
<1>3. /\ CurrentTask \in Tasks /\ CurrentTask # NULL
      /\ \A x \in Tasks : Stage(x)' = "ready" <=> Stage(x) = "ready"
      /\ \A x \in Tasks : Stage(x)' = "none" <=> Stage(x) = "none"
      /\ UNCHANGED coVars \/ co_curr' = Main
  BY SuspendStages, Typed
<1>4. Live' = Live /\ Fresh' = Fresh /\ Asked' = Asked /\ Batch' = Batch
  BY <1>2, <1>3, SameReady, TablesAlone
<1>5. CurrentTask' = CurrentTask \/ CurrentTask' = NULL
  BY <1>1, <1>3 DEF Abstraction, coVars
<1> QED BY <1>3, <1>4, <1>5, MapStutter, MapSuspend

LEMMA MapFinished ==
  ASSUME KInv, KInv', OnTaskFinished
  PROVE  Batches!Next
<1> DEFINE t == CurrentTask
           id == m_id[t]
           parent == m_join_table[id]
           found == m_search_table'[parent]
<1>1. Abstraction /\ Abstraction'
  BY Abstracts, AbstractsNext
<1>2. /\ itr = 0 /\ t \in Tasks /\ id \in TaskIDs
      /\ phase[t] = "live" /\ Stage(t) = "run"
      /\ phase' = [phase EXCEPT ![t] = "notify"]
      /\ m_search_table' = [m_search_table EXCEPT ![id] = NULL]
      /\ UNCHANGED <<coVars, m_id, m_co, m_id_generator, itr>>
      /\ \/ /\ parent \in TaskIDs /\ found # NULL
            /\ m_ready_list' = Append(m_ready_list, ResumeItem(parent))
         \/ UNCHANGED m_ready_list
  BY FinishTables
<1>3. ReadyTasks' = ReadyTasks /\ \A x \in Tasks : Stage(x)' = Stage(x)
  BY StageIdle, SameReady, Typed
<1>4. CurrentTask' = t
  BY <1>1, <1>2 DEF Abstraction, coVars
<1>10. Fresh' = Fresh
  <2>1. Starts(m_ready_list', 0) = Starts(m_ready_list, 0)
    BY <1>2, ResumeStartsNone, Typed
  <2> QED BY <1>1, <1>2, <2>1 DEF Abstraction
<1>5. t \in Live /\ Live' = Live \ {t}
  BY <1>1, <1>2, <1>3, <1>10, Typed DEF Abstraction
<1>6. m_id[t] = id
  OBVIOUS
<1> HIDE DEF t, id, parent
<1>7. Targets(m_search_table', m_ready_list, 0) = Targets(m_search_table, m_ready_list, 0) \ {t}
  <2>1. ASSUME NEW i \in DOMAIN m_ready_list
        PROVE  To(m_search_table', m_ready_list[i])
                 = IF To(m_search_table, m_ready_list[i]) = t
                     THEN NULL ELSE To(m_search_table, m_ready_list[i])
    <3>1. m_ready_list[i] \in ReadyInfo /\ i \in Pending
      BY <1>2, Typed DEF Pending
    <3>2. CASE m_ready_list[i].is_new
      <4>1. m_co[m_ready_list[i].task] = NULL
        BY <3>1, <3>2, Typed DEF IInv, PendingWait
      <4>2. m_ready_list[i].task # t
        BY <1>2, <4>1 DEF Stage
      <4> QED BY <3>2, <4>2 DEF To
    <3>3. CASE ~m_ready_list[i].is_new
      <4>1. m_ready_list[i].task_id \in TaskIDs
        BY <3>1, <3>3, Items
      <4>2. FindTask(id) = t
        BY <1>2, <1>6 DEF KInv
      <4>3. FindTask(m_ready_list[i].task_id) = t => m_ready_list[i].task_id = id
        BY <1>2, <1>6, <4>1, LiveTasks, Typed
      <4> QED BY <1>2, <3>3, <4>1, <4>2, <4>3, Typed DEF To, FindTask
    <3> QED BY <3>2, <3>3
  <2>2. {k \in DOMAIN m_ready_list : k >= 0} = DOMAIN m_ready_list
    <3>1. DOMAIN m_ready_list = 1 .. Len(m_ready_list) /\ Len(m_ready_list) \in Nat
      BY Typed
    <3> QED BY <3>1
  <2> QED BY <2>1, <2>2 DEF Targets
<1>8. CASE UNCHANGED m_ready_list
  <2>1. Asked' = (Asked \ {t}) \cup {} /\ Batch' = Batch
    BY <1>1, <1>2, <1>3, <1>5, <1>7, <1>8 DEF Abstraction, Asked, Batch
  <2> QED BY <1>4, <1>5, <1>10, <2>1, MapFinish DEF t
<1>9. CASE /\ parent \in TaskIDs /\ found # NULL
           /\ m_ready_list' = Append(m_ready_list, ResumeItem(parent))
  <2>1. ResumeItem(parent) \in ReadyInfo /\ To(m_search_table', ResumeItem(parent)) = found
    BY <1>9 DEF ResumeItem, ReadyInfo, To
  <2>2. found # t
    <3>1. parent # id /\ found = FindTask(parent)
      BY <1>2, <1>9, Typed DEF FindTask
    <3>2. m_id[found] = parent
      BY <1>9, <3>1, LiveTasks
    <3> QED BY <1>6, <3>1, <3>2
  <2>3. Targets(m_search_table', m_ready_list', 0)
          = Targets(m_search_table', m_ready_list, 0) \cup {found}
    BY <1>9, <2>1, TargetsPushed, Typed
  <2> HIDE DEF found
  <2>4. Asked' = (Asked \ {t}) \cup ({found} \cap Live) /\ Batch' = Batch
    BY <1>1, <1>2, <1>3, <1>5, <1>7, <2>2, <2>3 DEF Abstraction, Asked, Batch
  <2>5. {found} \cap Live = {} \/ \E x \in Live \ {t} : {found} \cap Live = {x}
    BY <2>2
  <2> QED BY <1>4, <1>5, <1>10, <2>4, <2>5, MapFinish DEF t
<1> QED BY <1>2, <1>8, <1>9

LEMMA MapReturn ==
  ASSUME KInv, KInv', ExecuteReturn
  PROVE  Batches!Next
<1>1. Abstraction /\ Abstraction'
  BY Abstracts, AbstractsNext
<1>2. /\ phase[CurrentTask] = "notify" /\ phase' = [phase EXCEPT ![CurrentTask] = "free"]
      /\ UNCHANGED <<m_search_table, m_ready_list, itr, data>> /\ co_curr' = Main
  BY DEF ExecuteReturn, tableVars, noticeVars, Co!FiberFunc_return
<1>3. /\ CurrentTask \in Tasks /\ CurrentTask # NULL /\ Stage(CurrentTask) = "run"
      /\ \A x \in Tasks : Stage(x)' = IF x = CurrentTask THEN "none" ELSE Stage(x)
  BY StageReturn, Typed
<1>4. ReadyTasks' = ReadyTasks
  BY <1>3, SameReady
<1>5. Fresh' = Fresh
  BY <1>1, <1>2 DEF Abstraction
<1>6. Live' = Live
  BY <1>1, <1>2, <1>3, <1>5, Typed DEF Abstraction
<1>7. Asked' = Asked /\ Batch' = Batch /\ CurrentTask' = NULL
  BY <1>1, <1>2, <1>4, <1>6 DEF Abstraction, Asked, Batch
<1> QED BY <1>3, <1>5, <1>6, <1>7, MapSuspend

LEMMA MapNoticeBegin ==
  ASSUME KInv, KInv', OnNotice_begin
  PROVE  Batches!Next
<1>1. Abstraction /\ Abstraction'
  BY Abstracts, AbstractsNext
<1>2. /\ UNCHANGED <<phase, m_search_table, m_ready_list, data, co_curr>>
      /\ updating = "user" /\ itr = 0 /\ itr' = 1
  BY DEF OnNotice_begin, coVars, taskVars, tableVars
<1>3. ReadyTasks' = ReadyTasks /\ \A x \in Tasks : Stage(x)' = Stage(x)
  BY StageIdle, SameReady, Typed
<1>4. ReadyTasks = {} /\ CurrentTask = NULL
  BY <1>2, NoticeByMain
<1>5. Fresh' = Fresh
  BY <1>1, <1>2, StartsEnds, Typed DEF Abstraction
<1>6. Live' = Live /\ CurrentTask' = NULL
  BY <1>1, <1>2, <1>3, <1>4, <1>5 DEF Abstraction
<1>7. Wanted' = Wanted
  BY <1>1, <1>2, <1>6, TargetsEnds, Typed DEF Abstraction
<1>8. Batch = {} /\ Asked' = {} /\ Batch' = Asked
  BY <1>2, <1>3, <1>4, <1>7 DEF Asked, Batch
<1> QED BY <1>4, <1>5, <1>6, <1>8, MapBegin

LEMMA MapNoticeUpdate ==
  ASSUME KInv, KInv', OnNotice_update
  PROVE  UNCHANGED Batches!vars
<1>1. Abstraction /\ Abstraction'
  BY Abstracts, AbstractsNext
<1>2. /\ UNCHANGED <<phase, m_search_table, data, co_curr>>
      /\ m_ready_list' = <<>> /\ itr' = 0 /\ itr > Len(m_ready_list)
  BY DEF OnNotice_update, taskVars, tableVars, Co!co_update_begin
<1>3. ReadyTasks' = ReadyTasks /\ \A x \in Tasks : Stage(x)' = Stage(x)
  BY StageIdle, SameReady, Typed
<1>4. Fresh = {} /\ Fresh' = {}
  BY <1>1, <1>2, StartsEnds, Typed DEF Abstraction
<1>5. Wanted = {} /\ Wanted' = {}
  BY <1>1, <1>2, TargetsEnds, Typed DEF Abstraction
<1>6. itr # 0
  BY <1>2, Typed
<1>7. Live' = Live /\ CurrentTask' = CurrentTask
  BY <1>1, <1>2, <1>3, <1>4 DEF Abstraction
<1>8. Asked' = Asked /\ Batch' = Batch
  BY <1>2, <1>3, <1>5, <1>6 DEF Asked, Batch
<1> QED BY <1>4, <1>7, <1>8, MapStutter

LEMMA MapRunTask ==
  ASSUME KInv, KInv', RunTask
  PROVE  Batches!Next
<1>1. Abstraction /\ Abstraction'
  BY Abstracts, AbstractsNext
<1>2. /\ UNCHANGED <<phase, m_search_table, m_ready_list, itr, data>>
      /\ co_curr = Main /\ co_curr' = Head(co_ready_list) /\ updating = "update"
  BY DEF RunTask, tableVars, noticeVars, Co!co_update_run, Co!InUpdate
<1> DEFINE y == data[Head(co_ready_list)]
<1>3. /\ y \in Tasks /\ Stage(y) = "ready"
      /\ \A x \in Tasks : Stage(x)' = IF x = y THEN "run" ELSE Stage(x)
  BY StageRun, Typed
<1>4. CurrentTask = NULL /\ CurrentTask' = y
  BY <1>1, <1>2 DEF Abstraction
<1> HIDE DEF y
<1>5. itr = 0
  BY <1>2, NoticeByMain
<1>6. ReadyTasks' = ReadyTasks \ {y} /\ y \in ReadyTasks
  BY <1>1, <1>3 DEF Abstraction
<1>7. Live' = Live /\ Fresh' = Fresh /\ Asked' = Asked
  BY <1>2, <1>3, TablesAlone
<1>8. Batch' = Batch \ {y} /\ y \in Batch
  BY <1>2, <1>5, <1>6 DEF Batch
<1>9. y \in Live /\ y \notin Fresh
  BY <1>1, <1>3, <1>6 DEF Abstraction
<1> QED BY <1>3, <1>4, <1>7, <1>8, <1>9, MapRun

LEMMA MapMainWalks ==
  ASSUME KInv, KInv', UNCHANGED vars \/ Startup \/ Reap \/ OnNotice_return
  PROVE  UNCHANGED Batches!vars
<1>1. Abstraction /\ Abstraction'
  BY Abstracts, AbstractsNext
<1>2. UNCHANGED <<phase, m_co, m_search_table, m_ready_list, itr>>
  BY DEF vars, Startup, Reap, OnNotice_return, taskVars, tableVars, noticeVars
<1>3. \A x \in Tasks : Stage(x)' = Stage(x)
  <2>1. CASE UNCHANGED vars
    BY <1>2, <2>1 DEF vars, coVars, Stage
  <2> QED BY <2>1, StageIdle, Typed
<1>4. co_curr' = co_curr /\ (co_curr = Main \/ UNCHANGED data)
  BY DEF vars, coVars, Startup, Reap, OnNotice_return, Co!co_thread_init_cache,
     Co!co_thread_init_return, Co!co_update_reap, Co!co_update_return, Co!InUpdate
<1>5. CurrentTask' = CurrentTask
  BY <1>1, <1>4 DEF Abstraction
<1>6. Live' = Live /\ Fresh' = Fresh /\ Asked' = Asked /\ Batch' = Batch
  BY <1>2, <1>3, SameReady, TablesAlone
<1> QED BY <1>5, <1>6, MapStutter

LEMMA MapInit == Init => Batches!Init
<1> SUFFICES ASSUME Init PROVE Batches!Init
  OBVIOUS
<1>1. KInv /\ Abstraction
  BY KInvInit, Abstracts
<1>2. itr = 0 /\ updating = "init" /\ m_ready_list = <<>> /\ m_ready_list \in Seq(ReadyInfo)
      /\ \A t \in Tasks : phase[t] = "free"
  BY <1>1, Typed DEF Init, Co!Init
<1>3. Live = {} /\ CurrentTask = NULL
  BY <1>1, <1>2 DEF Init, Co!Init, Abstraction
<1>4. Fresh = {}
  BY <1>1, <1>2, StartsEnds DEF Abstraction
<1>5. Wanted = {} /\ ReadyTasks = {}
  BY <1>1, <1>2, TargetsEnds, NoticeByMain DEF Abstraction
<1> QED BY <1>2, <1>3, <1>4, <1>5 DEF Batches!Init, Live, Fresh, Wanted, ReadyTasks

\* While ids do not wrap, the manager runs every task that was started or
\* resumed in the next notice, once.  An ask of a task that has its coroutine
\* is met, or the task ends first; a start is lost only where co_create can
\* fail, and then with the task.
THEOREM TasksInBatches == ~IdsWrap => (Spec => BatchesSpec)
<1> SUFFICES ASSUME ~IdsWrap PROVE Spec => BatchesSpec
  OBVIOUS
<1>1. KInv /\ [Next]_vars => KInv'
  BY KInvStep
<1>2. KInv /\ KInv' /\ [Next]_vars => [Batches!Next]_Batches!vars
  BY MapStartTask, MapResumeTask, MapSuspends, MapFinished, MapReturn, MapNoticeBegin,
     MapNoticeUpdate, MapNew, MapItemResume, MapRunTask, MapMainWalks DEF Next
<1> QED BY <1>1, <1>2, KInvInit, MapInit, PTL DEF Spec, BatchesSpec, Batches!Spec
=============================================================================
