---------------------------- MODULE TaskManager ----------------------------
(***************************************************************************)
(* CTaskManager and CTask of rmi/task.cpp, on top of the coroutine         *)
(* scheduler Taurus.                                                       *)
(*                                                                         *)
(* A task is a CTask object, a member of Tasks while it exists; data of a  *)
(* coroutine is the task it was created for.  main's loop starts and       *)
(* resumes tasks between calls of OnNotice; a running task starts,         *)
(* resumes and joins others, suspends itself and finishes.  OnNotice is    *)
(* one action per element of m_ready_list and then co_update, in whose     *)
(* loop the tasks run: an action of a task is what it does between two     *)
(* calls into the task manager, and includes the calls' effects.           *)
(***************************************************************************)
EXTENDS Integers, Sequences, Functions

CONSTANTS
  Tasks,            \* the addresses new CTask can return
  IdMod,            \* the number of values of TaskID: 2^32 in the code
  IdsWrap,          \* whether so many tasks are started that ids wrap
  MaxReady,         \* bound: main and tasks add to m_ready_list up to here
  TaskCalls,        \* the suspending calls the code of the tasks makes
  \* of Taurus:
  Coroutines, Main, NULL, StackSize, CustomSizes, Lwm, Hwm, CreateFailures

TaskAssumption ==
  /\ IdMod \in Nat \ {0, 1}
  /\ IdsWrap \in BOOLEAN
  /\ MaxReady \in Nat \ {0}
  /\ TaskCalls \subseteq {"_Suspend", "_Yield", "_Join"}
  /\ NULL \notin Tasks \cup 0 .. IdMod - 1

ASSUME TaskAssumption

VARIABLES
  heap, status, stk_size, data, co_ready_list, co_dead_list, co_cache_list,
  co_curr, updating,          \* of Taurus
  phase,                      \* where a task's Execute is
  m_id, m_co,                 \* CTask::m_id, CTask::m_co
  frame,                      \* the call a task is suspended in
  m_id_generator,
  m_search_table,             \* TaskID -> task
  m_join_table,               \* TaskID of a child -> TaskID of its parent
  m_ready_list,
  already_add_notice,
  itr                         \* OnNotice's position in m_ready_list, or 0

Co == INSTANCE Taurus WITH Data <- Tasks

SchedulerAssumption == Co!TaurusAssumption

ASSUME SchedulerAssumption

coVars == <<heap, status, stk_size, data, co_ready_list, co_dead_list,
            co_cache_list, co_curr, updating>>
taskVars == <<phase, m_id, m_co, frame>>
tableVars == <<m_id_generator, m_search_table, m_join_table>>
noticeVars == <<m_ready_list, already_add_notice, itr>>
vars == <<coVars, taskVars, tableVars, noticeVars>>

TaskIDs == 0 .. IdMod - 1

NewItem(t) == [is_new |-> TRUE, task |-> t]
ResumeItem(id) == [is_new |-> FALSE, task_id |-> id]
ReadyInfo == {NewItem(t) : t \in Tasks} \cup {ResumeItem(id) : id \in TaskIDs}

\* The suspended call of a task: its name and, for _Join, the child and
\* whether the task is the one m_join_table has for it.
Frame == [op : {"none", "_Suspend", "_Yield", "_Join"},
          child : TaskIDs, first : BOOLEAN]
NoFrame == [op |-> "none", child |-> 0, first |-> FALSE]

Init ==
  /\ Co!Init
  /\ phase = [t \in Tasks |-> "free"]
  /\ m_id = [t \in Tasks |-> 0]
  /\ m_co = [t \in Tasks |-> NULL]
  /\ frame = [t \in Tasks |-> NoFrame]
  /\ m_id_generator = 0
  /\ m_search_table = [id \in TaskIDs |-> NULL]
  /\ m_join_table = [id \in TaskIDs |-> NULL]
  /\ m_ready_list = <<>>
  /\ already_add_notice = FALSE
  /\ itr = 0

\* co_thread_init, before there is a task manager: there is none where that
\* fails.
Startup ==
  /\ \/ \E c \in Coroutines \cup {NULL} : Co!co_thread_init_cache(c)
     \/ Co!co_thread_init_return
  /\ UNCHANGED <<taskVars, tableVars, noticeVars>>

-----------------------------------------------------------------------------
(* What main and the tasks call *)

CurrentTask == Co!co_get_data(co_curr)

\* The code of main or of a task runs, not that of OnNotice.
Calling == Co!UserCode /\ itr = 0
InTask == Calling /\ co_curr # Main

FindTask(id) == m_search_table[id]

\* Pushing on m_ready_list, with the AddNotice that goes with it.
PushReady(item) ==
  /\ m_ready_list' = Append(m_ready_list, item)
  /\ already_add_notice' = TRUE
  /\ UNCHANGED itr

AllocID ==
  LET next == (m_id_generator + 1) % IdMod
  IN  IF next # 0 THEN next ELSE (next + 1) % IdMod

StartTask(t) ==
  /\ Calling
  /\ phase[t] = "free"
  /\ Len(m_ready_list) < MaxReady
  /\ IdsWrap \/ m_id_generator < IdMod - 1
  /\ m_id_generator' = AllocID
  /\ phase' = [phase EXCEPT ![t] = "live"]
  /\ m_id' = [m_id EXCEPT ![t] = AllocID]
  /\ m_co' = [m_co EXCEPT ![t] = NULL]
  /\ m_search_table' = [m_search_table EXCEPT ![AllocID] = t]
  /\ PushReady(NewItem(t))
  /\ UNCHANGED <<coVars, frame, m_join_table>>

\* Mutant: the task is resumed at once.
ResumeTask_direct(id) ==
  /\ Calling
  /\ IF FindTask(id) # NULL
       THEN Co!co_resume(m_co[FindTask(id)])
       ELSE UNCHANGED coVars
  /\ UNCHANGED <<taskVars, tableVars, noticeVars>>

\* The task is not resumed at once: its id waits for the next OnNotice.
ResumeTask(id) ==
  /\ Calling
  /\ Len(m_ready_list) < MaxReady
  /\ IF FindTask(id) # NULL
       THEN PushReady(ResumeItem(id))
       ELSE UNCHANGED noticeVars
  /\ UNCHANGED <<coVars, taskVars, tableVars>>

\* co_yield by the current task, within the call f.
SuspendIn(f) ==
  /\ Co!co_yield(m_co[CurrentTask])
  /\ frame' = [frame EXCEPT ![CurrentTask] = f]

Suspend ==
  /\ InTask
  /\ "_Suspend" \in TaskCalls
  /\ SuspendIn([NoFrame EXCEPT !.op = "_Suspend"])
  /\ UNCHANGED <<phase, m_id, m_co, tableVars, noticeVars>>

\* AddTimer is commented out: nothing but the name tells it from Suspend.
Yield ==
  /\ InTask
  /\ "_Yield" \in TaskCalls
  /\ SuspendIn([NoFrame EXCEPT !.op = "_Yield"])
  /\ UNCHANGED <<phase, m_id, m_co, tableVars, noticeVars>>

\* Mutant: key and value are swapped.
OnTaskJoin_swapped(parent, child) ==
  IF m_join_table[parent] = NULL
    THEN [m_join_table EXCEPT ![parent] = child]
    ELSE m_join_table

\* map::insert keeps an entry that is there.
OnTaskJoin(parent, child) ==
  IF m_join_table[child] = NULL
    THEN [m_join_table EXCEPT ![child] = parent]
    ELSE m_join_table

Join(id) ==
  /\ InTask
  /\ "_Join" \in TaskCalls
  /\ IF FindTask(id) # NULL
       THEN /\ m_join_table' = OnTaskJoin(m_id[CurrentTask], id)
            /\ SuspendIn([op |-> "_Join", child |-> id,
                          first |-> m_join_table'[id] = m_id[CurrentTask]])
       ELSE UNCHANGED <<coVars, frame, m_join_table>>
  /\ UNCHANGED <<phase, m_id, m_co, m_id_generator, m_search_table, noticeVars>>

\* Mutant: a parent is resumed whether one was found or not.
ResumeParentTask_unchecked(id) ==
  /\ PushReady(ResumeItem(m_join_table[id]))
  /\ m_join_table' = [m_join_table EXCEPT ![id] = NULL]

\* The task that joined the one that ends, which has left m_search_table.
ResumeParentTask(id) ==
  LET parent == m_join_table[id] IN
    /\ IF parent # NULL /\ m_search_table'[parent] # NULL
         THEN PushReady(ResumeItem(parent))
         ELSE UNCHANGED noticeVars
    /\ m_join_table' = [m_join_table EXCEPT ![id] = NULL]

\* Mutant: the task stays in m_search_table.
OnTaskFinished_not_erased ==
  /\ InTask
  /\ phase[CurrentTask] = "live"
  /\ phase' = [phase EXCEPT ![CurrentTask] = "notify"]
  /\ UNCHANGED <<coVars, m_id, m_co, frame, tableVars, noticeVars>>

\* The closure has run, or the start notifier refused it: the task leaves
\* m_search_table and the task that joined it is resumed.  The result and
\* finish notifiers, code of the caller, run after this.
OnTaskFinished ==
  /\ InTask
  /\ phase[CurrentTask] = "live"
  /\ phase' = [phase EXCEPT ![CurrentTask] = "notify"]
  /\ LET id == m_id[CurrentTask] IN
       /\ m_search_table' = [m_search_table EXCEPT ![id] = NULL]
       /\ ResumeParentTask(id)
  /\ UNCHANGED <<coVars, m_id, m_co, frame, m_id_generator>>

\* delete this, and FiberProc returns into FiberFunc.
ExecuteReturn ==
  /\ InTask
  /\ phase[CurrentTask] = "notify"
  /\ phase' = [phase EXCEPT ![CurrentTask] = "free"]
  /\ m_id' = [m_id EXCEPT ![CurrentTask] = 0]
  /\ m_co' = [m_co EXCEPT ![CurrentTask] = NULL]
  /\ Co!FiberFunc_return
  /\ UNCHANGED <<frame, tableVars, noticeVars>>

-----------------------------------------------------------------------------
(* OnNotice *)

\* Mutant: the flag is not reset.
OnNotice_begin_flag_kept ==
  /\ updating = "user"
  /\ itr = 0
  /\ itr' = 1
  /\ UNCHANGED <<coVars, taskVars, tableVars, m_ready_list, already_add_notice>>

OnNotice_begin ==
  /\ updating = "user"
  /\ itr = 0
  /\ already_add_notice' = FALSE
  /\ itr' = 1
  /\ UNCHANGED <<coVars, taskVars, tableVars, m_ready_list>>

AtItem(is_new) ==
  /\ itr \in 1 .. Len(m_ready_list)
  /\ m_ready_list[itr].is_new = is_new
  /\ itr' = itr + 1
  /\ UNCHANGED <<phase, m_id, frame, tableVars, m_ready_list, already_add_notice>>

\* CTask::Init does not look at what co_create returned.
InitTask(t) ==
  \E c \in Coroutines \cup {NULL} :
    /\ Co!co_create(t, StackSize, c)
    /\ m_co' = [m_co EXCEPT ![t] = c]

\* CTask::_Resume; there is no timer to cancel.
Resume(t) == Co!co_resume(m_co[t])

OnNotice_new == AtItem(TRUE) /\ InitTask(m_ready_list[itr].task)

OnNotice_resume ==
  /\ AtItem(FALSE)
  /\ LET t == FindTask(m_ready_list[itr].task_id) IN
       IF t # NULL THEN Resume(t) ELSE UNCHANGED coVars
  /\ UNCHANGED m_co

\* Mutant: the loop over m_ready_list ends one element early.
OnNotice_update_early ==
  /\ itr # 0
  /\ itr >= Len(m_ready_list)
  /\ m_ready_list' = <<>>
  /\ itr' = 0
  /\ Co!co_update_begin
  /\ UNCHANGED <<taskVars, tableVars, already_add_notice>>

OnNotice_update ==
  /\ itr > Len(m_ready_list)
  /\ m_ready_list' = <<>>
  /\ itr' = 0
  /\ Co!co_update_begin
  /\ UNCHANGED <<taskVars, tableVars, already_add_notice>>

\* The task at the head of co_ready_list returns from the call it was
\* suspended in, or enters Execute.
RunTask ==
  /\ Co!co_update_run
  /\ frame' = [frame EXCEPT ![data[Head(co_ready_list)]] = NoFrame]
  /\ UNCHANGED <<phase, m_id, m_co, tableVars, noticeVars>>

Reap ==
  /\ Co!co_update_reap
  /\ UNCHANGED <<taskVars, tableVars, noticeVars>>

\* Mutant: m_ready_list is cleared after co_update instead of before it.
OnNotice_return_clears ==
  /\ Co!co_update_return
  /\ m_ready_list' = <<>>
  /\ UNCHANGED <<taskVars, tableVars, already_add_notice, itr>>

OnNotice_return ==
  /\ Co!co_update_return
  /\ UNCHANGED <<taskVars, tableVars, noticeVars>>

-----------------------------------------------------------------------------

Next ==
  \/ Startup
  \/ \E t \in Tasks : StartTask(t)
  \/ \E id \in TaskIDs : ResumeTask(id)
  \/ Suspend
  \/ Yield
  \/ \E id \in TaskIDs : Join(id)
  \/ OnTaskFinished
  \/ ExecuteReturn
  \/ OnNotice_begin
  \/ OnNotice_new
  \/ OnNotice_resume
  \/ OnNotice_update
  \/ RunTask
  \/ Reap
  \/ OnNotice_return

Spec == Init /\ [][Next]_vars

\* main's loop keeps calling OnNotice, whose loops make progress, and tasks
\* are cooperative: each slice ends in a suspension or in the end of the task.
Fairness ==
  /\ WF_vars(Startup)
  /\ WF_vars(OnNotice_begin)
  /\ WF_vars(OnNotice_new)
  /\ WF_vars(OnNotice_resume)
  /\ WF_vars(OnNotice_update)
  /\ WF_vars(RunTask)
  /\ WF_vars(Reap)
  /\ WF_vars(OnNotice_return)
  /\ WF_vars(Suspend \/ Yield \/ OnTaskFinished \/ ExecuteReturn)

FairSpec == Spec /\ Fairness

-----------------------------------------------------------------------------
(* Properties *)

TypeOK ==
  /\ Co!TypeOK
  /\ phase \in [Tasks -> {"free", "live", "notify"}]
  /\ m_id \in [Tasks -> TaskIDs]
  /\ m_co \in [Tasks -> Coroutines \cup {NULL}]
  /\ frame \in [Tasks -> Frame]
  /\ m_id_generator \in TaskIDs
  /\ m_search_table \in [TaskIDs -> Tasks \cup {NULL}]
  /\ m_join_table \in [TaskIDs -> TaskIDs \cup {NULL}]
  /\ m_ready_list \in Seq(ReadyInfo)
  /\ already_add_notice \in BOOLEAN
  /\ itr \in Nat

\* The elements of m_ready_list that OnNotice has not passed yet.
Pending == {i \in DOMAIN m_ready_list : i >= itr}

\* No table holds a deleted task, even when ids have wrapped and one id has
\* named several tasks: what m_search_table finds is a live task of that id,
\* and a task that waits for its coroutine is queued for it once.
TablesNeverDangle ==
  /\ \A id \in TaskIDs : FindTask(id) # NULL =>
       phase[FindTask(id)] = "live" /\ m_id[FindTask(id)] = id
  /\ \A i \in Pending : m_ready_list[i].is_new =>
       LET t == m_ready_list[i].task IN
         /\ phase[t] = "live"
         /\ m_co[t] = NULL
         /\ \A j \in Pending \ {i} : m_ready_list[j] # NewItem(t)
  /\ \A t \in Tasks : phase[t] # "free" => m_id[t] # 0

\* Coroutines are recycled and task addresses are reused, yet m_co of a task
\* is a coroutine that runs that task and no other, and a coroutine that will
\* run belongs to a task that exists: a resume reaches the task it is meant
\* for, and CurrentTask is the running task, NULL outside of tasks.
TaskOwnsCoroutine ==
  /\ \A t \in Tasks : m_co[t] # NULL =>
       /\ phase[t] # "free"
       /\ status[m_co[t]] \in {"ready", "run", "wait"}
       /\ data[m_co[t]] = t
  /\ \A c \in Coroutines : status[c] \in {"ready", "run", "wait"} =>
       data[c] # NULL /\ m_co[data[c]] = c
  /\ data[Main] = NULL

\* Between notices the flag says whether m_ready_list holds anything: no push
\* goes unannounced and no announcement is left over.
NoticeMatchesList == itr = 0 => (already_add_notice <=> m_ready_list # <<>>)

\* Coroutine creation reports its failures here, so OnNotice never switches to
\* a coroutine without a stack.
NeverStackless == Co!NeverStackless

\* Nothing becomes ready while co_update runs the tasks, although they resume
\* and start each other: a task gets one slice per OnNotice, and co_update
\* cannot be kept busy.
OneSlicePerNotice ==
  [][updating = "update" /\ updating' = "update" =>
       Range(co_ready_list') \subseteq Range(co_ready_list)]_vars

\* The tasks that elements of m_ready_list stand for.
Target(item) == IF item.is_new THEN item.task ELSE FindTask(item.task_id)
PendingTasks == {Target(m_ready_list[i]) : i \in Pending} \ {NULL}

Registered(t) == phase[t] # "free" /\ FindTask(m_id[t]) = t

StartPending(t) == \E i \in Pending : m_ready_list[i] = NewItem(t)

\* A task that has got no coroutine stays in m_search_table, but is no task
\* any more.
Alive(t) == Registered(t) /\ (m_co[t] # NULL \/ StartPending(t))

Batches == INSTANCE TaskBatches WITH
  MayFail <- CreateFailures \cap {"malloc", "setup"} # {},
  live    <- {t \in Tasks : Alive(t)},
  fresh   <- {t \in Tasks : StartPending(t)},
  asked   <- IF itr = 0 THEN {t \in PendingTasks : Alive(t)} ELSE {},
  batch   <- {data[c] : c \in Range(co_ready_list)}
               \cup (IF itr = 0 THEN {} ELSE {t \in PendingTasks : Alive(t)}),
  running <- CurrentTask

\* While ids do not wrap, the manager implements TaskBatches: it runs every
\* task it was asked to run, once per ask and notice.  It drops no ask of a
\* task that has a coroutine until that ends, and none at all where
\* co_create does not fail.
BatchesSpec == Batches!Spec

InOp(t, op) == frame[t].op = op

ResumePending(t) ==
  \E i \in Pending : m_ready_list[i] = ResumeItem(m_id[t])

\* The task that joined a child first is not forgotten, even when ids wrap: as
\* long as its own id leads to it, it waits for a child whose end will find it
\* in m_join_table, or its resume is under way; entries of m_join_table go
\* with their child.
JoinerWoken ==
  /\ \A id \in TaskIDs : m_join_table[id] # NULL => FindTask(id) # NULL
  /\ \A t \in Tasks :
       Registered(t) /\ InOp(t, "_Join") /\ frame[t].first =>
         \/ m_join_table[frame[t].child] = m_id[t]
         \/ ResumePending(t)
         \/ status[m_co[t]] = "ready"

Waiting(t) == m_co[t] # NULL /\ status[m_co[t]] = "wait"

\* An id leads to a task only until its closure has ended: no resume that was
\* queued before, no task that joins it or ends late, and no new task with the
\* same id wakes it when it suspends itself in a notifier after that.  There
\* it sleeps for ever, and keeps its coroutine.
EndedSleeps ==
  [][\A t \in Tasks :
       phase[t] = "notify" /\ Waiting(t) =>
         phase'[t] = "notify" /\ m_co'[t] = m_co[t] /\ status'[m_co[t]] = "wait"]_vars

Running(t) == m_co[t] # NULL /\ status[m_co[t]] = "run"

\* A started task gets to run.
StartedRuns ==
  \A t \in Tasks : StartPending(t) ~> Running(t)

\* ResumeTask is never lost on a task that exists, whenever it is called: the
\* task runs again afterwards, or it was about to end.
ResumedRuns ==
  \A t \in Tasks :
    (Registered(t) /\ ResumePending(t)) ~> (Running(t) \/ ~Registered(t))

\* OnNotice returns to main, and what died in it has been reclaimed by then.
NoticeReturns == updating = "update" ~> (updating = "user" /\ co_dead_list = <<>>)

\* process.h:155 says of _Join that the caller stays suspended until the
\* SubTask has ended: it does not return while the child, another task, is
\* in the table.
JoinWaitsForChild ==
  [][\A t \in Tasks :
       /\ InOp(t, "_Join") /\ frame[t].child # m_id[t]
       /\ frame'[t] = NoFrame
       => m_search_table[frame[t].child] = NULL]_vars

\* process.h:155 has every joiner wait no longer than the SubTask lives: once
\* it has ended, a resume of the joiner is on its way.
EveryJoinerWoken ==
  \A t \in Tasks :
    Registered(t) /\ InOp(t, "_Join") /\ FindTask(frame[t].child) = NULL =>
      ResumePending(t) \/ status[m_co[t]] = "ready"

\* process.h:140-142 says that a task that called _Yield resumes by itself
\* when the interval is over.
YieldResumes ==
  \A t \in Tasks : (Registered(t) /\ InOp(t, "_Yield")) ~> ~InOp(t, "_Yield")
=============================================================================
