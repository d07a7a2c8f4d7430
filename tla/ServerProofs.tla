---------------------------- MODULE ServerProofs ----------------------------
(* The server implements the task manager's specification, calls no closure  *)
(* that is not there and enters every handler with its own Event, for every  *)
(* number of commands, tasks and coroutines and whatever Events arrive.      *)
EXTENDS Server, TaskManagerProofs

-----------------------------------------------------------------------------
(* The steps of the server are steps of the task manager *)

LEMMA ServerStep == ServerNext => [Next]_vars
<1> SUFFICES ASSUME ServerNext PROVE [Next]_vars
  OBVIOUS
<1>1. CASE RegisterRmi
  BY <1>1 DEF RegisterRmi
<1>2. ASSUME NEW cmd \in Cmds, call_func(cmd) PROVE [Next]_vars
  BY <1>2 DEF call_func, Dispatch, Next
<1>3. CASE OnNotice
  BY <1>3 DEF OnNotice, Next
<1>4. CASE NoticeStep
  BY <1>4 DEF NoticeStep, Next
<1>5. CASE HandlerCalls
  BY <1>5 DEF HandlerCalls, Next
<1>6. CASE HandlerReturn
  BY <1>6 DEF HandlerReturn, Next
<1> QED BY <1>1, <1>2, <1>3, <1>4, <1>5, <1>6 DEF ServerNext

LEMMA ServerStepOrStutter == [ServerNext]_allVars => [Next]_vars
  BY ServerStep DEF allVars

-----------------------------------------------------------------------------
(* Registration *)

\* main registers the commands before it calls.
Registers ==
  /\ turn \in {"register", "call", "notice"}
  /\ closure_map \in [PFPE_START .. PFPE_MAX - 1 -> Commands \cup {NULL}]
  /\ turn # "register" => \A cmd \in Commands : closure_map[cmd] = cmd

LEMMA CommandSlots ==
  /\ Commands \subseteq PFPE_START .. PFPE_MAX - 1
  /\ NULL \notin Commands
  /\ \A cmd \in Cmds : ~Rejected(cmd) => cmd \in Commands
  BY ServerAssumption DEF ServerAssumption, Commands, Rejected, PFPE_START

LEMMA DispatchedCommand ==
  ASSUME Registers, NEW cmd \in Cmds, turn = "call", ~Rejected(cmd)
  PROVE  cmd \in Commands /\ ClosureOf(cmd) = cmd /\ cmd # NULL
<1>1. cmd \in Commands /\ cmd # NULL /\ cmd \in PFPE_START .. PFPE_MAX - 1
  BY CommandSlots
<1>2. cmd \in DOMAIN closure_map /\ closure_map[cmd] = cmd
  BY <1>1 DEF Registers
<1> QED BY <1>1, <1>2 DEF ClosureOf

LEMMA RegistersInit == ServerInit => Registers
  BY DEF ServerInit, Registers

LEMMA RegistersStep == Registers /\ [ServerNext]_allVars => Registers'
<1> SUFFICES ASSUME Registers, [ServerNext]_allVars PROVE Registers'
  OBVIOUS
<1>1. CASE UNCHANGED <<turn, closure_map>>
  BY <1>1 DEF Registers
<1>2. CASE RegisterRmi
  <2>1. /\ turn' = "call"
        /\ closure_map' = [cmd \in DOMAIN closure_map |-> IF cmd \in Commands THEN cmd ELSE NULL]
    BY <1>2 DEF RegisterRmi
  <2> QED BY <2>1, CommandSlots DEF Registers
<1>3. ASSUME NEW cmd \in Cmds, call_func(cmd) PROVE Registers'
  <2>1. turn = "call" /\ turn' \in {"notice", "wild"} /\ closure_map' = closure_map
        /\ (turn' = "wild" => ~Rejected(cmd) /\ ClosureOf(cmd) = NULL)
    BY <1>3 DEF call_func
  <2>2. turn' # "wild"
    BY <2>1, DispatchedCommand
  <2> QED BY <2>1, <2>2 DEF Registers
<1>4. CASE OnNotice
  BY <1>4 DEF OnNotice, Registers
<1>5. CASE NoticeStep \/ HandlerCalls \/ HandlerReturn
  BY <1>1, <1>5 DEF NoticeStep, HandlerCalls, HandlerReturn, serverVars
<1> QED BY <1>1, <1>2, <1>3, <1>4, <1>5 DEF ServerNext, allVars, serverVars

-----------------------------------------------------------------------------
(* Whose Event a closure holds *)

\* OnNotice has still to create a coroutine for t.
Announced(t) == \E i \in Pending : m_ready_list[i] = NewItem(t)

\* main has started t, which has not entered its handler.
NotEntered(t) == Announced(t) \/ (Stage(t) = "ready" /\ frame[t].op = "none")

\* Its closure holds its Event.
Loaded ==
  \A t \in Tasks : NotEntered(t) => m_closure[t] # NULL /\ m_argc[m_closure[t]] = t

\* What OnNotice has returned from it has dealt with.
NothingNew == turn # "notice" /\ itr = 0 => \A t \in Tasks : ~Announced(t)

ServerTypes ==
  /\ m_argc \in [Commands -> Tasks \cup {NULL}]
  /\ m_closure \in [Tasks -> Commands \cup {NULL}]

SInv == JInv /\ Registers /\ ServerTypes /\ NothingNew /\ Loaded

LEMMA OnlyMainAnnounces ==
  ASSUME JInv, NEW x \in Tasks, Announced(x)',
         \/ UNCHANGED vars
         \/ Startup \/ OnNotice_begin \/ OnNotice_new \/ OnNotice_resume \/ OnNotice_update
         \/ RunTask \/ Reap \/ OnNotice_return \/ Suspend \/ OnTaskFinished \/ ExecuteReturn
         \/ \E id \in TaskIDs : ResumeTask(id) \/ Join(id)
  PROVE  Announced(x)
<1>1. /\ IInv /\ m_ready_list \in Seq(ReadyInfo)
      /\ m_join_table \in [TaskIDs -> TaskIDs \cup {NULL}]
      /\ m_id \in [Tasks -> TaskIDs]
  BY DEF JInv, IInv, TypeOK
<1>2. CASE UNCHANGED noticeVars
  BY <1>2 DEF noticeVars, Announced, Pending
<1>3. CASE OnNotice_begin
  <2>1. m_ready_list' = m_ready_list /\ itr = 0 /\ itr' = 1
    BY <1>3 DEF OnNotice_begin
  <2> QED BY <1>1, <2>1 DEF Announced, Pending
<1>4. CASE OnNotice_new \/ OnNotice_resume
  <2>1. \E b \in BOOLEAN : AtItem(b)
    BY <1>4 DEF OnNotice_new, OnNotice_resume
  <2>2. m_ready_list' = m_ready_list /\ Pending' \subseteq Pending
    BY <1>1, <2>1, NextItem
  <2> QED BY <2>2 DEF Announced
<1>5. CASE OnNotice_update
  BY <1>5 DEF OnNotice_update, Announced, Pending
<1>6. ASSUME NEW id \in TaskIDs, itr = 0, PushReady(ResumeItem(id)) PROVE Announced(x)
  <2>1. PICK i \in Pending' : m_ready_list'[i] = NewItem(x)
    BY DEF Announced
  <2>2. m_ready_list'[i].is_new
    BY <2>1 DEF NewItem
  <2> QED BY <1>1, <1>6, <2>1, <2>2, PushResume DEF Announced
<1>7. CASE OnTaskFinished
  <2>1. itr = 0 /\ m_id[CurrentTask] \in TaskIDs
    BY <1>1, <1>7, Current DEF OnTaskFinished
  <2>2. \/ UNCHANGED noticeVars
        \/ \E id \in TaskIDs : PushReady(ResumeItem(id))
    BY <1>1, <1>7, <2>1 DEF OnTaskFinished, ResumeParentTask
  <2> QED BY <1>2, <1>6, <2>1, <2>2
<1>8. ASSUME NEW id \in TaskIDs, ResumeTask(id) PROVE Announced(x)
  BY <1>2, <1>6, <1>8 DEF ResumeTask, Calling
<1>9. ASSUME \/ UNCHANGED vars
             \/ Startup \/ RunTask \/ Reap \/ OnNotice_return \/ Suspend \/ ExecuteReturn
             \/ \E id \in TaskIDs : Join(id)
      PROVE  UNCHANGED noticeVars
  BY <1>9 DEF vars, Startup, RunTask, Reap, OnNotice_return, Suspend, ExecuteReturn, Join
<1> QED BY <1>2, <1>3, <1>4, <1>5, <1>7, <1>8, <1>9

LEMMA OnlyMainStarts ==
  ASSUME JInv, NEW x \in Tasks, NotEntered(x)',
         \/ UNCHANGED vars
         \/ Startup \/ OnNotice_begin \/ OnNotice_new \/ OnNotice_resume \/ OnNotice_update
         \/ RunTask \/ Reap \/ OnNotice_return \/ Suspend \/ OnTaskFinished \/ ExecuteReturn
         \/ \E id \in TaskIDs : ResumeTask(id) \/ Join(id)
  PROVE  NotEntered(x)
<1>1. /\ IInv /\ FramesMatch /\ frame \in [Tasks -> Frame]
  BY DEF JInv, IInv, TypeOK
<1>2. CASE Announced(x)'
  BY <1>2, OnlyMainAnnounces DEF NotEntered
<1> SUFFICES ASSUME Stage(x)' = "ready", frame'[x].op = "none" PROVE NotEntered(x)
  BY <1>2 DEF NotEntered
<1>3. CASE UNCHANGED vars
  BY <1>3 DEF vars, coVars, taskVars, Stage, NotEntered
<1>4. ASSUME \/ Startup \/ Reap \/ OnNotice_begin \/ OnNotice_update \/ OnNotice_return
             \/ OnTaskFinished
             \/ \E id \in TaskIDs : ResumeTask(id)
      PROVE  NotEntered(x)
  BY <1>1, <1>4, StageIdle DEF NotEntered
<1>5. ASSUME InTask, UNCHANGED m_co, NEW f, SuspendIn(f) PROVE NotEntered(x)
  BY <1>1, <1>5, StageSuspend DEF NotEntered
<1>6. CASE Suspend
  BY <1>5, <1>6 DEF Suspend
<1>7. ASSUME NEW id \in TaskIDs, Join(id) PROVE NotEntered(x)
  <2>1. CASE UNCHANGED <<coVars, frame, m_co, m_join_table>>
    BY <2>1 DEF coVars, Stage, NotEntered
  <2> QED BY <1>5, <1>7, <2>1, JoinCases
<1>8. CASE ExecuteReturn
  BY <1>1, <1>8, StageReturn DEF NotEntered
<1>9. CASE OnNotice_new
  <2> DEFINE y == m_ready_list[itr].task
  <2>1. /\ UNCHANGED frame /\ itr \in Pending /\ m_ready_list[itr] = NewItem(y)
        /\ IF x = y THEN Stage(x)' \in {"none", "ready"} ELSE Stage(x)' = Stage(x)
    BY <1>1, <1>9, StageNew
  <2> HIDE DEF y
  <2> QED BY <2>1 DEF NotEntered, Announced
<1>10. CASE OnNotice_resume
  <2>1. UNCHANGED frame /\ Stage(x) \in {"wait", "ready"}
    BY <1>1, <1>10, StageResume
  <2> QED BY <1>1, <2>1 DEF FramesMatch, NotEntered
<1>11. CASE RunTask
  <2> DEFINE y == data[Head(co_ready_list)]
  <2>1. /\ frame' = [frame EXCEPT ![y] = NoFrame]
        /\ Stage(x)' = IF x = y THEN "run" ELSE Stage(x)
    BY <1>1, <1>11, StageRun
  <2> HIDE DEF y
  <2> QED BY <1>1, <2>1 DEF NotEntered
<1> QED BY <1>3, <1>4, <1>6, <1>7, <1>8, <1>9, <1>10, <1>11

\* When main dispatches no other task has still to enter its handler.
LEMMA NoOneElse ==
  ASSUME SInv, MainRuns, turn = "call", NEW x \in Tasks
  PROVE  ~NotEntered(x)
<1>1. itr = 0 /\ updating = "user"
  BY DEF MainRuns, Calling, Co!UserCode
<1>2. \A c \in Coroutines : status[c] # "ready"
  BY <1>1 DEF SInv, JInv, NothingReady
<1>3. m_co[x] # NULL => m_co[x] \in Coroutines
  BY DEF SInv, JInv, IInv, TypeOK
<1>4. Stage(x) # "ready"
  BY <1>2, <1>3 DEF Stage
<1>5. ~Announced(x)
  BY <1>1 DEF SInv, NothingNew
<1> QED BY <1>4, <1>5 DEF NotEntered

LEMMA DispatchLoads ==
  ASSUME SInv, NEW cmd \in Cmds, NEW t \in Tasks,
         MainRuns, turn = "call", ~Rejected(cmd), Dispatch(cmd, t)
  PROVE  ServerTypes' /\ Loaded'
<1> DEFINE clo == ClosureOf(cmd)
<1>1. clo \in Commands /\ NULL \notin Commands
  BY CommandSlots, DispatchedCommand DEF SInv
<1>2. /\ m_argc' = [m_argc EXCEPT ![clo] = t]
      /\ m_closure' = [m_closure EXCEPT ![t] = clo]
      /\ StartTask(t)
  BY DEF Dispatch
<1> HIDE DEF clo
<1>3. ServerTypes'
  BY <1>1, <1>2 DEF SInv, ServerTypes
<1>4. m_closure'[t] = clo /\ m_argc'[clo] = t /\ clo # NULL
  BY <1>1, <1>2 DEF SInv, ServerTypes
<1>5. ASSUME NEW x \in Tasks, NotEntered(x)' PROVE x = t
  <2>1. IInv /\ m_ready_list \in Seq(ReadyInfo)
    BY DEF SInv, JInv, IInv, TypeOK
  <2>2. UNCHANGED frame /\ Stage(x)' = Stage(x)
    BY <1>2, <2>1, StageIdle
  <2>3. ~NotEntered(x)
    BY NoOneElse
  <2>4. Announced(x)'
    BY <1>5, <2>2, <2>3 DEF NotEntered
  <2>5. PICK i \in Pending' : m_ready_list'[i] = NewItem(x)
    BY <2>4 DEF Announced
  <2>6. m_ready_list' = Append(m_ready_list, NewItem(t)) /\ itr = 0 /\ itr' = 0
    BY <1>2 DEF StartTask, Calling, PushReady
  <2>7. i \in 1 .. Len(m_ready_list) + 1
    BY <2>1, <2>6 DEF Pending
  <2>8. i # Len(m_ready_list) + 1 => i \in Pending /\ m_ready_list'[i] = m_ready_list[i]
    BY <2>1, <2>6, <2>7 DEF Pending
  <2>9. i = Len(m_ready_list) + 1
    BY <2>3, <2>5, <2>8 DEF NotEntered, Announced
  <2>10. NewItem(x) = NewItem(t)
    BY <2>1, <2>5, <2>6, <2>9
  <2> QED BY <2>10 DEF NewItem
<1> QED BY <1>3, <1>4, <1>5 DEF Loaded

LEMMA SInvStep == SInv /\ [ServerNext]_allVars => SInv'
<1> SUFFICES ASSUME SInv, [ServerNext]_allVars PROVE SInv'
  OBVIOUS
<1>1. JInv' /\ Registers'
  BY StepJInv, ServerStepOrStutter, RegistersStep DEF SInv
<1>2. JInv /\ IInv /\ ServerTypes /\ NothingNew /\ Loaded
  BY DEF SInv, JInv
\* steps in which nobody new is announced and no closure is loaded
<1>3. ASSUME \A x \in Tasks : NotEntered(x)' => NotEntered(x), UNCHANGED <<m_argc, m_closure>>
      PROVE  ServerTypes' /\ Loaded'
  BY <1>2, <1>3 DEF ServerTypes, Loaded
<1>4. ASSUME UNCHANGED vars, UNCHANGED <<m_argc, m_closure>>, turn' = "notice" \/ turn # "notice"
      PROVE  ServerTypes' /\ Loaded' /\ NothingNew'
  <2>1. \A x \in Tasks : NotEntered(x)' => NotEntered(x)
    BY <1>2, <1>4, OnlyMainStarts
  <2>2. \A x \in Tasks : Announced(x)' => Announced(x)
    BY <1>2, <1>4, OnlyMainAnnounces
  <2>3. itr' = itr
    BY <1>4 DEF vars, noticeVars
  <2> QED BY <1>2, <1>3, <1>4, <2>1, <2>2, <2>3 DEF NothingNew
<1>5. CASE UNCHANGED allVars
  <2>1. UNCHANGED vars /\ UNCHANGED <<turn, m_argc, m_closure>>
    BY <1>5 DEF allVars, serverVars
  <2> QED BY <1>1, <1>4, <2>1 DEF SInv
<1>6. CASE RegisterRmi
  BY <1>1, <1>4, <1>6 DEF RegisterRmi, SInv
<1>7. ASSUME NEW cmd \in Cmds, call_func(cmd) PROVE SInv'
  <2>1. turn = "call" /\ turn' \in {"notice", "wild"} /\ MainRuns
    BY <1>7 DEF call_func
  <2>2. turn' = "notice"
    BY <1>1, <2>1 DEF Registers
  <2>3. CASE UNCHANGED <<vars, m_argc, m_closure>>
    BY <1>1, <1>4, <2>2, <2>3 DEF SInv
  <2>4. ASSUME NEW t \in Tasks, ~Rejected(cmd), Dispatch(cmd, t) PROVE SInv'
    BY <1>1, <2>1, <2>2, <2>4, DispatchLoads DEF SInv, NothingNew
  <2> QED BY <1>7, <2>2, <2>3, <2>4 DEF call_func
<1>8. CASE OnNotice
  <2>1. OnNotice_begin /\ UNCHANGED <<m_argc, m_closure>>
    BY <1>8 DEF OnNotice
  <2>2. \A x \in Tasks : NotEntered(x)' => NotEntered(x)
    BY <1>2, <2>1, OnlyMainStarts
  <2>3. NothingNew'
    BY <2>1 DEF OnNotice_begin, NothingNew
  <2> QED BY <1>1, <1>3, <2>1, <2>2, <2>3 DEF SInv
<1>9. ASSUME NoticeStep \/ HandlerCalls \/ HandlerReturn
      PROVE  /\ \A x \in Tasks : NotEntered(x)' => NotEntered(x)
             /\ turn' = turn /\ m_argc' = m_argc
             /\ NothingNew'
  <2>0. \A x \in Tasks : NotEntered(x)' => NotEntered(x)
    BY <1>2, <1>9, OnlyMainStarts DEF NoticeStep, HandlerCalls, HandlerReturn
  <2>1. \A x \in Tasks : Announced(x)' => Announced(x)
    BY <1>2, <1>9, OnlyMainAnnounces DEF NoticeStep, HandlerCalls, HandlerReturn
  <2>2. turn' = turn /\ m_argc' = m_argc
    BY <1>9 DEF NoticeStep, HandlerCalls, HandlerReturn, serverVars
  <2>3. itr' = itr => NothingNew'
    BY <1>2, <2>1, <2>2 DEF NothingNew
  <2>4. OnNotice_update => NothingNew'
    BY DEF OnNotice_update, NothingNew, Announced, Pending
  <2>5. OnNotice_new \/ OnNotice_resume => NothingNew'
    <3>1. OnNotice_new \/ OnNotice_resume => itr' # 0
      BY <1>2 DEF OnNotice_new, OnNotice_resume, AtItem, IInv, TypeOK
    <3> QED BY <3>1 DEF NothingNew
  <2>6. ASSUME ~OnNotice_new, ~OnNotice_resume, ~OnNotice_update PROVE itr' = itr
    BY <1>9, <2>6 DEF NoticeStep, HandlerCalls, HandlerReturn, Startup, RunTask, Reap,
       OnNotice_return, Suspend, OnTaskFinished, ExecuteReturn, ResumeTask, Join,
       ResumeParentTask, PushReady, noticeVars
  <2> QED BY <2>0, <2>2, <2>3, <2>4, <2>5, <2>6
<1>10. CASE NoticeStep \/ HandlerCalls
  <2>1. UNCHANGED <<m_argc, m_closure>>
    BY <1>10 DEF NoticeStep, HandlerCalls, serverVars
  <2> QED BY <1>1, <1>3, <1>9, <1>10, <2>1 DEF SInv
<1>11. CASE HandlerReturn
  <2>1. /\ ExecuteReturn /\ m_closure' = [m_closure EXCEPT ![CurrentTask] = NULL]
        /\ m_argc' = m_argc
    BY <1>11 DEF HandlerReturn
  <2>2. CurrentTask \in Tasks /\ ~Announced(CurrentTask) /\ Stage(CurrentTask) = "run"
    <3>1. InTask
      BY <2>1 DEF ExecuteReturn
    <3>2. CurrentTask \in Tasks /\ m_co[CurrentTask] # NULL
      BY <1>2, <3>1, Current
    <3> DEFINE y == CurrentTask
    <3> HIDE DEF y
    <3>3. ASSUME NEW i \in Pending, m_ready_list[i] = NewItem(y), m_co[y] # NULL PROVE FALSE
      <4>1. m_ready_list[i].is_new /\ m_ready_list[i].task = y
        BY <3>3 DEF NewItem
      <4> QED BY <1>2, <3>3, <4>1 DEF IInv, PendingWait
    <3> QED BY <1>2, <2>1, <3>2, <3>3, StageReturn DEF y, Announced
  <2>3. \A x \in Tasks : NotEntered(x)' => x # CurrentTask
    BY <1>9, <1>11, <2>2 DEF NotEntered
  <2>4. ServerTypes'
    BY <1>2, <2>1 DEF ServerTypes
  <2>5. Loaded'
    BY <1>2, <1>9, <1>11, <2>1, <2>3 DEF Loaded, ServerTypes
  <2> QED BY <1>1, <1>9, <1>11, <2>4, <2>5 DEF SInv
<1> QED BY <1>5, <1>6, <1>7, <1>8, <1>10, <1>11 DEF ServerNext

LEMMA SInvInit == ServerInit => SInv
<1> SUFFICES ASSUME ServerInit PROVE SInv
  OBVIOUS
<1>1. Init /\ m_argc = [clo \in Commands |-> NULL] /\ m_closure = [t \in Tasks |-> NULL]
  BY DEF ServerInit
<1>2. \A x \in Tasks : ~Announced(x) /\ Stage(x) = "none"
  BY <1>1 DEF Init, Announced, Pending, Stage
<1>3. ServerTypes
  BY <1>1 DEF ServerTypes
<1> QED BY <1>1, <1>2, <1>3, InitJInv, RegistersInit DEF SInv, NothingNew, Loaded, NotEntered

\* Only OnNotice switches to a coroutine: to the first that is ready.
LEMMA EntryIsRun ==
  ASSUME SInv, [ServerNext]_allVars, NEW t \in Tasks, Enters(t)
  PROVE  m_argc[m_closure[t]] = t
<1>1. co_curr = Main /\ co_curr' # Main /\ co_curr' = m_co[t] /\ frame[t] = NoFrame
      /\ IInv /\ [Next]_vars
  BY ServerStepOrStutter DEF Enters, SInv, JInv
<1>2. ASSUME ~RunTask PROVE co_curr' \in {co_curr, Main}
  BY <1>1, <1>2
     DEF Next, vars, coVars, Startup, Reap, OnNotice_return, OnNotice_begin, OnNotice_update,
         OnNotice_new, OnNotice_resume, InitTask, Resume, Suspend, Yield, OnTaskFinished,
         ExecuteReturn, StartTask, ResumeTask, Join, SuspendIn,
         Co!co_thread_init_cache, Co!co_thread_init_return, Co!co_update_reap, Co!co_create,
         Co!co_update_return, Co!co_update_begin, Co!co_yield, Co!co_resume, Co!FiberFunc_return
<1>3. RunTask /\ co_curr' = Head(co_ready_list)
  BY <1>1, <1>2 DEF RunTask, Co!co_update_run
<1> DEFINE y == data[Head(co_ready_list)]
<1>4. y \in Tasks /\ m_co[y] = m_co[t] /\ Stage(y) = "ready"
  BY <1>1, <1>3, StageRun
<1>5. m_co[t] # NULL
  BY <1>4 DEF Stage
<1>6. t = y
  BY <1>1, <1>3, <1>5, Owned
<1>7. NotEntered(t)
  BY <1>1, <1>4, <1>6 DEF NotEntered, NoFrame
<1> QED BY <1>7 DEF SInv, Loaded

-----------------------------------------------------------------------------
(* The theorems *)

\* What the task manager promises holds in the server.
THEOREM ServerImplementsTasks == ServerSpec => Spec
<1>1. ServerInit => Init
  BY DEF ServerInit
<1> QED BY <1>1, ServerStepOrStutter, PTL DEF ServerSpec, Spec

\* Every Event is dropped or finds a closure.
THEOREM ServerCallsRegistered == ServerSpec => []CallsRegistered
<1>1. Registers => CallsRegistered
  BY DEF Registers, CallsRegistered
<1> QED BY <1>1, RegistersInit, RegistersStep, PTL DEF ServerSpec

\* Every handler is entered with the Event of its own call.
THEOREM ServerEntersWithItsEvent == ServerSpec => EntersWithItsEvent
<1>1. SInv /\ [ServerNext]_allVars => [\A t \in Tasks : Enters(t) => m_argc[m_closure[t]] = t]_allVars
  BY EntryIsRun
<1> QED BY <1>1, SInvInit, SInvStep, PTL DEF ServerSpec, EntersWithItsEvent
=============================================================================
