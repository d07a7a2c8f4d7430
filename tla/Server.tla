------------------------------- MODULE Server -------------------------------
(***************************************************************************)
(* The server as _tmain runs it (syyserver.cpp): call_func of RMI_CPlayer  *)
(* (rmi/rmi.h) dispatches an Event to the closure of its command, which    *)
(* becomes a task of the task manager; then OnNotice runs the tasks.  main *)
(* makes one call between two notices.                                     *)
(*                                                                         *)
(* There is one closure per command (platform/closure.h) with room for one *)
(* Event, m_argc, which the handler gets a reference to: the tasks of a    *)
(* command share it.  An Event is a cmd and which call it came with; a     *)
(* call is named by the task it starts.  Handlers do what TaskManager has  *)
(* tasks do, except that only main dispatches.                             *)
(***************************************************************************)
EXTENDS TaskManager

CONSTANTS
  PFPE_MAX,       \* the commands are those between PFPE_START and PFPE_MAX
  Cmds            \* what an Event may have in cmd, an int32

PFPE_START == 0

Commands == PFPE_START + 1 .. PFPE_MAX - 1

ServerAssumption ==
  /\ PFPE_MAX \in Nat \ {0}
  /\ Cmds \subseteq Int
  /\ NULL \notin Commands

ASSUME ServerAssumption

VARIABLES
  turn,           \* what main does next
  closure_map,    \* command -> its closure; closures are named by the command
                  \* they are created for, NULL is what has not been assigned
  m_argc,         \* closure -> the call whose Event it holds
  m_closure       \* task -> CTask::m_closure

serverVars == <<turn, closure_map, m_argc, m_closure>>
allVars == <<vars, serverVars>>

ServerInit ==
  /\ Init
  /\ turn = "register"
  /\ closure_map = [cmd \in PFPE_START .. PFPE_MAX - 1 |-> NULL]
  /\ m_argc = [clo \in Commands |-> NULL]
  /\ m_closure = [t \in Tasks |-> NULL]

-----------------------------------------------------------------------------
(* main *)

MainRuns == Calling /\ co_curr = Main

\* Closure_Helper for each command.
RegisterRmi ==
  /\ MainRuns
  /\ turn = "register"
  /\ turn' = "call"
  /\ closure_map' = [cmd \in DOMAIN closure_map |-> IF cmd \in Commands THEN cmd ELSE NULL]
  /\ UNCHANGED <<vars, m_argc, m_closure>>

\* Mutant: PFPE_MAX is taken for a command.
Rejected_off_by_one(cmd) == cmd <= PFPE_START \/ cmd > PFPE_MAX

Rejected(cmd) == cmd <= PFPE_START \/ cmd >= PFPE_MAX

\* A slot outside of the array holds anything, like one not assigned.
ClosureOf(cmd) == IF cmd \in DOMAIN closure_map THEN closure_map[cmd] ELSE NULL

\* LoadFromStream, then StartTask.
Dispatch(cmd, t) ==
  LET clo == ClosureOf(cmd)
  IN  /\ clo # NULL
      /\ m_argc' = [m_argc EXCEPT ![clo] = t]
      /\ StartTask(t)
      /\ m_closure' = [m_closure EXCEPT ![t] = clo]

\* Mutant: main may call again before the notice.
call_func_again(cmd) ==
  /\ MainRuns
  /\ turn = "call"
  /\ turn' \in {"call", "notice"}
  /\ UNCHANGED closure_map
  /\ \/ Rejected(cmd) /\ UNCHANGED <<vars, m_argc, m_closure>>
     \/ ~Rejected(cmd) /\ \E t \in Tasks : Dispatch(cmd, t)

\* Through a pointer that was not assigned the call goes anywhere.
call_func(cmd) ==
  /\ MainRuns
  /\ turn = "call"
  /\ turn' = IF ~Rejected(cmd) /\ ClosureOf(cmd) = NULL THEN "wild" ELSE "notice"
  /\ UNCHANGED closure_map
  /\ \/ turn' = "wild" /\ UNCHANGED <<vars, m_argc, m_closure>>
     \/ Rejected(cmd) /\ UNCHANGED <<vars, m_argc, m_closure>>
     \/ ~Rejected(cmd) /\ \E t \in Tasks : Dispatch(cmd, t)

OnNotice ==
  /\ turn = "notice"
  /\ turn' = "call"
  /\ OnNotice_begin
  /\ UNCHANGED <<closure_map, m_argc, m_closure>>

-----------------------------------------------------------------------------
(* The rest of OnNotice, and the handlers it runs *)

\* ~CTask leaves the closure alone: m_closure->Release() is commented out.
HandlerReturn ==
  /\ ExecuteReturn
  /\ m_closure' = [m_closure EXCEPT ![CurrentTask] = NULL]
  /\ UNCHANGED <<turn, closure_map, m_argc>>

NoticeStep ==
  /\ Startup \/ OnNotice_new \/ OnNotice_resume \/ OnNotice_update \/ RunTask \/ Reap \/ OnNotice_return
  /\ UNCHANGED serverVars

HandlerCalls ==
  /\ \/ Suspend
     \/ \E id \in TaskIDs : InTask /\ ResumeTask(id)
     \/ \E id \in TaskIDs : Join(id)
     \/ OnTaskFinished
  /\ UNCHANGED serverVars

ServerNext ==
  \/ RegisterRmi
  \/ \E cmd \in Cmds : call_func(cmd)
  \/ OnNotice
  \/ NoticeStep
  \/ HandlerCalls
  \/ HandlerReturn

\* main's loop goes on, and so do the loops of OnNotice; handlers end, or
\* suspend themselves.
HandlerEnds == HandlerReturn \/ ((Suspend \/ OnTaskFinished) /\ UNCHANGED serverVars)

ServerSpec ==
  /\ ServerInit
  /\ [][ServerNext]_allVars
  /\ WF_allVars(RegisterRmi)
  /\ WF_allVars(\E cmd \in Cmds : call_func(cmd))
  /\ WF_allVars(OnNotice)
  /\ WF_allVars(NoticeStep)
  /\ WF_allVars(HandlerEnds)

-----------------------------------------------------------------------------
(* Properties *)

\* Whatever cmd an Event carries, call_func drops it or finds a closure: the
\* test of rmi.h:97 lets exactly the commands pass that RegisterRmi has
\* created closures for, and main registers before it calls.
CallsRegistered == turn # "wild"

\* t enters its handler.
Enters(t) == co_curr = Main /\ co_curr' # Main /\ co_curr' = m_co[t] /\ frame[t] = NoFrame

\* A handler is entered with the Event of its own call, although the tasks of
\* a command share one closure, suspend and wait for each other: whatever
\* happens in a notice, a task that main has started has entered its handler
\* before main loads the closure again.
EntersWithItsEvent ==
  [][\A t \in Tasks : Enters(t) => m_argc[m_closure[t]] = t]_allVars
=============================================================================
