---------------------------- MODULE TaskBatches ----------------------------
(***************************************************************************)
(* What the task manager promises, without ids, tables, lists and          *)
(* coroutines: tasks run in batches.  A task that is started or resumed    *)
(* asks for the next batch; every batch gives one slice to each task that  *)
(* had asked when it began, and to no other.  An ask is dropped only by    *)
(* the end of the task, or, where coroutines cannot always be had, before  *)
(* the first slice of a task: it then gets no slice at all.  Once a task   *)
(* has its coroutine every ask of it is met.                               *)
(***************************************************************************)
EXTENDS FiniteSets

CONSTANTS
  Tasks, NULL,
  MayFail     \* whether the creation of a coroutine can fail

VARIABLES
  live,       \* the tasks that have been started and have not finished
  fresh,      \* those of them that wait for their coroutine
  asked,      \* the tasks that run in the next batch
  batch,      \* the tasks that have yet to run in this one
  running     \* the task whose code runs, or NULL

vars == <<live, fresh, asked, batch, running>>

Init == live = {} /\ fresh = {} /\ asked = {} /\ batch = {} /\ running = NULL

\* Between batches main starts and resumes tasks, within one the running task.
MayCall == batch = {} \/ running # NULL

Start(t) ==
  /\ MayCall
  /\ t \notin live
  /\ live' = live \cup {t}
  /\ fresh' = fresh \cup {t}
  /\ asked' = asked \cup {t}
  /\ UNCHANGED <<batch, running>>

Resume(t) ==
  /\ MayCall
  /\ t \in live
  /\ asked' = asked \cup {t}
  /\ UNCHANGED <<live, fresh, batch, running>>

Begin ==
  /\ batch = {} /\ running = NULL
  /\ batch' = asked
  /\ asked' = {}
  /\ UNCHANGED <<live, fresh, running>>

\* t gets its coroutine.
Create(t) ==
  /\ t \in batch \cap fresh /\ running = NULL
  /\ fresh' = fresh \ {t}
  /\ UNCHANGED <<live, asked, batch, running>>

\* t gets none, and never runs.
Fail(t) ==
  /\ MayFail
  /\ t \in batch \cap fresh /\ running = NULL
  /\ live' = live \ {t}
  /\ fresh' = fresh \ {t}
  /\ batch' = batch \ {t}
  /\ UNCHANGED <<asked, running>>

Run(t) ==
  /\ t \in (batch \cap live) \ fresh /\ running = NULL
  /\ batch' = batch \ {t}
  /\ running' = t
  /\ UNCHANGED <<live, fresh, asked>>

Suspend ==
  /\ running # NULL
  /\ running' = NULL
  /\ UNCHANGED <<live, fresh, asked, batch>>

\* The end of a task resumes at most one other, the task that joined it.
Finish(parents) ==
  /\ running \in live
  /\ live' = live \ {running}
  /\ asked' = (asked \ {running}) \cup parents
  /\ UNCHANGED <<fresh, batch, running>>

Next ==
  \/ \E t \in Tasks : Start(t) \/ Resume(t) \/ Create(t) \/ Fail(t) \/ Run(t)
  \/ Begin
  \/ Suspend
  \/ \E parents \in {{}} \cup {{t} : t \in live \ {running}} : Finish(parents)

Spec == Init /\ [][Next]_vars
=============================================================================
