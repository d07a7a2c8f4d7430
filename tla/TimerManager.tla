---------------------------- MODULE TimerManager ----------------------------
(***************************************************************************)
(* CTimerManager of platform/timer_manager.h.  Time is cut into beats of   *)
(* BEAT_TICK ms: m_trig_map, a multimap in the order of its keys, holds    *)
(* the beat each timer is due in, m_entry_map the timers.  Update counts   *)
(* the beats that have passed and DoUpdate calls OnTimer for what is due.  *)
(*                                                                         *)
(* Callbacks may add and cancel timers, their own included; they do not    *)
(* call Update.  now is get_tick_count(), the wall clock: it may move at   *)
(* any time, in callbacks too, and someone may set it back.                *)
(***************************************************************************)
EXTENDS Integers, Sequences, FiniteSets, SequencesExt

CONSTANTS
  BEAT_TICK,
  Delays,        \* the after_ms of callers
  ClockSteps,    \* how the clock moves: a negative step sets it back
  IntHalf,       \* an int is -IntHalf .. IntHalf - 1: 2^31 in the code
  MaxTimers,     \* bound: timers ever added
  MaxTick        \* bound: the highest reading of the clock

TimerAssumption ==
  /\ BEAT_TICK \in Nat \ {0}
  /\ Delays \subseteq Nat
  /\ ClockSteps \subseteq Int
  /\ IntHalf \in Nat \ {0}
  /\ MaxTimers \in Nat
  /\ MaxTick \in Nat

ASSUME TimerAssumption

VARIABLES
  now,
  m_cycle_count, m_last_update, m_entry_map, m_trig_map, m_id_counter,
  updating,      \* DoUpdate is under way
  firing,        \* the timer whose OnTimer runs, or NoTimer
  \* observers; the code does not keep them
  set_back,      \* the clock has been set back
  asked,         \* the tick each pending timer was asked for
  released,      \* the calls of ReleaseTimerCallback for each timer
  fired          \* the timers the present DoUpdate has called

clockVars == <<now, set_back>>
beatVars == <<m_cycle_count, m_last_update>>
tableVars == <<m_entry_map, m_trig_map, m_id_counter, asked, released>>
vars == <<clockVars, beatVars, tableVars, updating, firing, fired>>

NoTimer == 0

Ids == 1 .. MaxTimers

Alive == DOMAIN m_entry_map

Init ==
  /\ now = 0 /\ set_back = FALSE
  /\ m_cycle_count = 0
  /\ m_last_update = now
  /\ m_entry_map = <<>>
  /\ m_trig_map = <<>>
  /\ m_id_counter = 1
  /\ updating = FALSE /\ firing = NoTimer /\ fired = {}
  /\ asked = [id \in Ids |-> 0]
  /\ released = [id \in Ids |-> 0]

\* Division of C++ integers drops the fraction.
Quotient(a, b) == IF a >= 0 THEN a \div b ELSE -((-a) \div b)

\* Mutant: an unordered_multimap, as m_entry_map is under _HASH_MAP_.
InsertTrigger_unordered(trigger) == Append(m_trig_map, trigger)

\* multimap::insert puts an entry after those with the same key.
InsertTrigger(trigger) ==
  LET before == Cardinality({i \in DOMAIN m_trig_map : m_trig_map[i].cycle <= trigger.cycle})
  IN  InsertAt(m_trig_map, before + 1, trigger)

\* Mutant: a timer may be due in the beat that is being handled.
ActivateTimer_this_beat(after_ms, timer_id) ==
  LET cur_cycle == m_cycle_count + Quotient(now - m_last_update, BEAT_TICK)
      cycle == cur_cycle + (after_ms \div BEAT_TICK)
  IN  /\ m_trig_map' = InsertTrigger([cycle |-> cycle, id |-> timer_id])
      /\ asked' = [asked EXCEPT ![timer_id] = now + after_ms]

\* Mutant: beats that have passed but not been counted yet are forgotten.
ActivateTimer_counted_beats(after_ms, timer_id) ==
  LET cycle == m_cycle_count + (after_ms \div BEAT_TICK) + 1
  IN  /\ m_trig_map' = InsertTrigger([cycle |-> cycle, id |-> timer_id])
      /\ asked' = [asked EXCEPT ![timer_id] = now + after_ms]

ActivateTimer(after_ms, timer_id) ==
  LET cur_cycle == m_cycle_count + Quotient(now - m_last_update, BEAT_TICK)
      cycle == cur_cycle + (after_ms \div BEAT_TICK) + 1
  IN  /\ m_trig_map' = InsertTrigger([cycle |-> cycle, id |-> timer_id])
      /\ asked' = [asked EXCEPT ![timer_id] = now + after_ms]

\* Mutant: the callback is given back again when the timer is gone.
Cancelled_unchecked(id) ==
  /\ released' = [released EXCEPT ![id] = @ + 1]
  /\ m_entry_map' = [i \in Alive \ {id} |-> m_entry_map[i]]

\* Where the timer is still there, its callback is given back and it is erased.
Cancelled(id) ==
  /\ released' = [released EXCEPT ![id] = IF id \in Alive THEN @ + 1 ELSE @]
  /\ m_entry_map' = [i \in Alive \ {id} |-> m_entry_map[i]]

-----------------------------------------------------------------------------

\* The caller of the manager, or a callback.
UserRuns == ~updating \/ firing # NoTimer

ClockMoves(d) ==
  /\ now + d \in 0 .. MaxTick
  /\ now' = now + d
  /\ set_back' = (set_back \/ d < 0)
  /\ UNCHANGED <<beatVars, tableVars, updating, firing, fired>>

\* A cyclic timer that does not wait is due in the next beat.
AddTimer(after_ms, cyclic, wait) ==
  /\ UserRuns
  /\ m_id_counter <= MaxTimers
  /\ m_id_counter' = m_id_counter + 1
  /\ m_entry_map' = [i \in Alive \cup {m_id_counter} |->
       IF i = m_id_counter THEN [cyclic |-> cyclic, after_ms |-> after_ms]
                           ELSE m_entry_map[i]]
  /\ ActivateTimer(IF cyclic /\ ~wait THEN 0 ELSE after_ms, m_id_counter)
  /\ UNCHANGED <<clockVars, beatVars, released, updating, firing, fired>>

CancelTimer(key) ==
  /\ UserRuns
  /\ Cancelled(key)
  /\ UNCHANGED <<clockVars, beatVars, m_trig_map, m_id_counter, asked, updating,
                 firing, fired>>

\* Mutant: the clock is taken for the last beat ("m_last_update = tick").
Update_uneven ==
  LET beats == (now - m_last_update) \div BEAT_TICK
  IN  /\ ~updating
      /\ beats > 0
      /\ m_cycle_count' = m_cycle_count + beats
      /\ m_last_update' = now
      /\ updating' = TRUE
      /\ fired' = {}
      /\ UNCHANGED <<clockVars, tableVars, firing>>

\* Nothing happens when no beat has passed.
Update ==
  LET beats == (now - m_last_update) \div BEAT_TICK
  IN  /\ ~updating
      /\ beats > 0
      /\ m_cycle_count' = m_cycle_count + beats
      /\ m_last_update' = m_last_update + beats * BEAT_TICK
      /\ updating' = TRUE
      /\ fired' = {}
      /\ UNCHANGED <<clockVars, tableVars, firing>>

-----------------------------------------------------------------------------
(* DoUpdate: a turn of its loop takes the first trigger. *)

InLoop == updating /\ firing = NoTimer

Due == m_trig_map # <<>> /\ Head(m_trig_map).cycle <= m_cycle_count

\* Mutant: the timer is called without looking it up.
DoUpdate_fire_gone ==
  /\ InLoop /\ Due
  /\ m_trig_map' = Tail(m_trig_map)
  /\ firing' = Head(m_trig_map).id
  /\ fired' = fired \cup {firing'}
  /\ UNCHANGED <<clockVars, beatVars, m_entry_map, m_id_counter, asked, released, updating>>

\* Mutant: the trigger is not erased before the call.
DoUpdate_fire_kept ==
  /\ InLoop /\ Due
  /\ Head(m_trig_map).id \in Alive
  /\ firing' = Head(m_trig_map).id
  /\ fired' = fired \cup {firing'}
  /\ UNCHANGED <<clockVars, beatVars, tableVars, updating>>

\* The timer is still there: OnTimer is called.
DoUpdate_fire ==
  /\ InLoop /\ Due
  /\ Head(m_trig_map).id \in Alive
  /\ m_trig_map' = Tail(m_trig_map)
  /\ firing' = Head(m_trig_map).id
  /\ fired' = fired \cup {firing'}
  /\ UNCHANGED <<clockVars, beatVars, m_entry_map, m_id_counter, asked, released, updating>>

\* It has been cancelled.
DoUpdate_skip ==
  /\ InLoop /\ Due
  /\ Head(m_trig_map).id \notin Alive
  /\ m_trig_map' = Tail(m_trig_map)
  /\ UNCHANGED <<clockVars, beatVars, m_entry_map, m_id_counter, asked, released,
                 updating, firing, fired>>

\* What the reference to the timer reads after the callback.  Where that has
\* cancelled the timer, the entry is gone and anything may be read.
TimerRead ==
  IF firing \in Alive THEN {m_entry_map[firing]}
                      ELSE [cyclic : BOOLEAN, after_ms : Delays]

\* OnTimer returns: a cyclic timer is activated again, another is removed.
DoUpdate_fired ==
  /\ firing # NoTimer
  /\ \E timer \in TimerRead :
       \/ /\ timer.cyclic
          /\ ActivateTimer(timer.after_ms, firing)
          /\ UNCHANGED <<m_entry_map, released>>
       \/ /\ ~timer.cyclic
          /\ Cancelled(firing)
          /\ UNCHANGED <<m_trig_map, asked>>
  /\ firing' = NoTimer
  /\ UNCHANGED <<clockVars, beatVars, m_id_counter, updating, fired>>

DoUpdate_return ==
  /\ InLoop /\ ~Due
  /\ updating' = FALSE
  /\ UNCHANGED <<clockVars, beatVars, tableVars, firing, fired>>

DoUpdate == DoUpdate_fire \/ DoUpdate_skip \/ DoUpdate_fired \/ DoUpdate_return

Next ==
  \/ \E d \in ClockSteps : ClockMoves(d)
  \/ \E after_ms \in Delays, cyclic, wait \in BOOLEAN : AddTimer(after_ms, cyclic, wait)
  \/ \E key \in Ids : CancelTimer(key)
  \/ Update
  \/ DoUpdate

\* The loop of DoUpdate goes on, and callbacks return to it.
Spec == Init /\ [][Next]_vars /\ WF_vars(DoUpdate)

-----------------------------------------------------------------------------

\* Mutant: the time since the last beat is left out.
NextEventTick_whole_beats ==
  IF m_trig_map = <<>>
    THEN IntHalf - 1
    ELSE LET dt == BEAT_TICK * (Head(m_trig_map).cycle - m_cycle_count)
         IN  IF dt < 0 THEN 0 ELSE ((dt + IntHalf) % (2 * IntHalf)) - IntHalf

\* How long the caller may sleep, as an int.
NextEventTick ==
  IF m_trig_map = <<>>
    THEN IntHalf - 1
    ELSE LET dt == BEAT_TICK * (Head(m_trig_map).cycle - m_cycle_count) - (now - m_last_update)
         IN  IF dt < 0 THEN 0 ELSE ((dt + IntHalf) % (2 * IntHalf)) - IntHalf

-----------------------------------------------------------------------------
(* Properties *)

Trigger == [cycle : Int, id : Ids]

\* m_trig_map is in the order of its keys.
TypeOK ==
  /\ now \in 0 .. MaxTick /\ m_last_update \in 0 .. MaxTick
  /\ m_cycle_count \in Nat
  /\ m_id_counter \in 1 .. MaxTimers + 1
  /\ Alive \subseteq 1 .. m_id_counter - 1
  /\ \A id \in Alive : m_entry_map[id] \in [cyclic : BOOLEAN, after_ms : Delays]
  /\ m_trig_map \in Seq(Trigger)
  /\ \A i, j \in DOMAIN m_trig_map : i < j => m_trig_map[i].cycle <= m_trig_map[j].cycle
  /\ updating \in BOOLEAN /\ set_back \in BOOLEAN
  /\ firing \in Ids \cup {NoTimer} /\ (firing # NoTimer => updating)
  /\ fired \subseteq Ids
  /\ asked \in [Ids -> Nat] /\ released \in [Ids -> Nat]

TriggersOf(id) == {i \in DOMAIN m_trig_map : m_trig_map[i].id = id}

\* A timer has one trigger, unless its callback runs: without one it would
\* never be called again, with two it would be called too often.  A timer
\* that was cancelled leaves at most one behind.
OneTriggerEach ==
  \A id \in Ids :
    /\ Cardinality(TriggersOf(id)) <= (IF id = firing THEN 0 ELSE 1)
    /\ id \in Alive \ {firing} => TriggersOf(id) # {}

\* The tick at which a beat begins.
BeatTick(cycle) == m_last_update + (cycle - m_cycle_count) * BEAT_TICK

\* The trigger of a live timer is at most a beat after the tick asked for,
\* however late Update is called: beats that have passed and were not counted
\* yet do not add up.
NotLate ==
  ~set_back =>
    \A i \in DOMAIN m_trig_map :
      LET trigger == m_trig_map[i]
      IN  trigger.id \in Alive => BeatTick(trigger.cycle) <= asked[trigger.id] + BEAT_TICK

Calls(id) == firing = NoTimer /\ firing' = id

\* OnTimer is called less than a beat before the tick asked for, by the beats
\* that have been counted and whatever the clock has done in between.
NotEarly == [][\A id \in Ids : Calls(id) => m_last_update > asked[id] - BEAT_TICK]_vars

\* A timer is called at most once in one Update: neither a cyclic timer nor
\* one that a callback adds is due in the beat that is being handled.  Only a
\* clock that is set back by a beat or more breaks this.
OncePerUpdate == [][\A id \in Ids : Calls(id) => id \notin fired \/ set_back]_vars

\* A callback is given back once, when its timer is cancelled or done, and is
\* not called after that, whichever callback cancelled it.
ReleasedOnce ==
  [][\A id \in Ids : /\ Calls(id) => released[id] = 0
                     /\ released'[id] <= 1]_vars

\* Sleeping for NextEventTick is right: an Update at now + d finds a timer due
\* if and only if d is at least that, provided it fits an int.
WakesInTime ==
  (~updating /\ ~set_back /\ m_trig_map # <<>>) =>
    LET cycle == Head(m_trig_map).cycle
    IN  \/ BeatTick(cycle) - now >= IntHalf
        \/ \A d \in 0 .. MaxTick :
             d >= NextEventTick
               <=> cycle <= m_cycle_count + ((now + d - m_last_update) \div BEAT_TICK)
                   /\ now + d - m_last_update >= BEAT_TICK

\* DoUpdate comes to an end, unless the clock is set back: a cyclic timer is
\* then due again in the beat that is being handled.
UpdateReturns == updating ~> (~updating \/ set_back)
=============================================================================
