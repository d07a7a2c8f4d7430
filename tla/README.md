# A verification project for syyserver

syyserver is a small game server in C++: one thread runs a loop in which
remote calls become *tasks*, every task runs in a *coroutine*, and a scheduler
switches between them.  Around that core the repository holds helpers: a
lock-free byte queue, a timer manager, byte streams, closures, a singleton.
This directory holds TLA+ modules that model the code under
`src/syyserver/syyserver/` (paths below are relative to it; the files are GBK
encoded), the configurations that model-check them with TLC, and theorems that
TLAPS checks.  `PROJECT.json` maps each definition to the lines it models and
lists the runs, the hazards and, for each property, a mutation of the code the
property detects.

## 1. Inventory

| component | state | operations | modelled in |
|---|---|---|---|
| coroutine scheduler, `rmi/taurus_imp.cpp`, `taurus.h` | `cothread_ctx`: `co_ready_list`, `co_dead_list`, `co_cache_list`, `co_curr`, `co_main`; per `coroutine`: `status`, `func`, `data`, `stk_size` | `co_thread_init`, `co_thread_cleanup`, `co_create`, `co_yield`, `co_resume`, `co_update`, `co_set_data`, `co_get_data`, `FiberFunc` | `Taurus` |
| intrusive list, `rmi/bd_list.h` | `head`, `tail`, `count`, `prev`/`next` in the nodes | push front, pop back, remove | `BdList`; sequences in `Taurus` |
| task manager, `rmi/task.cpp`, `task.h`, `process.h` | `m_search_table`, `m_join_table`, `m_ready_list`, `_already_add_notice`, `m_id_generator`; per `CTask`: `m_id`, `m_co` | `StartTask`, `ResumeTask`, `_Suspend`, `_Yield`, `_Join`, `Execute`, `OnNotice` | `TaskManager` (in part), `TaskBatches` |
| main loop, `syyserver.cpp` | where main is | registers, then calls `call_func` and `OnNotice` in turn | `Server` |
| RMI dispatch, `rmi/rmi.h`, `platform/closure.h`, `logic/player.h` | `_closure_map`, one closure per command with its argument | `RegisterRmi`, `call_func`, `run` | `Server` |
| byte queue, `queue/kfifol.*` | `m_pbuffer`, `m_nin`, `m_nout`, `m_nsize` | `init`, `put`, `get`, `clean`, `getlen` | `Kfifo`, `ByteFifo` |
| timers, `platform/timer_manager.h` | `m_entry_map`, `m_trig_map`, `m_cycle_count`, `m_last_update` | `AddTimer`, `CancelTimer`, `Update`, `NextEventTick` | `TimerManager` |
| byte streams, `platform/ByteStream.h` | `m_bytes`, `m_maxlen`, `m_deflen`, position | `Get`, `Put`, `ReAlloc`, `Clear`, `CopyFrom`; of the streams `Read`, `Write`, `Seek`, `Skip`, and the codecs of values, strings, buffers and vectors | `StreamBuf` (in part), `StreamFile` |
| singleton, `platform/singleton.h` | `ponce_`, `value_` | `instance` | not modelled |

What is left out, and why, is listed under *Not modelled* at the end.

**Interactions.**  `main` creates the scheduler, the task manager and the
closures of the commands, then alternates `call_func` and `OnNotice`.
`call_func` copies an Event into the closure of its command and calls
`StartTask` with that closure.  `OnNotice` walks `m_ready_list`: a new task gets
a coroutine from `co_create`, a resumed one goes through `co_resume`; both only
push on `co_ready_list`.  Then `co_update` switches to each ready coroutine.  Code running in a coroutine
calls back into the task manager (`StartTask`, `ResumeTask`, `_Join`) and into
the scheduler (`co_yield`), and when it returns `FiberFunc` puts the coroutine
on `co_dead_list`, which `co_update` reaps into the cache or frees.

**Hard behaviours.**  There is one thread, so interleaving means the order of
slices: what one task does while another is suspended, what a task does while
`OnNotice` is in progress below it on the stack, and what main does between
notices.  Pointers to recycled coroutines and deleted tasks, 32-bit task ids
that wrap, resumes that arrive before the suspension they are meant for,
creation failures nobody looks at, and lists refilled while they are drained
are where it can go wrong; `PROJECT.json` lists each at its line.  The byte
queue is the one component meant for two threads.  Timers are due on beats of a
wall clock that moves while callbacks, which may cancel the timer they are
called for, run.  The streams compute with 32-bit sizes, and are used again
after an exception has left them half way.

## 2. Plan

1. `Taurus`: the scheduler, its proofs in `TaurusProofs`.
2. `BdList`: the pointers under the sequences that `Taurus` takes its lists
   for; proofs in `BdListProofs`.
3. `TaskManager` on top of an instance of `Taurus`, shown to implement
   `TaskBatches`; proofs in `TaskManagerProofs`.
4. `Server`: main's loop and the dispatch through shared closures, composed
   with the task manager; proofs in `ServerProofs`.
5. `Kfifo`: the byte queue with both threads' steps, shown to implement
   `ByteFifo`; proofs in `KfifoProofs`.
6. `TimerManager`: beats, callbacks that add and cancel timers; proofs in
   `TimerManagerProofs`.
7. `StreamBuf`: a buffer with a writer and a reader, shown to implement
   `StreamFile`; proofs in `StreamBufProofs`.

All of these are in place.  `DataLemmas` holds the facts about lists,
remainders, quotients and least elements that several proofs use.  What could
still be added: maps, sets and pairs in a stream, two buffers that are written
into each other, and `CTaskManager::Release`, once something calls it.

## 3. The modules and the code

**`Taurus`.**  A coroutine is an address; `heap` is the set malloc'ed, and a
freed one may be returned again by the next `create_coroutine`.  The three
`bd_list`s are sequences in pop order.  `co_curr` says whose code runs and
`updating` where main is (`init`, `user`, inside `co_update`, past
`co_thread_cleanup`, or `crashed` after a switch to a coroutine without a
stack, which the POSIX `setup_coroutine` leaves behind when `valloc` fails:
it returns -2 and `create_coroutine` tests for -1).  `co_thread_init` may also
fail as a whole (`co_thread_init_fail`), and then there is no scheduler.  The
server does not look at what it returned, and goes on with a NULL context: the
modules above start from a scheduler that is there.  Each function that
changes state is one action; `co_update` is one action per turn of its loops,
because coroutines run between the turns.  Callers may pass any pointer they
can hold, including NULL, main's and their own.  Not modelled: debug output
and the stack-overflow accounting, which have no effect on the state.

**`TaskManager`** instantiates `Taurus` with the tasks as the data of
coroutines, and shares its variables; `SchedulerAssumption` is what
`Taurus` assumes of its constants.  An action of a task is what it does between
two calls into the manager.  `frame` records the call a task is suspended in; it
adds no state to the code but what the C++ stack holds.
`OnTaskFinished` and `ExecuteReturn` are separate because the notifiers, the
caller's code, run in between.  Tables are functions over `TaskIDs` with NULL
where the `std::map` has no entry (`AllocID` never returns 0, and an erased
entry and an absent one are the same to the code).

**`TaskBatches`** is what the manager promises, without ids, lists and
coroutines: a started or resumed task runs once in the next batch.  A started
task is `fresh` until it gets its coroutine (`Create`); where creation may fail
(`MayFail`) it may get none, and then its asks go with it (`Fail`).  Nothing
else loses an ask but the end of the task: the manager may not drop a resume,
nor the start of a task when `co_create` had what it needed.  The mapping is at
the end of `TaskManager`: `asked` is `m_ready_list` between notices, `batch`
what is left of it in `OnNotice` together with `co_ready_list`, `fresh` the
tasks whose start is still in the list, `live` those that `m_search_table`
finds and that have a coroutine or such a start.  A task without a coroutine
stays in `m_search_table` for ever, as `Init` does not look at what `co_create`
returned (`task.cpp:114`); for `TaskBatches` it is gone.

**`Server`** extends `TaskManager` with `_tmain` and the RMI dispatch.  `turn`
is where main is: before `RegisterRmi`, about to call `call_func`, or about to
call `OnNotice`.  The code's `_closure_map` is an array of raw pointers that
`RegisterRmi` fills from `PFPE_START + 1` on; a slot that has not been
assigned, and one outside of the array, hold anything, so a call through one
ends the behaviour (`turn = "wild"`).  `m_argc` is the Event a closure holds;
as an Event matters only by the call it came with, it is named by the task that
call starts.  `call_func` drops an Event whose `cmd` is out of range, or loads
the closure and starts the task (`Dispatch`).  The rest of `OnNotice` and what
tasks do are actions of `TaskManager`; a handler may suspend, resume others,
join and end, and does not dispatch.  main sends `cmd = 1` a million times; here
it sends any `cmd` in `Cmds` and does not stop.

**`BdList`.**  `head`, `tail`, `count`, `prev` and `next` are the fields of
`bd_list` and `bd_node`, for several lists that nodes move between.  A pushed
node keeps what its `prev` was, and its `next` when the list is empty, as the
code does: it counts on a node that has left a list having no links.
`order` remembers what was pushed and is no state of the code.
`bd_find_node`, a walk along `next`, finds what is in every set that holds
`head` and is closed under `next`.

**`Kfifo`.**  A call of `put` or `get` is a step that samples the other
side's index, one step per byte copied, in any order, and a step that advances
its own index; the `__sync_synchronize` calls and the order of stores on x86
keep these apart, and nothing else does.  `x & (m_nsize - 1)` is written
`x % m_nsize`, which is the same for a power of two, and indices are modulo
`IndexMod`, which stands for 2^32.  The constructor and `init()` are the
initial states: a queue that was not initialised has no buffer, and all callers
initialise first.  `clean` is taken only between calls: it writes the indices
of both threads.  **`ByteFifo`** is the promise: bytes come out in the order
they went in, a put stores as much as there was room for when it began.

**`TimerManager`.**  `now` is what `get_tick_count` reads, and moves between
any two steps.  A turn of the loop in `DoUpdate` is `DoUpdate_fire` or
`DoUpdate_skip`; between the former and `DoUpdate_fired` the callback runs and
may do what any caller may, except calling `Update`.  After a callback has
cancelled its own timer, the code reads the erased entry: any flags and any
delay are possible (`TimerRead`), and the run shows that the trigger this may
leave behind is harmless.  Variables after "observers" record what the
properties speak of: what was asked for, what was called and released, whether
the clock was set back.

**`StreamBuf`.**  A call of a stream is one action, because nothing runs in
between; what it may do is a set of outcomes (`Outcome`), and a string, a
buffer or a vector is several calls chained by `Then`, which stops at the first
that throws.  `CopyFrom` and the codecs of another buffer take that buffer as a
sequence of bytes.  `Write` from a reader hands `Put` a pointer into the
reader's buffer: as that is the writer's own, `ReAlloc` may have freed it
(`PutOwn`), and where the ranges overlap `memcpy` may read bytes it has written
(`Smeared`).  An access outside of the memory or to freed memory, and a buffer
that counts bytes it has no memory for, end the behaviour (`fate = "wild"`),
because the program has no defined one.  New memory is filled with any one byte.
`Next` is what the `Writer` does, what the `Reader` does, `Seek` of either and
`Clear`.  A buffer is taken to hold at most 2^31 bytes, `SizeMod \div 2`, which
is as far as `ReAlloc` gets by doubling.  Even so the end of a read may wrap: at
position 2^31 a length of 2^31 ends at 0, which passes the checks of `Get` and
`GetBufRange`.  `Read` then copies from behind the buffer (`fate = "wild"`), a
`Skip` goes back to 0, and the codecs, which skip and then copy, do as `Read`
does (`Behind`).  The count of a vector is read as an int: from 2^31 on it is
negative and the loop does not run.
**`StreamFile`** is the promise: a file with two positions.  Its `WriteSkip`,
`Torn` and `Fails` say what the code does when it throws half way: the position
has moved, or part of a string, buffer or vector has been written.  A buffer that
is read into another one may throw in that one's `Put`, after the bytes have been
skipped: whether it does is up to the other buffer, and any that has to grow may.

## 4. The runs

| run | instance | what it shows |
|---|---|---|
| `taurus` | 3 coroutines, 2 values of data, a second stack size, every creation failure, `Lwm` above `Hwm` | lists and statuses agree, cache bounds, what cleanup frees; every ready coroutine runs |
| `bd_list` | 4 nodes, 2 lists | both chains, the ends and the counts agree with what was pushed; the oldest node is popped |
| `tasks_wrap` | 3 tasks, 3 coroutines, ids modulo 3 that wrap and collide, `setup` failures | no dangling table entry, coroutines belong to their tasks, the notice flag, one slice per notice, the first joiner is woken, nothing wakes a task that sleeps in a notifier |
| `tasks` | 3 tasks, ids that do not wrap, `malloc` failures | the manager implements `TaskBatches`: asks are met, and a start is lost only with its coroutine |
| `server` | 2 tasks that share one closure, commands below, in and above the range, fairness | no call through a slot that is not assigned, each handler gets its own Event, started and resumed tasks run, `OnNotice` returns |
| `join_early` | 2 tasks | violation: `_Join` may return while the child runs |
| `join_twice` | 3 tasks | violation: the second joiner of a child is never woken |
| `yield` | 2 tasks, fairness | violation: `_Yield` does not resume by itself |
| `kfifo` | a buffer of 4 bytes (3 rounded up) or of none, records of 1 and 3 bytes | the fill level, no race on the bytes, `Kfifo` implements `ByteFifo` |
| `kfifo_records` | a buffer of 4 bytes, records of 2, as `queue/test.cpp` uses it | no record is cut |
| `timers` | 2 timers, delays of 1 and 4 ms, beats of 2 ms, a clock that is set back | on the beat, not twice, one trigger each, callbacks released once, `NextEventTick` exact, `DoUpdate` returns |
| `streams` | fixed, borrowed and dynamic buffers up to 4 bytes, a new that fails | memory safety but for five named causes, `StreamBuf` implements `StreamFile`, strings, buffers and vectors read back |

**Bounds.**  Three coroutines let one run, one wait and one be recycled at
once, and fill a cache past a watermark of one.  `Lwm = 2 > Hwm = 1` covers
the case of a cache that starts above the mark it is trimmed to.  Four nodes
give a list that has two inner nodes, or one while another list is not empty.
`MaxReady` bounds what callers add to `m_ready_list`; two elements are enough
for a resume queued behind a new task, for two resumes of one task and for a
task that ends with its resume still queued (the end of a task may add one
more).  `IdMod = 3` leaves two usable ids for three tasks, so two live tasks
share an id; everything but `BatchesSpec` holds then too.  With `IdMod = 4` and
`IdsWrap = FALSE` ids are distinct, as they are until 2^32 tasks have been
started: only then does a resume reach the task it was meant for, which
`BatchesSpec` promises.

In `server` `PFPE_MAX = 2` leaves one command, which both tasks run: tasks of
different commands share nothing.  A third call may wait for a task to end,
and reuse it.  `Cmds` has the values next to both ends of the range, on either
side.

`IndexMod = 8` lets the indices of a queue of 4 bytes wrap after two turns;
records of 1 and 3 bytes meet every alignment and every amount of room.  Beats
of 2 ms and delays of 1 and 4 have a fraction of a beat and a multiple of it,
and `MaxTick = 7` is three beats and a half; two timers let one callback cancel
or add the other; `IntHalf = 5` lets the int of `NextEventTick` overflow.
`SizeMod = 8` with buffers of up to 4 bytes stand for 2^32 and 2^31: totals up
to the wrap, and beyond it, are asked for, by lengths of 0 and 4 and positions
of 0, 3 and 7.  Bytes are the lengths of the items, 1 and 2, and 4, which as a
length makes the end of a read wrap and as an int is negative; new memory holds
0 or 4.  An earlier run, without that 4, missed the wrap of a read, which the
attempt to prove the reads showed.  The run has 197,510 distinct states.

Deadlock is not an error in `taurus`, which ends when the scheduler is
destroyed, in `timers`, whose clock and timers are bounded, and in `streams`,
which end where the program has no defined behaviour; the other runs check it.

**Symmetry.**  Addresses are interchangeable, so the safety runs of the task
manager with three tasks use permutations of coroutines and tasks; the runs
with liveness properties use none.

**Fairness.**  Weak fairness for the turns of the loops in `co_thread_init`,
`OnNotice` and `co_update`, which nothing can block, for main calling
`OnNotice` (or `co_update`) again, which `_tmain`'s loop does, and for the end
of a slice: coroutines are cooperative, and the scheduler has no preemption to
fall back on, so user code that never suspends or returns hangs the server by
design.  In `Server` main's calls are fair as well: it registers and goes on
calling `call_func` and `OnNotice` in turn.  No fairness is assumed of
`StartTask`, `ResumeTask` or `_Join`.

For the timers only `DoUpdate`, its loop and the return of callbacks to it, is
fair: nothing is assumed of who calls `Update`.  `UpdateReturns` and
`OncePerUpdate` except a clock that was set back: `get_tick_count` is the wall
clock, and when it is set back by a beat during a callback, a cyclic timer is
due again in the beat being handled and `DoUpdate` spins until the clock has
caught up.

**A task that suspends itself after its end.**  The notifiers run when
`_OnTaskFinished` has taken the task out of `m_search_table`.  One that suspends
the task there puts it to sleep for ever (`EndedSleeps`): a resume that was in
the list before finds no task, and with ids that wrap it finds another one.
That is what the order in `Execute` comes to, and a reason not to suspend in a
notifier; no text of the repository allows or forbids it.  Were the entry not
erased (the mutant `OnTaskFinished_not_erased`), a resume would wake a task
whose closure has ended, up to the moment it is deleted.

**The closure that tasks share.**  `call_func` overwrites the one Event of a
command while tasks of that command may be suspended.  A handler is entered
with its own Event all the same (`EntersWithItsEvent`), because main calls
`OnNotice` after each call and a new task always gets its first slice in the
next notice, if it gets a coroutine at all.  What keeps it is the order of calls
in `_tmain`: with two calls between notices (the mutant `call_func_again`) the
first handler runs with the Event of the second.  After its first suspension a
handler must not use the Event any more, and the reference it is given does not
say so.

**Where code and comments disagree** (`findings`).  `process.h:155` says a
joiner stays suspended until the child ends: `_Join` suspends once and returns
at the first resume (`join_early`), and `map::insert` drops a second joiner,
which then sleeps for ever (`join_twice`).  `process.h:140` says `_Yield`
resumes after the given time: the timer call is commented out (`yield`).

## 5. Proofs

Each proof module proves an inductive invariant (`IInv` unless said otherwise)
with one lemma per action, and derives the properties from it.  The constants
are only assumed to be what the modules' named assumptions say.

**`TaurusProofs`**: `TypeOK`, `CoroutineInOnePlace`, `CacheServesDefault`,
`NeverStackless` and `OnlyWaitingSurvive`, for any set of coroutines, data,
stack sizes, watermarks and creation failures.  `IInv` is their conjunction
with two facts they need:

* `SomeoneRuns`: `co_curr` is NULL only after `co_thread_cleanup`.  Without it
  `co_yield` of a NULL current coroutine would have to be ruled out by hand.
* `HasStack`: unless `valloc` can fail, every allocated coroutine has a stack.
  `NeverStackless` speaks of the switch, `HasStack` of the state before it.

`CoroutineInOnePlace` is inductive because each action moves one coroutine
from one list to another: `StatusMove` says what a change of one status does to
the sets of coroutines by status, and `ListsPush` and `ListsPop` carry the
lists along (from `DataLemmas`: an injective sequence stays one under `Append`
of a new element and under `Tail`).

**`BdListProofs`**: `TypeOK`, `WellLinked`, `FindsMembers` and `PopsOldest` for
any lists and nodes.  `WellLinked` is inductive as it stands; what carries it is
that a node which has left a list has no links.  `FindsMembers` needs an
argument about a walk, without induction: the members are a set closed under
`next`, so what `bd_find_node` finds is a member; and if some closed set missed
a member, take the least place, counted from the head, that it misses: it is
not the head, and the place before it leads to it.

**`TaskManagerProofs`**: every invariant of `TaskManager`, `OneSlicePerNotice`
and `EndedSleeps`, for any tasks, coroutines and ids, wrapped ones included.  The
scheduler's own invariant is taken from `TaurusProofs` through an instance
(`Sch`): each action of the manager calls functions of the scheduler or leaves
its variables alone (`UsesScheduler`), so that `Sch!IInv` is kept.  That lemma
is a device of the proof and says nothing of the code: the manager has no other
way to the scheduler's variables.  `IInv` adds `TypeOK`, `TaskOwnsCoroutine`, the three parts of
`TablesNeverDangle` (`SearchFindsLive`, `PendingWait`, `Numbered`),
`NoticeMatchesList` and `NoticeRuns`: while `OnNotice` walks over the list no
task runs, so nothing is pushed.  `JoinerWoken` rests on `JInv`, which adds that
frames match what coroutines do (`FramesMatch`), that nothing is ready between
notices (`NothingReady`), that the table of joiners has live children only
(`JoinsLive`), and `Woken` for each task.  It needs no distinct ids: with an id
that has been given out again the joiner is woken by the end of the wrong child,
but it is woken.  `EndedSleeps` follows from `SearchFindsLive` and
`TaskOwnsCoroutine`: what `ResumeTask` and the end of a child queue is an id,
the id leads to a live task, and its coroutine is not the sleeper's (`Sleeps`).

Its last part proves `~IdsWrap => (Spec => BatchesSpec)`.  `KInv` adds to
`JInv` what distinct ids give: a live task is the one its id leads to, and a
resume that waits names no task to come.  There is one lemma per action that
says which step of `TaskBatches`, or stutter, the mapping makes of it.  The
delicate ones are those of `OnNotice`: the turn for a resume is a stutter
(`MapItemResume`), because the task is in `co_ready_list` after it, or still has
its own start in the list, or has no coroutine and is gone for `TaskBatches`; and
`Fail` is the step only of a new task for which `co_create` found neither a
cached coroutine nor memory (`NewFails`).

**`ServerProofs`**: `ServerSpec => Spec`, so that all theorems above hold in the
server; `CallsRegistered`, from `Registers` (main registers before it calls, and
then each slot in the range holds a closure); and `EntersWithItsEvent`, for any
number of commands, from `SInv`: a task that main has started and that has not
entered its handler has its Event in its closure (`Loaded`), and when main calls
again there is no such task (`NothingNew` and `NothingReady`).

**`KfifoProofs`**, for every size, every width of the indices that is a multiple
of it and all records: `TypeOK`, `FillsWithinSize`, `NoUnreadOverwritten`,
`FifoSpec` and `RecordsWhole`.  `IInv` is `Bounds` and `Copied`:

* `Bounds` makes `FillsWithinSize` inductive: with it go the types, that a
  thread between calls has nothing left to copy (`Idle`) and that a call takes
  no more bytes than its caller's buffer has (`CallerBuffers`).  The fill level
  is a difference modulo `IndexMod` that grows by `put_len` and shrinks by
  `get_len` without wrapping, because the size is at most half of `IndexMod`.
* `Copied` says what each side is done with: the bytes of the record are in
  their places, the bytes in the caller's buffer are those the queue holds.

`NoUnreadOverwritten` rests on one fact about remainders: less than a turn
apart, two indices have different places, and this survives the wrap only
because `m_nsize` divides `IndexMod`.  That is why the constructor rounds up,
and the mutant that does not round breaks it.  `RecordsWhole` is proved
where all records and gets have one length (`OneLength`), as in `test.cpp`, on
top of the refinement: if that length divides the size, what the abstract queue
holds is a number of whole records (`Whole`), and each step of `ByteFifo` adds
or takes one or nothing (`RecordByRecord`).

**`TimerManagerProofs`**, for every beat, delay and movement of the clock:
`TypeOK`, `OneTriggerEach`, `NotLate`, `WakesInTime`, `NotEarly`,
`OncePerUpdate` and `ReleasedOnce`.  `IInv` is `TypeOK` with `Fresh` (an id not
given out yet is found nowhere), `OneEach` (triggers have different ids, and
each timer that is not being called has one), `ClockOn` (without a clock set
back, the last update is past), `GivenBack`, and `Placed` for each trigger: it
is due on the beat next to the tick asked for, and once its timer was called,
behind the beat being handled.  The rest is arithmetic of beats, in lemmas of
its own.

**`StreamBufProofs`**, for any buffers, bytes, items, strings and positions, and
every width of a size: `TypeOK`, `Survives`, the refinement `FileSpec` and
`WrittenReadsBack`.  `IInv` is `TypeOK` with two facts:

* `Sound`: the buffer has all bytes that it counts (`m_deflen`), claims no less
  than it has, and no more than `SizeMod \div 2`.  With that a sum of a position
  and a length inside of the buffer cannot wrap (`InFile`), and what the checks
  of `Get` and `GetBufRange` let through is there, or ends beyond `SizeMod`
  (`RangeEnd`).
* `Full`, until a new has failed: the buffer has what it claims, or no memory at
  all.  A write goes behind the buffer in one of those two cases only, or where
  its end wraps, which is what `Survives` says.

The proofs follow the calls.  `ReAllocOutcome`, `ExpandOutcome` and
`PutOutcome` say what each outcome of those functions is: the buffer with the
bytes at their place (`Wrote`), or the buffer as it was, perhaps with more
memory (`Alike`).  `PutWell` says it of several writes in a row, of which a part
may have been done (`Part`); `PutMore` adds one write, which gives strings and
buffers, and vectors by the least number of elements for which it could fail
(`VectorWell`).  `OneByOneDef` shows that the recursive function that writes a
vector is what its definition says, by the least length at which it would not
be.  For the reader, `BufferAtWell`, `StringAtWell` and `StringWithinWell` say
the same of what is read.  Each action then has one lemma that gives all three
(`Good`): the invariant, a step of `StreamFile`, and what `Survives` demands.
`WrittenReadsBack` puts the two sides together: what `PutWell` leaves in the
buffer is what the readers find there (`CountedBuffer`, `CountedVector`,
`CountedString`).

The proofs assume of the constants what `StreamAssumption` states: lengths fit
a byte, as the model writes a length as one; strings have no 0 in them; 1, 2 and
`SizeMod \div 2` are powers of two that a size holds.

**Only model-checked**: liveness (`ReadyRuns`, `StartedRuns`, `ResumedRuns`,
`NoticeReturns`, `UpdateReturns`), which is beyond the prover.

## 6. Not modelled

* `protocol/google`: the vendored protobuf library, some 90 000 of the
  repository's 92 000 lines of C++; and the classes generated from `event/`.
  The code of the project itself is less than 3000 lines, and the modules cover
  the part of it that keeps state.
* The network layer: the files under `net/` are empty.
* `logic/`: the handlers of the player print and return (`Server` models what a
  handler may do through the task manager), and the update loop of the
  character manager never does anything.
* The singleton: nothing calls `instance()`; the one use, `syyserver.cpp:83`,
  is commented out, and the program has one thread.
* `auto_ptr.hpp`, which does not compile and is not included, and the random
  and time helpers, wrappers of the C library.
* Of the task manager: `Release` and the setters of the notifiers, which the
  program never calls, and `CTask::OnTimer` (`task.cpp:166-171`, `299-305`), as
  no timer is ever created.
* Of the streams: the copy constructors, pointers, pairs, maps and sets in a
  stream, and writing a buffer into itself.
* What callers pass to `CancelTimer`: `timer_manager.h:94` calls the callback
  before it erases the entry, so a callback that cancels its own timer as it is
  given back would recurse; nothing in the repository implements
  `ITimerCallback` or adds a timer.
