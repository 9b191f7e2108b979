# PERIOD in TLA+

PERIOD tests a multi-threaded program under controlled schedules. A compiler
pass puts calls of a runtime library in front of every *key point* (KP: an
access to shared memory, an allocation, a lock operation) and every
`pthread_create`. A Python driver writes a schedule into System V shared
memory and starts the program; its threads run under `SCHED_DEADLINE` with a
common period, and the library makes each thread give up as many periods in
front of each key point as the schedule says. What has run is recorded in
shared memory, from which the driver learns the coverage of the run and
chooses the next schedule.

These modules model the program's own logic: the compiler pass
(`src/tool/staticAnalysis/DBDS-INSTRU/llvm-mode/dbds-llvm-pass.so.cc`), the
runtime library (`DBDSFunction.cpp` in the same directory, called `RT` below), the
schedule generators and the driver (`src/tool/DBDS/*.py`).

## 1. Inventory

### Components

| component | source | state | operations |
|---|---|---|---|
| Instrumentation pass | `dbds-llvm-pass.so.cc` 300-580 | the module being compiled, the start routines it names | `runOnModule` |
| Thread creation handshake | `RT` 430-513, `sched.h` | `tid_to_run` (atomic), `c_tid`, the maps by thread id | `before_pthread_create`, `instr_PthreadCall` |
| Key point runtime | `RT` 95-104, 542-626 | `kpYield`, `idx_kpMap`, `curSyncOrder`, `kpLoc`, `kpOrder`, `mapTid_kpNum` | `instr_LOC_string`, `isBoundedLocHash` |
| Runtime start and end | `RT` 246-405 | shared memory: `time`, `N`, `M`, `kpNumArray`, `kp`, `kpLoc`, `kpOrder`; the maps by thread id | `traceBegin`, `traceEnd` |
| Deadline parameters | `RT` 147-244, `sched.h` 95-117 | budget, deadline, period of a thread | `setDeadLineSched`, `set_sched_dl` |
| Serialised schedulers | `sbp_sched.py`, `sbp_sched_mixed_end.py`, `sched.py`, `bp_sched.py` 141-156 | chosen threads, pattern (thread per period), counts (KPs per period), prefix | constructor, iterator, `get_yield_pattern` |
| Bounded-periods scheduler | `bp_sched.py`, `pds.py` | KPs of every thread in every period | constructor, iterator |
| Interleaving generator | `interleaving.py` | prefix and suffix of an interleaving | `interleaving_init/next/iter`, `yield_pattern_gen`, `yp_to_inter` |
| Driver: prelude | `run_PDS.py` 354-541, `external_def.py` 185-218 | `N`, `M`, `zero_in_KP`, `kpMaxNumArray`, `returnNormal` | dry run, default runs, `zero_num` |
| Driver: exploration loop | `run_PDS.py` 500-900, `external_def.py` | number of periods, stage, `parentArray`, `waited_to_explore`, errors | the main loop, retests, timeouts |
| Driver: shared memory protocol | `run_PDS.py`, `RT` | the segment's layout | `memmove_pattern_list`, `traceBegin`, `traceEnd` |
| Older drivers, debug runtimes, static analysis, scheduling experiments, benchmarks | see `PROJECT.json` | - | not modelled |

### How they interact

    driver                         shared memory                tested program
    ------                         -------------                --------------
                                                                compiled with the pass
    dry run, default runs -------> pattern of the default ----> runs
    N, M, maxima of rows <-------- time, N, M, kpNumArray <---- traceEnd
    scheduler: next schedule
    get_yield_pattern  ----------> N, M, kp[] ----------------> traceBegin: copies
    start the program                                           them, clears records
                                                                handshake: numbers the
                                                                threads in creation order
                                                                key points: use up kp[],
    communicate(timeout) <-------- kpLoc[], kpOrder[] <-------- record hash and order
    hash, counts, errors <-------- N, M, kpNumArray <---------- traceEnd: what was met
    retest / next schedule / prefix to continue

A thread's number fixes its row of `num_kp` slots in all arrays, so the
handshake is what makes row k drive the same thread in each run. The schedule
is a table of yields; period by period it becomes a table "which key points
run in which period". The driver first enumerates all schedules for a number
of periods (stage 1) and then, in stage 2, those that continue a prefix of a
run that met more key points than expected.

### What is hard

* *Interleaving*: creators and children pass one atomic integer to each other
  by busy waiting, with two loads in the child and a plain `c_tid++`; key point
  code tests, sleeps, decrements, records and draws its order number in
  separate steps.
* *Time*: a yield loses a period; a thread that overruns its budget or starts
  late loses one as well, without having yielded.
* *Partial failure*: a start routine the pass did not see, a failing
  `pthread_create`, a kernel that refuses a reservation, a crash of the tested
  program (what PERIOD is after), a program that outlives its timeout.
* *Stale state*: the retest starts on numbers the first attempt left behind;
  `parentArray` and its copy are assigned to each other by reference, raised in
  place and reused; the prefix is kept in one place and advanced in another; the
  library's maps are destroyed before its destructor looks rows up in them.
* *Rows*: which thread a row of the pattern or of the counts belongs to is
  settled in five places (the pass, the handshake, `traceEnd` through thread ids,
  `zero_num` and the driver's N), which only agree if threads without key
  points, hidden threads and gaps between ids are the same to all of them.
* *Enumeration*: three nested odometers (sets of threads, patterns, counts)
  that have to miss nothing and repeat nothing.

The complete list, at its lines, is `hazards` in `PROJECT.json`.

### What makes each component correct

* handshake: numbers are unique and follow creation order; registration is a
  critical section; the creator does not go on before its child runs under
  `SCHED_DEADLINE`; with instrumented children everything ends.
* pass: a start routine whose creation is announced registers.
* session: the counts of a thread land in its row whatever its id, and in no other
  row even where the maps are gone; the driver finds rows for all threads with key points, a test executes the schedule it was
  written for, few threads are never refused their reservation, a session ends.
* key points: each runs in its period, never before it; a thread stays in its
  row; the recorded order is the scheduled one; the run ends.
* schedulers: exactly the schedules they promise, each once, each with all key
  points, each behind the prefix to keep; the yields put a key point into its period.
* driver: each interesting run is continued exactly once per number of
  periods, against the counts it had; the exploration ends; what is saved as
  an error is what has run.

## 2. Modules

| module | models | checked by | proved in |
|---|---|---|---|
| `ThreadNumbering` | what the handshake promises (abstract) | refinement in `handshake` | - |
| `ThreadHandshake` | `before_pthread_create`, `instr_PthreadCall` | `MCThreadHandshake` | `ThreadHandshakeProofs` |
| `ScheduledRun` | what a run under a schedule promises (abstract) | refinement in `keypoints` | - |
| `KeyPoints` | `instr_LOC_string`, `isBoundedLocHash`, the clock | `MCKeyPoints` | `KeyPointsProofs` |
| `Schedules` (with `Sums`) | what a schedule is, `get_yield_pattern`, the changed prefix, and the reference definitions: all serialised schedules, all with a mixed end | through `SBPMESched`, `TestSession` | `SequenceLemmas` |
| `SerialSched` | pure algorithms of `sbp_sched.py` | through `SBPMESched` | `SBPMESchedProofs` |
| `SBPMESched` | the driver's scheduler as an iterator | `MCSBPMESched` | `SBPMESchedProofs` |
| `ScheduleEnumerator` | a generator that yields a set, each member once (abstract) | refinement in `interleaving` | - |
| `Interleaving` | `interleaving.py` as an iterator | `MCInterleaving` | `InterleavingProofs` |
| `Instrumentation` | the pass, as operators over programs | through `TestSession` | `TestSessionBasics` |
| `DeadlineParameters` | `setDeadLineSched` and what the kernel admits, as operators | through `TestSession` | `TestSessionBasics` |
| `TestProcess` | one execution, `traceBegin` to `traceEnd` | through `TestSession` | `TestSessionBasics`, `TestSessionProofs` |
| `TestSession` | compiler, dry run, default runs, first test: composes the three above with `Schedules` | `MCTestSession` | `TestSessionBasics`, `TestSessionProofs` |
| `Exploration` | the main loop of `run_PDS.py` with the program it starts | `MCExploration` | `ExplorationProofs` |

`SequenceLemmas` holds what several proofs need: of numbers and sequences (least and
greatest members, the greatest entry of a sequence, `FlattenSeq` step by step, sums, and
how many members of a set of numbers lie below a bound, `CountBelow`), and of schedules.
`Sums` is there for the proofs: recursive operators lose the prover its arithmetic, so the sum
is a recursive function, as are the recursive methods of `SerialSched` and the loops of
`SBPMESched`.

`map` in `PROJECT.json` gives the lines of each definition.

**ThreadHandshake.** One action per shared access. A creator goes
`Reach` (the program gets to a `pthread_create`), `PassSpin` (508-510),
`LoadCTid` and `StoreCTid` (the plain `c_tid++`), `Publish`
(`set_tid_to_run`; its argument may be the register or loaded again, as the
compiler likes), `PthreadCreate`. A child goes `SeeTurn` (463), `Claim` (the
second load, 464), `Register` (map inserts and the system call, 469-503),
`Release` (504-506). A child in the maps is one with `my_tid # 0`; `deadline` is
the set of threads the kernel has admitted; a refused reservation ends the
process (`exited`). The early returns of `instr_PthreadCall` (447-452) are left
out: they are for main, and for a thread that enters an instrumented routine a second
time, which each thread of the model does once. `Parent` says which thread creates which, `Instrumented`
whose start routine calls the library, `Unlucky` whose creation may fail.
`count` and `rank` are history.

**KeyPoints.** All threads are registered and run `instr_LOC_string` on the
shared arrays, one shared access per action: `Enter` or `Skip` (bounded by
`LOOP_UNWINDED_NUM`), `Yield`/`Decrement`/`NoYieldLeft` (584-588), `RecordLoc`,
`FetchOrder`, `StoreOrder` (with the advance of the index, 602-617), then the
instruction itself (`Execute`). The kernel is `Tick` (a period ends when all
have yielded or returned) and `Throttle` (a thread loses a period it has not
yielded). `period[t][k]`, the sum of the yields up to the k-th key point, is the
meaning of a schedule, and an `ASSUME` ties it to the array. `ran` is history.
`ScheduledRun` is the abstract run: a period executes, in any order, key points
that are due, and passes when none is left to do. `RunsSchedule` is the refinement;
the clock, the yields, the records and the slots are what `KeyPoints` adds.
`Tick` waits for all threads, so it takes the period to be long enough for what
the threads do in it; an instance in which it is not is a `Throttle`.

**Instrumentation, DeadlineParameters.** Pure operators. A program is a function
from function names to instructions (the callee, the start routine it is about,
whether that is a constant, the source line) and to files. `Instrument` puts the
calls of the library where `runOnModule` puts them; `Compiles` is the condition
under which its cast of the start routine does not crash. `SchedRuntime`,
`SchedPeriod` and `SchedDeadline` are the three arguments of `set_sched_dl`, in fixed
point (weights in hundredths, the base in thousandths, the result rounded down);
`Admits` is the kernel's test: a runtime of 1024 ns at least (`LongEnough`), the three
in order, and no more than 95% of the CPUs in all. Kernels that also bound the period
(100 µs to 4 s by default, since 5.5) are not modelled.

**TestProcess, TestSession.** A thread is a record with its place in the
instrumented code and what the library's maps hold for it; `tids` are the ids the
kernel gives out. `TraceBegin` loads and clears, `Register`, `KeyPoint` and
`MainKeyPoint` are the library's calls, each one step (the interleavings inside
them are in `ThreadHandshake` and `KeyPoints`), and `MainReturns`, `CallTraceEnd`
and a refused `Register` run `traceEnd` (`Summary`), which finds rows by looking up
the id before a thread's own. In front of `_exit` it is a call and all maps are there.
As the destructor (`Destructor`) it runs behind the destructors of the static maps
(lines 70-71 and 363): with ASAN, which quarantines released memory, they can still be
read (`prog.asan`, how the program was built); without, each lookup in
`my_tidMap` finds its entry or not (`intact`, any set of threads). The walk over `mapTid`
is taken to meet what was there. `KpLocArray` is what the driver reads as hashes, from
the segment's layout. The driver is `DryRun`, `SetUp` (`zero_num`, the
default pattern), `DefaultRun` and `Learn` until the numbers stand, then `WriteTest`
with any schedule of `Schedules!Mixed`, and `StartTest`. If there is none
(`NothingToTest`) the driver would go on to the next number of periods; the session ends. Only main creates threads
here; creators that are children are in `ThreadHandshake`. Schedules with a period
in which a thread without key points would be alone are left out (`SBPMESched` has
them). No program has a thread that meets one line more than
`LOOP_UNWINDED_NUM` times; the bound is in `KeyPoints`. `yields` is history.

**SerialSched, SBPMESched.** Schedules are sequences of periods, each a
function from threads to numbers of key points; a serialised schedule is
given by `pattern` and `count`. A search that returns Python's `None` has the value
`None`. `_init_pattern` calls itself: `FirstPattern` is one call, given what the calls it
makes return, and `InitPattern` the function from searches (`Searches`) to patterns that
these calls define. `_next_pattern` tries the later periods first, so it changes the
last one it can, which is what `NextPattern` says. The loops that skip redundant patterns
and sets of threads without one (`Settle`, `NextChoice`) are recursive functions too; the iterator is one action per outcome of
`__next__`, and the constructor three (`InitHelper` of the base class, then
`Construct`; `RefuseWhole` for a prefix that fills all periods, with which it raises an
exception). `all` is the set of schedules by definition, for comparison.

**Interleaving.** The iterator with `interleaving_next` in place on the suffix
behind a parent's prefix; `yield_pattern_gen` and its inverse `yp_to_inter` are
operators.

**Exploration.** Between `Schedule` (N, M and the pattern are written, the
program is started) and `Evaluate` or `Timeout` there is the program: `Load`
(`traceBegin`), then `ProgramEnds` (`traceEnd` writes what was met),
`ProgramCrashes`, or a time-out, after which the old program may still get to
its end at any later point: it writes its counts first (`LateCounts`) and then N and M
(`LateEnd`). A scheduler is the number of schedules it has left, or refused
(`None`), and remembers the counts it was made for (`kps`). What a run meets, its
coverage hash and the prefix kept for it are arbitrary. `arrays` is `parentArray`,
`parentArrayCopy` and whether the two names stand for one list (`same`): `Copied` makes
a new list, `Raised` takes the maxima in place and so through both names if they are
one, `Restored` assigns by reference, `Loaded` gives `parentArray` the counts of a
prefix. `Evaluate` is the first three in a row, as in lines 777-782. `rows` are the
lengths of the rows of the pattern: `Filled` lengthens rows to M and leaves longer
ones as they are. `limit` is `runs_limit`; the driver leaves the
`for` over a scheduler when it is reached, but still makes schedulers for all waiting
prefixes and runs none of their schedules. `rounds` counts only if there is a limit,
to keep the instances finite. `found`, `popped` and `disturbed` are history.

## 3. Runs

| run | instance | shows |
|---|---|---|
| `handshake` | main creates 5 children in any order; one `pthread_create` may fail, one start routine does not call the library, the fourth reservation is refused | numbering, exclusion, refinement of `ThreadNumbering`; only the last child created is ever half made, and none when the turn is free; every creation ends unless a child was lost, and a lost child blocks all later ones |
| `handshake_nested` | main and a child create at the same time | **violated**: two children with one number |
| `keypoints` | 2 threads, rows of 2, periods 0..2, one overrun, loops | key points in their periods and in order, refinement of `ScheduledRun`, records complete, the run ends |
| `keypoints_overflow` | three key points, rows of 2 | **violated**: the first one too many uses the neighbour's slot |
| `sbpme` | up to 3 threads, 4 KPs each, 6 in all, up to 5 periods; with prefixes up to 4 periods | each schedule once and none missing, with all key points, behind the prefix, and with yields that match |
| `sbpme_long` | KPs (5, 2), 5 periods | **violated**: distributions of one thread over three periods are missing |
| `interleaving` | 2-3 threads, 2 KPs each, parents of up to 4 | the generator refines `ScheduleEnumerator`, starts at the parent, and the yields lead back to the interleaving |
| `exploration` | 2 threads, 3 hashes, 2..5 periods, no limit or one of two runs, one program that ends late | no interesting run is forgotten or continued twice, the program loads the rows it is given, a run is compared with the counts its scheduler was made for, the loop ends |
| `session` | 17 programs with up to 8 threads built with ASAN, 8 without, 2 or 3 periods, three kinds of thread ids, short and long runs | with ASAN counts in the rows of their threads, without it in no other row; rows for all, each test runs its schedule, up to seven threads are admitted, sessions end |
| `session_zero` | three threads, the second without key points | **violated**: the third thread is not scheduled |
| `session_records` | three threads with key points | **violated**: the driver reads no hash that the program recorded |
| `exploration_retest` | 2 periods, one program that ends late | **violated**: an error is saved with another row length than it ran with |

### Bounds, and why they are enough

* `handshake`: five children have every pair of neighbours (one releases while
  the next is created) and more after them; the proof holds for all
  numbers. One whose `pthread_create` may fail (`Unlucky`), one whose routine is not
  instrumented, and `Admitted = 3` lose a child before, between and behind others, in
  both ways a child can be lost.
* `keypoints`: two threads and two slots have a neighbour row, a first and a
  last slot and the slot behind the last row; three periods give two yields
  in front of one key point, key points of two threads in the same and in
  different periods; `MaxOverruns = 1` makes both kinds of run; `MaxPath = 2`
  with `LoopUnwinded = 1` has a loop that is cut off (the third kind of path in
  `MCPaths`). `UnsignedMax` stands for the type's largest value, to which a
  decrement of 0 would wrap; three is unreachable otherwise.
* `sbpme`: `MaxKps = 4`, `MaxSum = 6`, `MaxP = 4` (5 without a prefix) have all
  three odometers turn over: sets of one to three threads, patterns in which a
  thread returns, two periods of one thread with more key points than periods.
  Three periods of a thread with more than four key points is
  the case of `sbpme_long`, where enumeration fails.
* `interleaving`: all multisets of up to six key points.
* `exploration`: `PeriodLimit = 5` is `period - 1 = 4`, where the driver gives up
  stage 1 at once; `MaxSchedules = 1` schedule per scheduler (the order within
  one scheduler is not what the properties are about); two prefix lengths, so
  that an entry may be replaced; `MaxLate = 1` program that outlives its
  timeout; `RunsLimits = {0, 2}`: the limit is reached at
  different places. The hash chosen by a run and the counts it meets are
  unrestricted within `Hashes` and `MCOutcomes`.
* `session`: the programs are chosen for their threads: with and without key
  points at the beginning, in the middle and at the end (`Gap`, `Gaps`, `Far`, `Late`,
  `Back`; `Far` has five threads, the most `RowsForAll` speaks of), one routine for
  several threads (`Twice`, `Wide`), one thread only (`Alone`), wrappers of `pthread_create` (`Wrapped`), `_exit` (`Exits`), a thread
  that is not joined (`Leaves`), and programs the pass does not see through:
  both ways to create (`Mixes`), a function pointer (`Pointers`), a start routine in
  another file (`Files`). The eight built without ASAN (`Release`)
  create two threads or more; see section 6 for one thread alone. Thread ids are consecutive, have gaps, or wrap around.
  `Times` are below the first and in the last class of `setDeadLineSched`; `Seven`
  and `Eight` are the last that fits on one CPU and the first that does not.
  `ArraySize = 17` and `DriverArraySize = 9` are to each other as 3964 and 1990, and
  the driver refuses the widest programs. `RowsForAll` stops at five threads
  because six are too many: with the counts 1, 0, 0, 0, 0, 1 `zero_num` would need a
  fourth round and the last thread gets no row. Its bound was found when its proof
  was prepared.

No symmetry is used: `rank` orders the children, and several instances give
them different roles. `CHECK_DEADLOCK FALSE` stands in the runs of `KeyPoints`,
of the iterators and of `TestSession`, which really stop (every thread has returned,
`StopIteration`, the session is over) or really hang (a program with a hidden
thread), and in the two runs of the handshake, in which threads really may spin
for ever. The runs of `Exploration` check deadlock; there the end of the program is
a step of its own (`Done`).

### Fairness

* `ThreadHandshake`: weak fairness of every thread. Creators spin under
  `SCHED_OTHER`, children under it too until registration; the kernel's fair
  scheduler runs each of them, and a spinning thread yields nothing that the
  others wait for. `SCHED_DEADLINE` threads are throttled at the end of their
  budget, so they do not starve the others.
* `KeyPoints`: weak fairness of `Tick` and of every thread's step: periods pass,
  and an admitted reservation gets its budget in each.
* `Exploration`: weak fairness of the driver's steps, of which the end or the
  time-out of a run is one (`communicate(timeout)` returns). Nothing is assumed
  of `LateCounts` and `LateEnd`.

* `TestSession`: weak fairness of the whole next-state relation: as long as the
  driver or some thread can go on, one does. No thread of the model can spin and
  stay enabled, so this is no more than that the machine runs.

`TurnIsLost` is stated without fairness: it is a property of steps. `AllDone`
says that every creation ends unless a child was lost (or the process has exited), and
that each child created gets its number even so;
`ClosedRunsEnd` is the same question asked of the source of a program.

## 4. Where code and text disagree

1. **Two creators** (`handshake_nested`, `RT`:510). The spin in
   `before_pthread_create` tests the turn and takes it later, so two creators
   pass it together; `c_tid++` is a plain increment. Two children then share a
   row of the schedule. With one creator the handshake is correct, which is
   proved.
2. **One key point too many** (`keypoints_overflow`, `RT`:607). The end of the row
   is tested before the index is advanced: the thread stays one key point long
   on the first slot of the next row.
3. **Missing distributions** (`sbpme_long`, `sbp_sched.py`:224). `_next_sched`
   moves a key point of a thread and starts over only the greater threads, not
   the later periods of the same thread.
4. **Threads without key points** (`session_zero`, `run_PDS.py`:740). The pattern
   has a row for each thread up to the last one with key points, but N counts only
   threads with key points, and the program loads N rows: the last threads run
   without yielding. A reproduction (`-r`) writes the number of rows and so runs
   another schedule than the test it is to reproduce.
5. **The records** (`session_records`, `run_PDS.py`:75). The driver expects arrays of
   1990 slots, the program has 3964, so the driver reads slots of the schedule where
   it expects the hashes of the key points: coverage is a function of the counts
   alone, and the directed mode finds no key point.
6. **Retests** (`exploration_retest`, `run_PDS.py`:771). A retest runs the old
   pattern with the row length left by the first attempt; what is saved for an
   error does not reproduce that run. The same comes of a program that outlives its
   timeout (812) and writes N and M between those of the driver and the start of the
   next program, or its counts without its M, from which rows of different lengths are made.

Number 3 was compared with the Python class, which yields the same
schedules as the counterexample.

Smaller ones without a run of their own:

* `parentArrayCopy`, which `run_PDS.py`:671 restores for each number of periods ("restore
  parentArray"), is overwritten within stage 2 (777, 860): it then holds the counts of
  the last prefix, so from four periods on stage 1 tests the schedules of the
  default run's counts and compares with another run's. `PrefixIsParent` is what is true.
* The comment at `run_PDS.py`:695 takes the filter for redundant schedules to be superfluous
  with `fix_prefix=True`. The window handed to `_next_sched`
  (`sbp_sched_mixed_end.py`:135) includes the last period of the prefix, and its number of
  key points may be started over: `SBPMESched(2, [3, 4], 4, [[1, 1]], fix_prefix=True)`
  yields `[1],[0,0],[1,1,1],[0]`, which only the filter takes out. `PrefixKept` is what is
  true.
* Counts lost without ASAN: line 363 of `RT` avoids one lookup in the released map because
  "std::map would release resource without ASAN", line 366 makes the same one for a thread
  whose id does not follow another's. If it misses, the row is -1 and the count of the
  thread is lost. Seen with g++ 12 and glibc 2.36 in a program of two threads whose ids have
  a gap. `CountsInRows` is what is true: no count lands in the row of another thread, and with
  ASAN none is lost.
* `filled_with_zero` is to "align pattern list" (`external_def.py`:16) but only lengthens
  rows; a row longer than M, after a late program, stays as it is.
* `Sched_Info.time` is commented "nsec" (`RT`:31) and holds microseconds (`RT`:385).
* The branch `elif Period < 100` (`run_PDS.py`:394) is behind `Period < 1000` and never taken.

## 5. Proofs

TLAPS proves the following for all values of the constants that satisfy the
modules' `ASSUME`s.

**`ThreadHandshakeProofs`** (assumption: `SingleCreator`, one thread creates all
others; without it finding 1 is a counterexample). `TypeCorrect` needs no
assumption. The safety properties are not inductive: that two children do not
register together depends on what the creator has already done. `TurnInv` says
for each value of the turn who may be where:

* `RankInv`: who has a rank, and that a number is 0 or the rank;
* `FreeTurnInv`: at 0 all started children are settled, and `c_tid` is the count;
* `CreatorInv`: in the middle of a creation the turn and the registers are
  determined by the creator's place, and no child is registering;
* `EntryInv`: a child in `instr_PthreadCall` is the last one created, holds the
  turn, and all others are settled.

`TurnInvariant` proves it with one step per action; `NumbersAreUnique` and
`RegistrationIsExclusive` follow from it. `NoneLeftBehind` needs more: once a child is
lost, `TurnInv` says less of the others, so that none but the last one created is half
made is proved by a step of its own, inductive relative to `TurnInv`: the turn is given
a new number only when it is free, and then all children before have their number and
their reservation.
`LostTurnStaysLost` proves the action property, and
`HandshakeImplementsNumbering` the refinement: `PthreadCreate` maps to `Create`,
`Register` to `Number`, and all other steps to a stutter.

**`KeyPointsProofs`** (assumption: `PathsFit`, no thread meets more key points
than its row has slots; otherwise finding 2. It counts the ones the loop bound
skips, so it is a little stronger than what the code needs). With it `IndexesInBounds`
proves what finding 2 violates. The inductive invariant is `RunInv`:

* `CountInv`: index, counter and rest of the path of each thread agree;
* `YieldInv`: the slots a thread has not reached are as the driver wrote them.
  This needs `RowsDisjoint` (slots of two threads differ, from `SlotArithmetic`):
  nobody else has used them;
* `ClockInv`: the period in which a thread will run its next key point, computed
  from the clock and the yields left, is not before the scheduled one, and is
  equal to it while there was no overrun;
* `OrderInv`: order numbers drawn so far, stored or not, agree with the periods.

`NeverEarly` is proved for every number of overruns; `OnTime`, `OrderAsScheduled`
and `RecordedOrder` hold as long as there was none. `ImplementsScheduledRun` proves
the refinement of `ScheduledRun`: `Execute` and `ExecuteSkipped` map to an execution,
`Tick` to the passing of a period, all other steps to a stutter. `RecordedOrder` needs
`OrderInv` and `ClockInv` together: when an order number is drawn, every number
drawn before it belongs to a period that has already begun.

The records have an invariant of their own on top, `RecordsInv`: the slots that hold a
location are those filled so far, one more than recorded between `RecordLoc` and
`StoreOrder`; between `Enter` and `RecordLoc` the location about to be recorded is
strictly below the bound. `isBoundedLocHash` counts slots up to the index, the
property `RecordsComplete` slots of the row: `BoundedHits` maps one set into the other.
`RunInv` says that no other thread writes into the row.

**`InterleavingProofs`** (assumption: `InputsAssumption`, the types of what the
generator is called with; parents that have other key points than the counts say are
included). `GeneratorInv`, the inductive invariant, says that the suffix is an
arrangement of the key points that remain and that, after the first yield, what was
yielded is the prefix followed by the arrangements up to that suffix in
dictionary order. `NextIsSuccessor` carries it over a step: between a suffix and the
result of `interleaving_next` there is no other arrangement, since it would share the
part in front of the entry that changes, behind which the one is the greatest
(`FallingIsGreatest`) and the other the least (`RisingIsLeast`). `NoneIsLast` is the
end: no ascent, no greater arrangement. `EachYieldedOnce` proves the refinement of
`ScheduleEnumerator`: `First` and `Following` map to `Yield`, the new one was not
among those yielded, and `Ended` is taken when all were. `StartsAtParent`
needs that what `get_prefix` cuts off rises, so that it is the least arrangement.

The same module has two theorems about the two converters. A thread's yields are
differences, so up to its k-th key point they add up to the number of changes of thread in front of it (`SumOfDifferences`). That number
is the period. Two key points of one period have the same thread, as between
them nothing changed (`OneThreadPerBlock`), and two of one thread without a change
between them have the same number (`BlockIsStretch`): `YieldsSeparateThreads` is this
equivalence. For
`YieldsLeadToTheInterleaving` the loop of `yp_to_inter` is followed period by period:
after period r it has built the interleaving up to the last key point of that
period (`RunsOfPeriod`, `YieldsLeadBack`).

**`ExplorationProofs`** (assumption: `OutcomesAssumption`, what a run can meet is a
sequence of counts, and there is a longest; only `TypeCorrect` needs it, since the
driver's arrays have the length of the longest). `DictInv` is the inductive invariant: the keys
of each dictionary are unique; in stage 1 `waiting` and `saved` are one dictionary and
hold all hashes found; in stage 2 `saved` still does, and `waiting` holds what was
found and not yet popped. `NoneForgotten` and `NoneTwice` are its two halves.
`AddKeys` says that a replacement keeps the keys, `TailKeys` that popping the first
entry removes exactly its key (which is why keys must be unique). That
nothing is continued twice needs `Known`: a hash found
again in stage 2 is in `saved`, so it is not added. `LoadsItsRows` is proved with
`RowsInv`: before the program loads M, shared memory still holds the driver's, unless
something disturbed it; and with `FitInv`: the counts of the default run and of all
entries are not greater than M unless a program was late, so `Filled` has one length only.

`PrefixIsCompared` is about the two names of the arrays. `EvaluationRestores`: a copy,
maxima taken in place and a restore by reference leave in both names what `parentArray`
had before, since the copy is a list of its own; with an assignment in place of the
copy (a mutant) the maxima stay. Behind it the two names are one list, which is harmless
only because each later use begins with a copy or a new list. `ParentInv`, the
invariant, says what the two hold: in stage 2, and in stage 1 for two periods and
three (`BeforePrefixes`), the counts the scheduler was made for. From four periods on
stage 1 restores what stage 2 left in the copy (section 4).

**`TestSessionBasics`** begins with the pass (assumption: `IsProgram`, the shape of the source
of a program). The instrumented function is its entry and a block for each instruction, one
behind the other: `Layout` has the offsets of the blocks, `CodeShape` says what stands
at each place of a block and that nothing else stands anywhere. From it follow, for any program:
`KeyCount`, as many calls of `instr_LOC_string` as the source has key points;
`NthCreation`, the creations in main's code are those of its source in their order;
`Announced`, with `Closed` (no hidden thread) each has one announcement in front of it;
`JoinedInCode` and `ExitsInSource`, what the source says of joins and exits is so in the code.

**`TestSessionBasics`, `TestSessionProofs`** (assumptions of the session: `SizeAssumption`, the arrays have slots;
`TimesAssumption`, a dry run takes no negative time; `TidsAssumption`, no two threads of an
execution have one id, and only a thread's successor has the id behind its own, as
the kernel counts up and wraps around; `SessionsAssumption`, what is tested is a program and
the kernel has an id for each of its threads, and the driver's arrays are not longer than
the library's). One execution after the other changes what the driver knows, so
the invariant is built in layers, each proved with those below it:

* `Base`, of every program: types; where each thread stands in its instrumented
  function; the threads are main and those created so far, each with the key points
  it has passed (`Team`); no more threads are counted than created (`FewThreads`).
  `SessionInvariant` proves it, one lemma per action, in `TestSessionBasics`; the layers above
  it are in `TestSessionProofs`.
* `Numbering`, of programs without hidden threads: announcements and creations
  alternate in main (`Announced`), so `c_tid` is the number of threads or one more, and
  a thread has the number of its rank or is the last one and its number waits in the turn.
* `JoinedEnded`: behind a join its threads have ended, so that main's last instruction
  or `_exit` finds the others finished (`JoinedAll`).
* `Counted`: in shared memory there are cleared counts or the right ones, and once
  `traceEnd` has run the right ones if the maps were intact. `SummaryRight` is the
  heart of it: whatever is left of the maps, the lookup through the id before a thread's
  own and the one through its own (`RowIs`) find the row of its rank or none at all, and with
  all of them left the row of its rank, for consecutive ids, gaps and wrapped ids
  alike. `RowsOfThreads` proves `CountsInRows` from it: the right counts with ASAN, without it
  (`RowsKept`) at worst none. What follows is about programs built with ASAN (`WellBuilt`).
* `Learnt`: what the driver has learnt from a dry run no later run takes away.
  `ThreeRounds` is the argument about `zero_num`: each round adds the zeros the last one
  uncovered; with at most five threads three rounds reach the last thread with key points.
  `RowsForThreads` proves `RowsForAll`.

`NoRefusal` (in `TestSessionBasics`) proves `NeverRefused` from `SevenAreAdmitted`: for every dry run time from 21
microseconds on (`LeastTime`; below, the runtime is less than the kernel's 1024 ns) and every number of CPUs, up to seven threads are admitted. The share of a thread is at most a
tenth of the period in all classes of times but the last (`Classes`, `Tenth`), and
10 of 82.5 there on one CPU (`Stretched`); rounding costs less than what is left
because the last class begins at two seconds. The run `session` shows that eight
are refused (that is why `NeverRefused` stops at seven). `FewReserved` is the other half:
no more reservations are out than threads were created.

**`SequenceLemmas`** has two theorems about every schedule. `MixedRunsAll`: a schedule with
a mixed end runs all key points of all threads. `YieldsLeadToPeriods`: of such a schedule `get_yield_pattern` makes yields that,
added up to a key point, are the periods in front of its own; a period ends behind the k-th
key point and before the next for one k only, so the yields up to the k-th count the
periods that end before it (`YieldSum`), and these are a beginning of the schedule
(`PeriodIs`). `TestSessionProofs` follows a schedule on to the threads: `ScheduleIsFollowed` proves `ScheduleIsRun` for programs in which all threads have
key points (with others, finding 4 is a counterexample). It needs three more layers:

* `AllSizes`: from the dry run on N is the number of threads, M the greatest count and
  no row is added, and the rows fit into the arrays; when tests begin, the driver's counts are
  those of the source, so its schedules are about the key points there are;
* `Ready`: what `WriteTest` leaves in shared memory is the plan, row behind row;
* `Following`, while the test runs: a thread's yields so far are the plan's, its index is
  at its next slot (`InRow`), and the slots of key points that have not run are as
  written (`Unspent`). The last part is about all threads: it holds because no two key
  points share a slot (`SlotsAre`) and no thread has more key points than its row (`KeyFits`,
  from `KeyCount`: the code has the source's key points). `RegisterFollows` puts a thread into
  the row of its rank, which needs `Numbering`.

**`SBPMESchedProofs`** (assumption: `InputsAssumption`, threads are numbered from 0, there is a
period, and the periods of a prefix to keep are of one thread each; the prefix may be as long as
the schedules asked for or longer, `RefuseWhole`) is about the scheduler for any number of threads, key points and periods, behind
any fixed prefix. It has five parts.

*The searches.* A pattern is good for a search (`GoodFor`) when it has the periods asked for,
gives each thread of `mustDo` one, begins with another thread than `last`, has no thread twice in
a row and gives no thread more periods than it has key points, but for the one period of a
thread of `mustDo` without any. `_init_pattern` returns a good pattern or `None`
(`InitPatternGood`), and finds one whenever there is a pattern in which no thread has more
periods than key points (`InitPatternFinds`; the greedy search, a mutant, does not).
`_next_pattern` returns a good pattern that is later in dictionary order (`NextPatternGood`).
`NextChoiceIs` says of the loop over sets of threads that it returns a set behind the
current one, in the order `Sooner` (smaller sets first), with a good pattern, or that no later set
has one. These are inductions over the number of periods left and over the
orders of patterns and sets, carried out with a least counterexample, as the library's
induction theorems cannot be instantiated.

*The schedules.* `SchedInv` is the inductive invariant. `Shape`: the pattern continues that of
the prefix and is good for what is left, each count is positive; `Totals`: the counts of a
chosen thread add up to its key points, those of any other thread to what the prefix has
of them. `InitSchedSum` and `MovedSum` say that handing out the key points of a thread, and
moving one of them to another period, keep its sum. `TypeCorrect`, `AllKpsRun`,
`PrefixIsKept` and `YieldsFollow` follow from `SchedInv` alone, the last one with `YieldsLeadToPeriods`.

*Nothing twice.* `EmittedInv` says that each schedule yielded came from an earlier choice of
threads, pattern and counts than the current one, or from that one (`CameBy`): sets of threads by
`Sooner`, patterns by `Precedes`, counts by `LaterCounts`, in this order (`Before`). That later
choices give other schedules (`Different`) is not true of all choices: if the last period is the
only one of its thread, exchanging that thread with one dumped there gives the same
schedule. `TwinSooner` shows that these are the only ones, and that the pattern of the later
of the two is `Redundant`, which `Settle` skips. The constructor does not skip it, so the
invariant also says that a redundant pattern has nothing before it but its own set of
threads. `NothingTwice` follows by counting.

*No wrong refusal.* `RefusesOnlyTheImpossible` goes from the reference definition `Mixed` to the
search: the pattern of a serialised schedule gives no thread more periods than key points
(`SerialPattern`), the threads it serialises, sorted (`SortedOf`), are a set the constructor
tries, and for it `_init_pattern` finds a pattern (`ScheduleFound`).

*No other schedules.* `YieldsOnlySchedules` goes the other way: without a prefix, and if every thread
has key points, a choice with `Shape` and `Totals` gives a member of `Mixed` (`SchedMixed`). A
thread without key points may get a period of its own, in which nothing runs (hazard
at `sbp_sched_mixed_end.py`:99); that is why the theorem leaves it out.

**Only model-checked.** The liveness properties `AllDone`, `AllReturn`,
`ClosedRunsEnd` and `Terminates` (fairness and `ENABLED` are out of the prover's reach);
and the second half of `EnumeratesAll` of `SBPMESched`, that no schedule is missing at the
end: it is not true of all inputs (finding 3), and `sbpme` compares the generator with the
reference definition where it is. Every other invariant and action property of a passing
run is stated by a theorem.

## 6. What is not modelled

* *Static analysis*: scripts over the output of SVF.
* *In the pass*: reading ConConfig, the hash of a location, calls from function to
  function, calls that only write the trace, the compiler wrapper. `std::thread`
  and other interfaces are not seen by the pass itself.
* *Data races on the maps*: running threads look up `std::map`s while a child
  inserts. The handshake serialises the inserts only; a model of the tree's
  nodes would be needed.
* *The released maps* (`RT` 70-71, 344-376): a walk over a destroyed `std::map` and lookups in
  one are undefined. `TestProcess` lets each lookup of a number find its entry or not and
  takes the walk over `mapTid` to find all; other outcomes (a number that was
  overwritten, a crash) are not modelled. A program with one created thread and without ASAN
  crashes there with g++ 12 and is not among the instances.
* *Prefixes of another kind*: a run whose program had threads beyond the default run's N gives
  a prefix with them, and a schedule with a mixed end of fewer periods may be a
  prefix with two threads in its last one; `SBPMESched` has prefixes of one thread per period
  and threads of the scheduler only. What the constructor refuses behind a prefix has no reference
  definition; `RefusedRightly` is about schedulers without one.
* *In the runtime*: the trace file; the one-second wait for threads that were not
  joined (`joinable`); locks of the tested program held across periods.
* *In the driver*: the *directed mode* (`VarModeFlag = 1`): it looks up the hashes of
  the chosen variables in an array that does not hold them (number 5 above), finds no
  combination and stops after two periods. Reproduction (`-r`).
* *BPSched*, several threads in a period: used by no driver.
* *Older drivers* and *debug runtimes*: superseded by what is modelled.
* `SAME_THREAD_CONSIDER` and its code are compiled out.

## 7. Plan

Done, in this order: handshake with proofs; key points with proofs; the
scheduler and the generator of interleavings; the exploration loop; the abstract
run of a schedule; pass, deadline parameters and executions, composed into a
session; the limit on runs, and proofs about the exploration loop; proofs about
the pass, the session and the schedule a test runs; proofs about the scheduler.

Next modules:

1. `BPSched`: several threads in a period.
2. Reproduction of a saved pattern, in `TestSession`.

Next proofs:

1. `SBPMESched`: for threads in at most two periods each, where `_next_sched` reaches every
   distribution, that no schedule is missing.
2. `KeyPoints`: all of it with the loop bound in place of `PathsFit`.
3. `DeadlineParameters`: the greatest number of threads for each number of CPUs.
