# A TLA+ model of dst-rs

dst-rs is a toolkit for deterministic simulation testing in Rust. Its library,
`navian-dst`, gives a test a single-threaded executor with a virtual clock, a
seeded random source, a network that misbehaves on schedule, and a minimizer
for failing fault schedules. Its command line tool, `navian-dst`, finds
nondeterminism in a code base, rewrites what it safely can, and checks that a
command behaves the same twice.

The specifications here are translated from the source under
`src/crates/navian-dst/src` and `src/crates/navian-dst-cli/src`. TLC checks them
on small instances; TLAPS proves, for instances of every size, the executor correct with
respect to an abstract one, and most of the safety invariants of the others: of the
minimizer and the planted bug it is tried on, the clock and the random source, the network,
the engine and the example race, the runs of `check`, its verdict and what it prints, `migrate`'s
plan, files and diff, `init`, the scanner, its output formats and the gates. `PROJECT.json` lists the components, the
runs, the source lines behind every definition, and the hazards that the
properties are about.

## The system

### The library

| Component | State | Operations | Interacts with |
|---|---|---|---|
| `SimScheduler` (sim_scheduler.rs) | per scheduler: parked futures, FIFO queue of task ids, next id; per OS thread: clock, timer heap, timer sequence, RUNNING flag | `spawn`, `run`, `yield_now`, `sleep`, wakers | other schedulers of the thread (through the thread-locals), tasks' own code |
| `SimulatedTime` (time.rs) | a watch channel with the clock, start, high-water mark of instants | `advance_ms`, `set_to_ms`, `instant_now`, `sleep` | threads that read it, the harness that moves it |
| `timeout`, executors (executor.rs) | a spawn counter | `timeout`, `spawn` | `Time::sleep`, tokio |
| `SimulatedRandom` (random.rs) | ChaCha20 behind a mutex, UUID counter | `next_u64`, `next_uuid`, `shuffle_u64` | any thread |
| `FaultSchedule` (schedule.rs) | a list of faults, fixed | `generate`, `at`, `fault_steps`, `without_clock_skew` | seeded from `SimulatedRandom`, read by `SimulatedNetwork` |
| `SimulatedNetwork` (network.rs) | a schedule and an atomic step counter | `send`, `reset` | callers that retry |
| `ddmin` (shrink.rs) | locals | `ddmin` | the caller's predicate |
| `InvariantEngine` (invariant.rs) | a list of closures | `check`, `check_all` | the harness |

### The command line tool

| Component | State | Operations |
|---|---|---|
| `check` (check.rs) | a child process, two pipes, two reader threads, a deadline | run a command N times, compare the outcomes |
| `migrate` (migrate.rs, main.rs) | files on disk and their originals in memory | plan a rewrite, write it, gate it with cargo, restore |
| scanner of one file (scanner.rs) | the file's own names and renames, the stack of functions and of their hash containers, findings | the pre-pass, the walk of the syntax tree |
| scan gate (scanner.rs `scan_path`, baseline.rs, main.rs) | a report; a multiset of accepted findings on disk | `scan`, `scan --deny --baseline`, `baseline` |
| presence (presence.rs) | a bracket count; per file, its own definitions and the signals found; a report of simulation sites | `invariants`, `invariants --deny` |
| review (review.rs) | per file, a stack of invariant sets; a report | `review` |
| init (main.rs) | two files on disk | `init` |
| output formats (main.rs, scanner.rs) | - | `scan --format github`, text, JSON, SARIF |

### What is hard about it

* **Wakes.** A task id can be queued several times, and a token or a timer can
  outlive the suspension, the task, or the `run()` it was made for.
* **Shared thread-locals.** Two schedulers of a thread share clock and heap;
  a panic ends one `run()` in the middle and another one starts from what is left.
* **Separate reads.** `SimulatedTime` and `SimulatedNetwork` are lock-free:
  reading the clock and the mark, or taking a step and using it, are two steps
  with other threads in between.
* **Numeric edges.** Clocks saturate, wrap or overflow; UUID bits are masked;
  ddmin divides and rounds.
* **Names instead of types.** Scanner and planner see syntax: nested expressions
  start at one position, a local of one name lives in several functions, an edit
  contains another, a struct shares its name with one in another module.
* **Gates.** A gate that is green must have seen what it vouches for, whatever
  could not be read and whatever became of its baseline.
* **Harnesses.** A predicate with a memory, an early return of the engine, a schedule
  whose noise hides the fault that matters, a race that only some leads expose.
* **Limits.** A diff too large for its table, brackets too deep for the parser, escapes
  made of the character they escape.
* **Processes and files.** Pipes fill up, a grandchild keeps them open, a
  deadline passes between two looks; a write fails half way, a process is killed.

## Modules

| Module | Models | State and actions ↔ code |
|---|---|---|
| `SimScheduler` | the executor on one OS thread | below |
| `VirtualExecutor` | what the executor promises, with no queue, waker or timer | abstract specification |
| `SimSchedulerRefines` | the refinement mapping from the former to the latter | - |
| `PollOrder` | `SimScheduler` with history variables for the orders `yield_now()` and `sleep()` promise | - |
| `Ddmin` | `ddmin`, one evaluation of the predicate at a time | `current`, `granularity` are the locals; `start` is the loop variable of both `for` loops; `pc` which loop |
| `SimulatedTime` | `SimulatedTime` and `timeout` | `ReadClock` and `FetchMax` are the two accesses of `instant_now()`; `SleepBegin`, `Subscribe`, `Elapsed`/`NotElapsed`, `Changed` are the lines of `sleep`, between which the clock may move; `FutureWins` is the other branch of `timeout` |
| `SimulatedRandom` | the shared random source | `Lock`, `FetchCounter`, `DrawAndUnlock` are the steps of `next_uuid` |
| `FaultSchedule`, `Delivery` | a schedule, and what a send makes of a fault | operators, shared by the three modules below |
| `SimulatedNetwork` | the link over a fault schedule, and clients that retry (hello_retry.rs) | `Send` is the `fetch_add`, `Outcome` the match on the step's fault and the client's two looks at the result |
| `InvariantEngine` | `check` and `check_all` over one evaluation | operators |
| `InvariantRun` | an engine over the steps of a run, one of its predicates with a memory | `Step` is one step of the world and the call after it |
| `StaleCacheRace` | the reader/writer race of the example | a task runs from one yield to the next in one step, in the order of the FIFO queue |
| `PlantedLedger` | the test that catches a planted bug: schedule, link, engine and `ddmin` | extends `Ddmin` with a predicate that runs the ledger |
| `CheckRun` | `run_once` of `check` | `pc` follows its two phases; the reader threads and the child's family are processes of their own |
| `CheckCompare`, `LineDiff` | `run_check`: the runs of one command, the filter, the comparison, the exit code and the diff | a step is one run of the command, or the verdict; the diff is the walk through the table of longest common subsequences |
| `MigrateApply` | `migrate` from plan to exit code | one action per file written or restored; cargo, failing writes, a kill and another editor are the environment |
| `MigratePlan` | what `migrate` does to the code | `Migrate` is one run of `plan_sources`, by way of an operator for each of its decisions; `WriteCall` and `WriteLiteral` are developers between two runs |
| `MigrateDiff` | the hunks of the diff `migrate` prints | `i`, `first`, `end` are the indices of the loop of `unified_diff` |
| `Scanner` | the scanner on one file | `NextLine` and the actions on it are the statements of the file; `VisitCall` and the like are the visitor's methods, one syntax node a step; `map_vars`, `fn_stack`, `leaks` are its fields |
| `Fingerprint` | the identity of a finding | developers move and reformat two calls (`Move`, `Reformat`); the fingerprint is computed of each |
| `Annotations` | `--format github` | a finding printed a step; texts are sequences of characters, the ones that matter told apart |
| `Gates` | `scan`, `baseline` and `invariants` on a tree that changes between them | `Scan`, `Baseline`, `Invariants` are the arms of `main`; files hold findings and signals instead of text |
| `NestingDepth` | the scan for files nested too deep for the parser | a bracket a step |
| `Presence` | `check_source`: the walk that decides whether a file simulates, and asserts | a file is edited and read again; the visitor's methods are recursive operators over trees |
| `Review` | `review`: extraction of invariants, and what is weak about each | macros entered and left, constructions, ends of files: the visitor's path |
| `Scaffold` | `init` | one action per step on a file; developers write and delete meanwhile |
| `SimSchedulerProofs`, `ShrinkProofs`, `ProvidersProofs`, `HarnessProofs`, `CheckProofs`, `MigrateProofs`, `ScanProofs` | theorems about the run roots, or the modules, that they extend | - |
| `LineDiffProofs` | theorems about the diff, for `CheckProofs` and `MigrateProofs` | - |
| `MC...` | values of constants, symmetry sets, and the roots that TLC runs | below |

A definition preceded by a comment that begins with *Mutation* is a plausible
mistake in the definition that follows it; substituting it makes a property
fail, which shows that the property depends on that piece of code. Every `TypeOK` is
a part of a checked property or of a proved invariant.

**Roots.** `MCProviders`, `MCHarness`, `MCCheck`, `MCMigrate` and `MCScan` bring
together the components of one part of the system that share no state
(`review` is with the harnesses, whose invariants it looks for): either they run at different times, or the later one knows the earlier one by
its result. Their variable `part` is chosen in `Init` and says whose steps are taken
in a behaviour; the others stay in an initial state. So the states of a run are the sum of
those of its parts and not the product, and a property of a part says about it what
it would say alone. Where a later stage abstracts from an earlier one, a property
relates the two: `SitesAreRight` shows that the verdicts `Presence` reaches by
walking trees are those that `Gates` computes from signals. Components that do
interact are composed by `EXTENDS`: `PlantedLedger` with `Ddmin`, the harness modules with
`FaultSchedule`, `Delivery` and `InvariantEngine`.

### SimScheduler

`task[s][i]` is what is in `tasks` under id `i`: absent (never spawned, taken out
for the poll, or finished) or a future, known by what it is suspended on. A
future is `new`, in `yield_now`, or waits for a registered `Sleep`, for an event
of the user's, or for the first of the two. `ready[s]` is the queue, duplicates
and stale ids included; `timers` is the heap. `epoch` remembers which `run()`
registered a sleep and is only read by properties.

`PopReady` is one turn of the loop: it takes an id and polls. Polling a future
that nothing has made ready leaves it parked, so the turn ends there; otherwise
the task's own code runs (`pc = "poll"`) until `Yield`, `AwaitEvent`, `SleepFor`,
`Complete` or `Panic`. In between it may wake others (`Notify`), spawn into
another scheduler, or call `run()` and catch the panic of the assertion
(`NestedRun`). `FireTimer` and `Finish` are the branch for an empty queue.

The counter `steps` is left out. A `Sleep` is polled only by the task that made
it.

`VirtualExecutor` has tasks that are unborn, ready, running, waiting or over,
deadlines, and a clock. It polls only tasks that can progress, moves the clock
only when there are none and never past a deadline, and ends a run only when
neither is possible or by an abort. In the mapping, a task is *ready* when its
suspension is over, whether or not it is queued; the correspondence fails as soon
as a wake is lost, a spurious wake resumes a task, or the clock runs ahead. It
also says that a step of one task leaves the suspensions of the others alone.

### The harness modules

`InvariantRun` is the counter of invariant.rs's own tests: a predicate that compares
with the value it was last shown, next to one without memory, in either order of
declaration, evaluated by `check` or `check_all`. `StaleCacheRace` takes the numbers of yields
that the seed decides as initial values, all of them. `PlantedLedger` computes a
run of the ledger from its schedule with a recursive function; `ddmin` is called with the
positions of the fault points, as the test does, and with every predicate of
anybody else's.

### check

`CheckRun` looks at one run from the inside; its outcome is a status, the bytes, and
whether it was killed. `CheckCompare` takes outcomes as they come. Its output is
bytes, two of which are line ends, so that what the filter does to a text that
is not terminated, or ends its lines with CR LF, is part of the model.

### MigratePlan, Scanner and Gates

What these three commands see of a program is abstracted to what decides:

* `MigratePlan`'s constants are the definitions, impl blocks, literals, calls and
  imports that may be written; the variables say which of them are there and what
  has become of them. Text positions matter in one respect only, whether an edit
  lies inside the text another one replaces: `around` says so.
* `Scanner`'s files are sequences of statements. An expression is a path, or a call
  of one, under wrappers (`&`, method calls); nodes that share a start share a
  position. Statements are chosen as the walk reaches them, so every file of up to
  `MaxLines` statements is scanned. The classification of paths is the whole
  table of the code, in its order.
* `Gates`' files are a sequence of fingerprints and a set of signals for `invariants`.

### Presence and Review

`Presence`'s items are trees of definitions, paths, calls, methods, macros, arrays and
parentheses; a macro says whether its body parses as expressions, for syn cannot see
into others. Types, attributes and patterns have a part in a verdict by their paths only
(presence.rs:546): such a path is an item like any other. `Review`'s predicates
are closures whose bodies are built from what the analyses tell apart: literals, an
expression that reads the state, one that may return early or panic, one that names
its parameter only in a format string. A macro is an expression or a statement of a block,
for syn's visitor meets the two in different methods. An expression is a row of a table (`Exprs`), whose
parts are rows before it; the analyses are recursive functions on the rows. The *truth* of
a predicate, against which its flags are checked, is defined apart from them (`Value`).

## Runs

| Run (root) | Property | What it says |
|---|---|---|
| `SimScheduler` (`MCSimScheduler`) | `NoLostWakeup`, `NoLostSleeper` | a task that can progress is queued; a sleeper keeps its timer until its deadline and a token from then on |
| | `ImplementsExecutor` | every behaviour is one of `VirtualExecutor` |
| `SimSchedulerLive` (`PollOrder`) | `NoStarvation`, `SleeperResumes` | a task that can progress is polled though others yield forever; a sleeper resumes once the queue drains |
| | `YieldGoesBehind` | a yield goes behind all that were ready |
| | `SleepersWakeInOrder` | sleepers resume by the instant they sleep until, and of one instant in the order in which they fell asleep |
| `Shrink` (`MCPlantedLedger`) | `StillReproduces`, `OneMinimal` | what `ddmin` returns fails, and loses that with any element |
| | `FailuresAreShrunk` | it returns, within `MaxEvals` evaluations of the predicate; every failing schedule is shrunk |
| | `BlamesTheCrash` | the buggy ledger is reported exactly at the first crash of its schedule, the correct one never, and what is left of a failing schedule is one crash |
| `Providers` (`MCProviders`) | `PairedInOrder`, `DistinctNearby` | counters and draws of UUIDs pair up in one order; UUIDs of close invocations differ |
| | `InstantMonotonic` | instants do not decrease across threads, whatever the clock does |
| | `SleepersReturn` | no step misses a change of the clock; sleepers wake; a timeout whose future is ready returns |
| `Harness` (`MCHarness`) | `FencedNeverStale`, `PlantedExactly` | the fenced cache is never stale; the planted one exactly when the commit fell into the reader's window |
| | `FaultsHitOnce` | a fault hits at most one send per playing of the schedule |
| | `ClearMeansOk` | a client returns `Ok` exactly when the link was clear to one of its sends |
| | `EveryoneGetsThrough` | a client whose attempts outlast the schedule does |
| | `ReportsAreExact`, `OnlyTheSecondLags` | `check` reports the first broken step, `check_all` everything; only a predicate behind another lags, only under `check`, only after a violation |
| | `ReviewExact` | every invariant once; duplicates within a set and no other; a tautology is true, an ignored state does not matter |
| `Check` (`MCCheck`) | `ResultsAreWhole` | a run's output is complete, nobody is left a zombie, who was over in time is not reported as timed out |
| | `ReturnsInTime` | no run outlasts its deadline, and a run that does not return has a cause |
| | `ExitIsRight`, `OutputIsExact` | exit code and named run say how the runs differ; the filter removes the lines that match and nothing else, and the diff is one of the two outputs |
| `Migrate` (`MCMigrate`) | `FailureRestores`, `SuccessIsChecked` | a failure leaves the old files, a success is a tree that cargo has passed |
| | `PlanComplete` | seams are complete: a rewritten call has its field, its builder, its literals and its imports |
| | `EndsReported` | every leak ends rewritten or reported |
| | `PatchGivesNew` | applying the hunks to the old file gives the new one, and the hunks are apart |
| | `ScaffoldsSafely` | `init` keeps what was there, and tells of a file it has torn |
| `Scan` (`MCScan`) | `FindingsExact` | the strongest match at each place; iteration of just the hash containers |
| | `IdentityIsStable` | a finding that moves or is indented keeps its fingerprint; fields cannot be confused |
| | `OneAnnotationEach` | reading the workflow commands back gives the findings |
| | `DeniesExactlyNew` | `scan --deny --baseline` fails exactly for what is new |
| | `GreenInvariantsAssert` | a green `invariants --deny` has seen everything, and an assertion in every simulation; gate lines agree with exit codes |
| | `WrongByTextOnly` | the bracket scan is wrong by at most the brackets in strings and comments |
| `Presence` (`MCPresence`) | `SitesAreRight` | the visitor's verdict is the one `Gates` computes, and more code makes it no worse |
| `HarnessMacro` (`MCHarness`; violation) | `NoMacroIsPure` | "no calls, method calls, macros ..": no macro in front of `\|\| true` can panic |
| `GatesUnwalked` (`MCScan`; violation) | `GreenMeansSeen` | "the gate cannot certify a tree it never saw" |
| `MigrateUnrestored` (`MCMigrate`; violation) | `RestoredMeansAll` | "ALL original files RESTORED" |

The instance of a run is described at the head of its `.cfg`.

### Why the bounds are enough

* `SimScheduler`: a lost wake needs one task to be overtaken by another, a stale
  token one event wake; a timer of the wrong scheduler needs two of them; what a
  panic leaves behind needs a second `run()`, and to be met by the first scheduler
  after the second has reset the clock, a third. With two durations and a third
  value that overflows, deadlines can be equal, ordered, or wrap. Three tasks
  (`SimSchedulerLive`) let one wait while two others take turns, and two of them sleep until the
  same instant while a third gets ahead or in between.
* `Shrink`: 7 elements give chunks of 4, 3, 2 and 1 and a shorter last chunk; the
  predicate answers as it likes, but consistently. A ledger of 8 steps has a crash
  first, last and between other faults.
* `Providers`: five draws of two words repeat words, and pass the four numbers that the
  variant bits leave of a byte of 16. One move of the clock can satisfy a deadline and a
  second take it back; the durations fit, make the sum overflow, or are truncated by
  `as i64`. The clock starts below zero, so that its distance from the start
  saturates, and the largest `Instant` comes before the largest clock value.
* `Harness`: the bounds of the race are those of the example. A counter of three values
  can rise, fall and stay, below, at and above its cap; three steps are a violation, a step that
  lags, and one after. Schedules of four steps let each of two callers of the network meet a
  fault, be overtaken, and meet another after a rewind. Nine attempts are one more than two
  playings of four steps, so that such a client must get through. Two files, three invariants and
  three macros give `review` a set within another, after it, and in another file; what is
  weak about a predicate does not depend on where it stands, so each of them stands alone, and
  in the sets there are two.
* `Check`: a pipe of one byte blocks a writer of two. Three runs are the fewest of which the
  second may agree and the third differ. Four bytes are a line with each ending and an
  unterminated one.
* `Migrate`: three files are the fewest with one written, one torn and one
  not reached; two crates the fewest of which one can be left unchecked. A chain with a
  rewritten call, a skipped call and a literal in its arguments has every kind of
  edit that can overlap it; a second impl and a second file tell the builder's place from the
  rewrite's; the two structs of one name show that the guard of `SeamComplete` is
  needed. With one line of context on either side two of six lines can be hunks of their own
  or one; the code's three lines change where, not whether. Two files to write and three
  runs of `init` let the first be torn, met by the second run, and removed before the third.
* `Scan`: four statements are a function inside or after another, a local bound in
  one of them and its iteration. Three levels of wrappers make three nested nodes at
  one position, of all severities. With two leaks a file, a finding can be doubled in
  place, move to another file, and be exchanged for one of another fingerprint. Eight
  brackets go over a limit of three, come back, and hide two levels behind brackets in text.
* `Presence`: three items are a definition, a simulation and an assertion, in
  every order.

The bounds themselves are the names `Max...`, `N...`, `CAP`, `Cap`, `CTX`, `STEPS`,
`Words` and `N`; each is commented where it is declared.

### Fairness

* `SimScheduler`: weak fairness of the loop of `run()` and of the end of a poll. The
  thread keeps executing, and a task's code reaches its next suspension point. No
  fairness among tasks is assumed: that is what `NoStarvation` shows.
* `SimulatedTime`: an executor polls a task whose waker was called. The harness need
  not move the clock.
* `Ddmin`: the function keeps running and the predicate answers.
* `MigratePlan`: `migrate` is run again and again, as the tool recommends for what it
  reports; nobody has to write code.
* `SimulatedNetwork`: callers keep retrying. The harness need not rewind.
* `CheckRun`: the threads run, time passes, and the child does what it has to
  unless a pipe blocks it. Nothing is assumed of the grandchild.

In a root, these conditions are those of the part that runs.

### Where deadlock is not checked

A scheduler may stay idle, a function returns, a process exits, a file ends, a report
is printed, a stream of draws is used up, every task sleeps past the last move of the
clock: a state without successors is an end. Each `.cfg` that says so names the end. Where
something must not get stuck before its end, a liveness property says so
(`FailuresAreShrunk`, `SleepersReturn`, `EveryoneGetsThrough`, `ReturnsInTime`,
`EndsReported`).

## Disagreements with the comments

Three are runs that TLC refutes.

`GatesUnwalked`: `scan_path` drops the errors of the walk (scanner.rs:930), so that
`scan --deny` is green on a tree with a directory it could not read; main.rs:437-438
says of the exit code 2 that "the gate cannot certify a tree it never saw", and
presence.rs:282-285 says why its own walk of the same tree records such errors.
That walk is checked by `GreenInvariantsAssert`, which fails when it drops them, too.

`MigrateUnrestored`: `restore` drops the results of its writes (migrate.rs:520), yet the
report says "ALL original files RESTORED (nothing applied)" (main.rs:814).
`FailureRestores` names the exception.

`HarnessMacro`: `is_pure_operand` (review.rs:465-492) looks for macros in
`visit_expr_macro` alone. A macro that is a statement is a `Stmt::Macro` to syn and does not
get there, so that `{ assert!(w.ok); w.a > 0 } || true` is pure and flagged as a tautology,
though it panics where the assertion fails; the comment (461-464) says "no calls, method
calls, macros, indexing, `?`, or `.await`", for "a panic there would make the predicate
failable". `ReviewExact` holds but for what `Excused` names.

Others were met on the way. They are visible in the models, as behaviours that
the properties had to allow:

* After a `run()` that panicked, the next one empties the heap (sim_scheduler.rs:178)
  and keeps the parked tasks. Their sleeps stay registered and nothing wakes them:
  `run()` returns with sleepers in the map, though it runs "every task (and its
  descendants) to completion" (153). `NoLostSleeper` speaks of the sleeps of the
  `run()` in progress.
* `tokio::select!` without `biased` (executor.rs:48) decides by a coin when both the
  future and the deadline are ready at the poll; `timeout` says it returns `TimedOut`
  "if `duration` elapses first" (29-30). `Elapsed` and `FutureWins` are both enabled.
* The variant bits (random.rs:159) overwrite two bits of the UUID counter, so that
  invocations 64 apart are told apart by their draws alone, though "different
  invocations always produce different UUIDs" (49). `DistinctNearby` says what holds.
* `rand::random()` has no guard (scanner.rs:1215-1218): with a `mod rand` in the file it
  is High, though "a High rule must never fire on benign/shadowed/foreign code" (40-41).
* A rewrite that is dropped because an edit lies inside its text (migrate.rs:1453) is
  counted as rewritten and not reported (352); a later run does it (`EndsReported`).
  A skipped call or a literal inside a chain that is replaced disappears with it.
* `system_now_root` (migrate.rs:1108) does not look at the arguments of the chain:
  the milliseconds since any other time become `now_ms()`, too.
* `yield_now()` goes "behind everyone ready now" (sim_scheduler.rs:233) only if its
  task is not queued already; wakers do not deduplicate (82-85). `YieldGoesBehind`
  says so.
* The "wake order is by (deadline, registration-seq)" (236-237) of timers, and not always of
  sleeps: a task that holds a timer for that instant already, of a `Sleep` it has dropped, or
  that somebody wakes at that very instant, resumes ahead of those that fell asleep before
  it. `SleepersWakeInOrder` excepts both.
* A sleeper whose deadline has been reached is "woken when the clock reaches the
  deadline" (241-242) only once the queue has drained. `SleeperResumes` says so.
* `sleep` cuts its duration to an `i64` (time.rs:194): 2^63 ms or more is no sleep at
  all, though a sleep lasts "at least `duration`" (41).
* A clock moved past a deadline and back before the sleeper is polled wakes nobody
  (time.rs:197), though sleepers wake "when the clock passes their deadline" (89-90).
* `migrate` writes files in place and keeps the originals in memory: killed between two
  writes, or while cargo runs (migrate.rs:445), it leaves a tree that may not compile, or
  one that nothing has checked, though "the tree is never left broken" (37). Only one
  package's manifest is checked (447), whatever packages the plan has changed
  ("never leaves a tree where `cargo check --all-targets` fails", 456-457);
  `SuccessIsChecked` speaks of the covered crates.
* `run_once` "returns Err only when the process could not be spawned" (check.rs:210),
  but also when waiting fails (261, 281, 286), and then leaves the child alone.
* A child that exits between `try_wait` and the kill (check.rs:281-285) is reported as
  timed out although it was over when the deadline was looked at; `OverInTimeCounts`
  leaves out that window.
* The maximum with 2 in shrink.rs:90 never decides: at granularity 2 the complements
  are the chunks that have just been seen to pass.
* `filter_stdout` cuts a CR at the very end of the output (check.rs:86), which
  `str::lines()` keeps, though it is meant to see lines as that does (75-76). A diff of
  outputs that differ only in a CR before CR LF shows every line as equal
  (107; 101-102); the verdict that they differ is right.
* A file that defines an `Invariant` of its own and uses the crate's by its full path is
  `MISSING` an assertion (presence.rs:560), though that verdict "must never fire on a
  file that genuinely asserts" (39-40).
* Closing brackets in strings and comments hide depth from the scan that guards the
  parser (presence.rs:164), which is called "a deliberate over-approximation" (149).
  `WrongByTextOnly` bounds how much.
* `review` calls `|| true` a tautology also behind an operand that may return, or panic in
  an arithmetic operation (review.rs:465; macros that are statements, above), though only "a predicate that can never be
  false" is meant (434-435). It says of a predicate that names its parameter only inside a
  format string that it ignores it (561), though a false negative is accepted "rather than
  risk a false positive" (36-39). `FlagsAreSound` excepts all four forms.
* `init` leaves existing files alone (main.rs:696-697), but a file that appears between its
  test and its write is truncated (720).
* A finding that moves keeps its fingerprint, "the file reformatted" included
  (scanner.rs:847-850), only if the call is not broken over lines, for the snippet ends with
  the first of them (1585), and gets no space where there was none, for runs of spaces are
  collapsed and none is removed (860). `MovesKeepIdentity` excepts both (`Wide`).

## Proofs

The proofs assume of the constants what the named `ASSUME` of the component's module or of
the root says, and nothing else. Where a root brings parts together, a step of another part
leaves the invariant's variables alone, so each invariant is that of its part.

**Recursion.** TLAPS has no induction over data here. What a model computes recursively is a
recursive *function*, and what is proved of it is proved by the least counterexample:
a set of naturals that is not empty has a least element (`Least`, `Lowest`, `Smallest`, ..: the
well-foundedness of `<`), and from the length before it the step of the recursion gives a
contradiction. `Carried` in `ScanProofs` shows in this way that a recursion from position to
position has a function that satisfies it, so that a `CHOOSE` of one may be used.

**SimSchedulerProofs.** `TypeCorrect` proves `TypeOK` for any number of
schedulers, tasks, wakes, runs and any width of the clock. The other theorems rest
on one inductive invariant, `IInv`. `NoLostWakeup`, `NoLostSleeper` and `NoOversleep`
are not inductive by themselves: that the timer of a sleeper fires no later than
its deadline needs every timer in the heap to be at or after the clock; that
firing it re-queues the right task needs timers to name tasks that exist; that a
task is never polled twice needs the polled task to be absent from the map while
`pc = "poll"`, and `RUNNING` to agree with `pc`. `IInv` is the conjunction of `TypeOK`,
`Control` (`RunningExact`, and `pc`, `sched` and `cur` agree), `Unborn` (an id that was not
handed out names no task, token or timer), `Epochs` (no future knows a later `run()`;
sleepers of the one in progress belong to its scheduler), `TimersAhead` (no timer in the
past), and the three properties. Each action of `Next` is a lemma or a step; those that
only move control are dispatched together. `ReturnsQuiescent` is an action
property: `Finish` is the only step from the loop to idle, its guard is that queue
and heap are empty, and `IInv` then leaves nobody woken or sleeping.

`Implements` is the refinement for any set of schedulers, any
clock and any bounds. `Inv` adds to `IInv` that the
future being polled is out of the map (`Polled`) and that only a suspended future
waits for an event (`EventsAwaited`). The abstract variables are tables of tasks
(`Lives`, `Dues`, `Armed`); `OneTask` and `NoTaskTouched` reduce a step to the one place
where it changes them. Then each action of the scheduler has a lemma that names the
abstract step it is: `PopReady` is a resumption or, for a spurious token, a stutter;
`FireTimer` is a move of the clock, which the abstract executor allows only when nobody
can progress, so that `NoLostWakeup` and an empty queue are needed; `Finish` is a return,
which needs `NoLostSleeper` as well.

`YieldsGoBehind` is about the scheduler with the history variables of `PollOrder`. `OrderInv`
adds to `Inv` the type of the history and that whoever a task is to go behind has a token in
front of every token of its own (`StillInFront`). A pop takes from the front alone and a wake
appends, so both preserve it.

`WakesAreOrdered` follows a sleeper from the heap into the queue. `SleepInv` adds to `Inv` that
whoever fell asleep before it until the same instant sleeps still and wakes first
(`EarlierFirst`): its timer goes before all timers the other has for that instant, and until it
fires the other is not queued at it; or it has fired, and a token of the one stands in front of
every token of the other (`WakesFirst`). A timer that is registered has the largest number so
far (`SeqsBelow`, `FallsAsleepLast`), one that fires queues its task behind all others
(`FireKeeps`), and a task resumes only by the front of the queue (`LeavesByPop`).

**ShrinkProofs.** `Invariance` shows that what is remembered of the passes is
enough: in the loop over the complements, the complement of every chunk before
`start` is in `no`. When the granularity has reached the length, chunks are single
elements, so at `Stop` every removal of one element is in `no`: `ReturnsOneMinimal`.
`ReturnsFailing` and `ReturnsInOrder` are its other conjuncts. Lemmas give the
elements of chunks and complements and that concatenation keeps them in order. `IInv` is the
conjunction of `TypeOK`, `StillReproduces`, `OrderPreserved`, `EmptyTried`, `InLoop`,
`RemovalsTried` and `OneMinimal`.

`ACrashIsBlamed` is about the test that plants a bug, for a schedule of any length. A ledger
that loses what it has not persisted is behind only at a crash (`OnlyCrashesDrop`), and a
count of what is durable falls short at the first one (`FailsAtFirstCrash`, by the least
step at which engine and schedule disagree) and never without the bug
(`CorrectIsDurable`); so `reproduces` holds of just the sets with a crash among them, and 1-minimality
leaves one element. `LedgerInv` adds to `IInv` that the predicate has answered as the ledger
does.

**ProvidersProofs.** `PairsKept` needs mutual exclusion (`Exclusive`) and that
whatever was issued is older, in the stream and in the counter, than what the holder
of the mutex is about to use (`Past`). `NeighboursDiffer` adds arithmetic: numbers less
than `Low` apart differ modulo `Low`, and a remainder is recovered from `Masked`.

`InstantsNeverGoBack` is an action property, with `TimeInv` for its invariant: nothing that was
returned, and nothing that was when a call in progress began, is ahead of the mark as an
`Instant` (`Returned`). It needs that `InstantAt` is monotonic where the clock is beyond the largest
`Instant`, which rests on the binary search: `SearchFinds` shows that `Search` returns the largest
representable offset, by the narrowest interval for which it would not. `NoWakeupMissed` needs that no receiver
has seen a version still to come (`Seen`).

**HarnessProofs.** The two tasks of the race take turns, so how often each has been polled tells
where the other stands (`Turns`); `Data` says what store and cache hold at each such
place. `Fenced` and `Planted` follow for every number of yields, not only those that the
seed gives. `Missed` says that the reader never finds an entry: the hit path of the
example is not taken by any seed.

`SecondLags` and `Reported` are about the engine over a counter of any range and a run of any length:
what `check` and `check_all` say of two predicates, in either order (`CheckOfTwo`,
`AllOfTwo`), and that the memory of the second follows (`CounterInv`).

Of the network: a send consumes its step before it knows the outcome, so the sends
under way are counted with those that have failed: `Charged` bounds their sum by the
faults of the playings that are over and of the steps consumed in this one. From it
`EachFaultOnce`. `ClearIsReturned` needs that the client's two looks at an outcome,
`is_delivered` and `is_retryable`, exclude each other and leave nothing between
(`NothingBetween`), for every fault there is.

`ReviewsExactly` is `ReviewExact` for any tree and any table of expressions. The recursive
functions on the table exist (`ByParts`, `Climbed`) and an expression is what its parts make it
(`KindsAre`, `TrueAre`, `ValuesAre`); the lowest row that would be an exception then cannot be one, so that what the
analyses call true is true (`TautologyIsTrue`, which needs that a pure operand does not
panic unless by what `Unnoticed` lists, `PureIsPlain`) and what does not name the state has one value (`UnusedIsConstant`).
`ReviewInv` is about the walk: the stack of sets is that of the macros that are walked
(`MacrosFit`), what is reported are the lines that count (`LinesFit`), and a scope stands for
one macro or for one invariant (`ScopesFit`), which needs that a file is walked one time
(`FilesFit`) and that ids are not used again (`StackFits`). `SortedIs`: what is extracted can be put in
order, by insertion, so sorting keeps it all.

**LineDiffProofs.** The diff is a walk through a table of lengths of common subsequences, and
both are recursive functions (`Tabled`: the table is the one function that satisfies its equation). `DiffIsScript`
follows the walk by its positions in the two texts and the number of kept lines still to come:
what it has yielded is a script whose two sides are what has been passed of the texts. `DiffTakes` says that the lines
kept or deleted are the old text and those kept or inserted the new, `DiffKeepsMost` that no
script of the two texts keeps more lines, by the least cell of the table that is too small for one.

**CheckProofs.** `RunsAreWhole` holds for any pipe and any output. `RunInv` counts bytes:
what was written to a pipe is in it or in its reader's buffer (`BytesCounted`), a reader that
has sent has left nothing behind (`SentIsAll`), and what `run_once` knows of the child is
true (`ControlKnows`). `OverInTimeCounts` is not inductive; `OverIsOver` adds that nothing of what
was over in time starts again. `ExitsRight` needs that no comparison begins before the last
run is in (`Collected`), and that the first run that differs is the least such
(`CompareConcludes`).

`OutputsAreExact` is `OutputIsExact` for any outputs, patterns and number of runs. `ReportTells`: the report
speaks of the first run and the one that differs. `FilterKeepsAll` goes backwards through an
output: from any place on, `Canonical` keeps the lines that start there and do not match,
with their ends, and that of an unterminated one. What is then shown of the two is `DiffTakes`
and `DiffKeepsMost`, or, beyond the limit on the table, the first line in which they differ
(`FallbackFinds`). Outputs are assumed to be sequences.

**MigrateProofs.** `Progress` says how far the two loops over the plan have come,
`Outside` that files not in the plan are left alone, `Outcome` and `ExitCode` what a result
stands for after the loops are over; `FailurePutsBack` and `SuccessWasChecked` follow from
their conjunction, whatever fails or is killed or saved in between.

`PlansFitTogether` is `PlanComplete` for any project and any number of runs. A seam of a name
is complete (`Seam`) and its literals are set (`Timed`) only if the name is defined once;
`PlanInv` adds what holds of all names: no type has two builders, no derived struct a clock, and no
literal with a base a field of its own. Developers add calls and literals in between
(`CallPreserves`, `LiteralPreserves`); a run (`RunPreserves`) rewrites a call only if the field of
its type is the clock afterwards, and then a builder is there (`BuilderIsThere`).

`DiffIsAPatch` is `PatchGivesNew` for any two texts and any context. `DiffInv` says of the loop that
the hunks so far are apart, each with a change and only kept lines before it (`HunksFit`),
where the search for the next stands (`SearchFits`), and what is known while one is extended
(`ExtentFits`). By `DiffIsScript` of `LineDiffProofs`, the lines of a hunk are what is at its place in the
old text, and what is in the new (`HunkApplies`). Texts are assumed to be sequences.

`KeepsAndTells` is `ScaffoldsSafely`: `ScaffoldInv` says of each file what `init` knows of it at
the step it is at, and whose it is then.

**ScanProofs.** `FindsExactly` is `FindingsExact` for any file. `StrongestMatch` is preserved
because `record` finds at most one finding at a place (`RecordKept`); for iteration, findings
must be traced to matches of just the one rule (`Sound`, from the classifiers: `CallsClassed` and its
like say which rules they may answer), and the scanner's containers to those bound in the
function at hand (`Scoped`: lines number the functions, the open ones apart, and a function's set
is what was bound under its number). `KnowsTheContainers` is what the scanner gets right,
`IteratedOK` what follows for its matches.

`DeniesTheNew` and `GreenAsserts` share `GateInv`. A baseline that can be read is the one that was accepted
(`StoreIsAccepted`). `RetainsTheExcess` shows of the loop over the findings that a fingerprint
is left exactly if it occurs more often than the baseline has it; `FindsThemAll` that the
report has each as often as the files do. `PassesAsserting` is the gate of `invariants`: with no
failures and nothing missing, everything was seen, and asserts.

`DecidesWithinText`: the scan's count and the true nesting differ by at most the
brackets in text, opening ones in one direction and closing ones in the other
(`CountInBounds`), which with the saturation at zero is inductive.

`IdentityStands` is `IdentityIsStable`. That a move keeps the fingerprint is about a text that is put
together and normalized by recursion: `FlattenAppend` says what one more part adds, `NormalizedAppend`
what one more character does, and two texts are `Alike` if they are the same once normalized and end in the same character, so
that they stay so whatever comes next (`AlikeGap`, `LinesAlike`). That fields cannot be confused needs of
the constants only that no rule id or function name contains the separator (`Separated`).

`AnnotatesEach` is `OneAnnotationEach` for any findings: stdout is a sequence of lines, and reading it
gives what was printed (`AnnotationsInv`). A replacement splits at any place that no match
straddles (`Pieced`, `Onward`), so that each character is escaped by itself (`Encodes`); what
was escaped is restored by induction on what remains of the escaped text (`Restores`), which
needs that the percent sign is escaped first. A line has one reading because its fields, once escaped, do not
contain the characters that separate them (`ReadLineIs`), and one more line adds its reading
to that of those before (`ReadAppends`). Texts are assumed to be sequences of their
characters, and no level to be a separator.

**Only model-checked.** Liveness everywhere (TLAPS does not reason about fairness here), with
it the bound on evaluations in `FailuresAreShrunk`. And what is computed of the trees of
`Presence`, `SitesAreRight`: its operators are `RECURSIVE`, with which TLAPS loses its SMT
backend, and an induction over trees is one over data.

## What is not modelled

* `Production*`: pass-throughs to std and tokio. ChaCha20: a stream chosen in `Init`; with
  it, which schedule a seed gives. That the sizes and signs `generate` computes from its
  draws (schedule.rs:84) stay within their documented range is arithmetic on one
  line each; every schedule is chosen in `Init`.
* A `Sleep` that is polled by one task and then moved to another (sim_scheduler.rs:266): the
  models' futures belong to the task that made them.
* kv_chaos: a put followed by a get, with crashes that clear a cache, in one
  thread; the integration tests of the command line: they run it end to end and keep no state.
* Of the scanner, what its visitor ignores: types, patterns, macro bodies. Of the planner,
  the text of replacements (parentheses, casts). Parsing itself is syn's.
* Layout: the text, JSON and SARIF formats, `explain`, the advice of `review`, the
  templates of `init`. Arguments are clap's. The editor plugin is prose.

## Plan

The library is modelled from the inside out: the executor with its abstract
specification and their proofs, `ddmin`, clock, random source and network, the engine, and the
harness made of them; then the commands. What is left, in the order of its worth:

1. Futures with an identity of their own in `SimScheduler`, so that a `Sleep` can be handed
   from one task to another.
2. `MigratePlan` composed with `MigrateApply`: what cargo refuses is what `SeamComplete`
   excludes for names that are not unique.
3. Proofs: `SitesAreRight`, with items in a table as `Review` has its expressions, where a
   part has a smaller index than the whole.
