# A formal model of compact-mcp

`compact-mcp` is an MCP server that gives language-model clients the Compact
smart-contract toolchain: it runs the external `compact` command line on files
of a workspace, limits how many such processes run at once, offers long calls as
cancellable *tasks*, and reads what the compiler leaves behind. This directory
models, in TLA+, the parts of it where steps of several actors meet: the build
gate, the task registry and its protocol, the subprocess runner and its process
groups, the server that composes them, and what calls share through files: scratch
and target directories, source files and the installed compiler. It also models what
is told of files, streams and texts: by the readers of compiler output, the formatter,
the capture of what a subprocess prints, and the analysis of source. TLC checks the
models on small instances; TLAPS proves the safety properties of twelve modules for every
value of the constants.

Paths below are relative to `src/crates/`; `core` is `compact-mcp-core/src` and
`server` is `compact-mcp/src`.

## 1. The system

| component | state it keeps | operations | modelled in |
|---|---|---|---|
| Build gate (`core/jobs/gate.rs`) | a tokio semaphore, an atomic count of queued calls | `new`, `acquire` | `BuildGate`, `BuildSlots` |
| Task registry (`core/jobs/mod.rs`) | a mutex-guarded map id -> record (state, message, timestamps, ttl, result, cancellation token, watch channel) | `create`, `set_status`, `finish`, `get`, `result`, `subscribe`, `cancel`, `list`, `gc` | `TaskStore`, `TaskLife` |
| Task protocol (`server/tasks.rs`, eviction loop of `server/main.rs`) | one spawned worker per task, open `tasks/result` requests | `enqueue_task_impl`, `list_tasks_impl`, `get_task_info_impl`, `get_task_result_impl`, `cancel_task_impl` | `TaskRunner` |
| Subprocess runner (`core/toolchain/{mod,compile,proc}.rs`) | process groups, `KillGroupOnDrop` guards, kills on the blocking pool | `spawn_group`, `kill_group`, `wait_with_capped_output`, `Toolchain::run`, `Toolchain::compile` | `ToolCall`, `Output` |
| Server composition (`server/server.rs`) | shares gate, store and toolchain between handlers | `acquire_gate`, `current_cancel_token`, `with_config` | `Server`, `BuildGate`, `ToolCall` (partly) |
| Gated handlers (`server/tools/{compile,fmt,toolchain,artifacts}.rs`) | the permit and the scratch scope of one call; the heartbeat task of a compile | `compile`, `format`, `fixup`, `toolchain_*`, `versions`, `witness_scaffold` | `ToolCall`, `Builds`, `Versions`, `Formats`, `Heartbeat` (partly) |
| Scratch directories (`core/workspace.rs`) | one uuid-named directory per `TempScope` | `temp_scope`, `write_file`, `drop`; `resolve` | `Builds` (partly) |
| Compile outcome (`core/toolchain/compile.rs`) | the shared target directory | exit-status mapping, `keys_present` | `Builds`, `Output` (partly) |
| Formatter (`core/toolchain/fmt.rs`) | none of its own; the workspace's file | `format`, `fixup`: read, parse, run, compare | `Formats`, `Builds` |
| Version report (`core/toolchain/versions.rs`), update and clean (`core/toolchain/mod.rs`) | none of their own; the installed compiler | `versions`, `skew_for`, `update`, `clean` | `Versions` |
| Toolchain listing (`server/tools/toolchain.rs`), diagnostics parsing (`core/toolchain/parse_diag.rs`) | none | `toolchain_list`, `toolchain_check`, `parse_list`; `parse_compactc_output` | `Output` |
| Artifact readers (`core/artifacts`, `server/tools/artifacts.rs`) | none; the target directory that builds write | `artifacts`, `zkir_stats`: `scan`, `read_to_string_capped` | `Artifacts` (partly) |
| Source analysis (`core/analyze`, `core/diagnostic.rs`, `server/tools/analysis.rs`) | none | `diagnostics`, `ast`, `symbols`, `stats`: `structural_depth`, `collect_scope` | `Source` |
| Transports, configuration, test client | none of their own | wiring | not modelled (section 5) |

How they interact. A handler runs inside a request future (a *plain call*) or
inside the worker that a task-augmented request spawned (a *task*). It may make
a scratch scope, then calls `acquire_gate`, which passes the task's cancellation
token to `BuildGate::acquire` or, for a plain call, a token that never fires.
With the permit it runs subprocesses one after the other; each is a process
group in a `select!` of token, timeout and output. The permit, the guard on the
group and the scope are released by Rust's drop order on *every* way out,
including the future simply being dropped when a client goes away. The registry
is written by the enqueuing request, the worker, the worker's drop guard,
`tasks/cancel` and the eviction loop, and read by `tasks/result` requests that
sleep on a watch channel.

What is hard here, and so what the properties are about:

* **Ways out.** Every await may be where a call is cancelled or dropped. A queue
  slot, permit, process group or directory must be given back once, never twice.
* **Two atomics are not one.** The gate's semaphore and its counter change in
  separate steps of several threads.
* **A group is not a child.** `compact` forks a worker that survives the death of
  the wrapper; the permit must be kept until the whole group is dead.
* **Who settles a task.** Tool, panic, cancellation and eviction race, and a
  blocked request must get the outcome that won.
* **Time.** Eviction uses wall-clock readings taken before the lock.
* **Shared files.** Builds share a target directory, and the report on one looks at
  files another may have left. A version report asks five processes one after the
  other about a compiler that an update may replace meanwhile.
* **Readers take no permit.** `artifacts` and `zkir_stats` read a tree in dozens of
  system calls while builds write it; a formatter's two reads of one file are
  seconds apart.
* **Two streams under a cap.** Both pipes must be drained or the child blocks; what is
  kept is cut anywhere, also inside the line a parser looks for.
* **A scan that must not lose count.** The depth guard is all that stands between a
  text and a tree too deep to drop: an estimate that drifts low lets it through.
* **Everybody waits for the same permits.** Tasks, plain calls and cancelled calls
  queue at one gate, and a task is settled only after its tool came back from it.

`PROJECT.json` lists each hazard at its line with the properties that would
notice it going wrong. Per component, correctness means: the gate's bounds and
conservation (no slot lost, minted, or idle beside a waiter; a fired call never
runs); the registry's records coherent, outcomes final, nothing evicted while it
runs or is retained; the protocol's answers final and every blocked request
answered; each permit covering the group it pays for, and no group orphaned;
a call's input in place while the compiler reads it, and nothing left behind; a
task's state true of its permit and its processes, and every task settling; a
version report about one compiler, with the right verdict on it; a reader's answer
true of what was there while it read; a formatter's outcome true of the text it was
given; every line a compiler prints with the caller, up to the cap; no heartbeat for
a call that was answered; the depth, the diagnostics and the exports of a text right.

## 2. The modules

```
BuildSlots  <--implements--  BuildGate  <--  BuildGateProofs      MCBuildGate
    ^
    | extends
ToolCall  <--  ToolCallProofs                                     MCToolCall
    ^
    | extended by
    +--  Builds    <--  BuildsProofs                              MCBuilds
    +--  Versions  <--  VersionsProofs                            MCVersions
    +--  Server    <--  ServerProofs                              MCServer
            | instantiates
            v
TaskLife  <--implements--  TaskStore                              MCTaskStore
                              ^         <--  TaskProofs
                              | extends
                          TaskRunner                              MCTaskRunner

Artifacts, Formats, Heartbeat  <--  ReadersProofs                 MCReaders
Output, Source                 <--  TextProofs                    MCReaders
```

**`BuildSlots`** is what the gate promises: a set of running calls bounded by
`Slots`, a line of waiting calls bounded by `Places` served in order, and no
free slot while somebody waits. It is the reference point twice: `BuildGate`
implements it, and `ToolCall` is built over it, so that subprocesses are checked
over two atomic operations and not over the gate's many.

**`BuildGate`** takes `acquire` apart at every atomic operation and every await.
`pc` is the program point of each call: `TryAcquire` (gate.rs:25), `Count` (the
`fetch_add`), `Reject` (the compensating `fetch_sub`), `Park` (first poll of
`acquire_owned`), `Resume` (the waiter polled with a permit assigned), `Uncount`
(the guard's drop), and `Release` (the permit's drop). `CancelEarly`,
`CancelQueued` and `DropQueued` are the `select!` of `acquire_gate` and the drop
of its future; a permit already assigned to a waiter that leaves is passed on
(`Abandon`). The semaphore is tokio's, hence `external`: FIFO, and a permit that
comes back is assigned to the first waiter at once.

**`TaskStore`** holds `tasks`, a function from ids to records or `NoTask`, and the
`clock`. Each method of the registry that writes is one action, since each holds
the mutex throughout: `Admit`/`Refuse` are the two ways out of `create` (both
include its sweep of expired records at the cap), `SetStatus`, `Finish`,
`Cancel`, `Gc`. Times are passed in, because `create` and the loop read them
before the lock; `SetBack` lets the wall clock move backwards. A record's token
and watch channel are fields of it (`token`, `chan`). **`TaskLife`** is the
abstract life: absent, working, done, evicted, within a capacity.

**`TaskRunner`** extends the store by the actors of `tasks.rs`: per task the
enqueuing request (`Stamp`, `Create`, `Spawn`, `Report`) and the worker
(`Start`, `Conclude`, `Unwind`, `DropGuard`), per waiter a `tasks/result` request
(`Subscribe`, `Wake`, `Collect`, `Hangup`), `CancelTask`, `GcLoop` and the passing
of time. `final` is a history variable: each task's record as it settled, with
the true time. `list` and `get` change nothing and add no step except where
`Report` uses `get`.

**`ToolCall`** is one gated call: `Ask`, `Served`, then any number of runs up to
`MaxRuns`. A run looks at the token (`PassCheck`, compile.rs:40 and mod.rs:93) and
spawns in a step of its own (`Launch`, compile.rs:93 and mod.rs:103): the code holds no
lock in between, so the token may fire there, or the call give up (`GiveUp`). One of the
`select!`'s arms follows. `alive` is the
set of live processes of the call's last group, the direct child `wrapper` and
the `worker` it forks (`Fork`); `reap` is the group's kill on the blocking pool,
`Term` then `Kill`. `CancelArm` and `TimeoutArm` disarm the guard and await the
kill; `DropSelecting` is the future dropped with the guard armed; `DropReaping`
the future dropped while it awaits a kill, which runs on. `Exit` and `Fork` are
the operating system's and the compiler's: a process may end at any time or
never.

**`Builds`** adds files to `ToolCall`: `job` (which handler), `scratch` (the state of
its scratch directory), `keys` (whether the shared target directory holds
proving keys) and `said` (what was reported). The order in which a handler makes
its scope, asks for the permit, returns and drops is kept apart by action:
`Prepare`, `Enter`/`Turned`, `Check`, `Begin`, `Conclude`/`Fail`/`Abort`, `Clean`. `Touch` is the
compiler writing: external, and enabled as long as any process of the group
lives, so it also writes into directories that were meanwhile removed. Every
step is a step of `ToolCall` or a stutter, which is proved.

**`Server`** composes `ToolCall` and `TaskStore`: some calls are tasks, the others plain,
all under one gate, with one registry. `Enqueue` admits a task; `EnterTool` is the
worker's first poll; `AskGate` and `CallGoes` are the tool's own steps; `Conclude`,
`Unwind` and `DropGuard` are the three ways in which the worker writes an end.
`CancelTask` is `tasks/cancel`: it settles the record and fires the token that the
tool's gate and `select!` look at, in one step. `TaskRunner` has the protocol
finer (the enqueuing request in three steps, `tasks/result`) and the tool as one step;
`Server` has it the other way round. Every step of `Server` is a step of `ToolCall` or
a stutter, and a step of `TaskStore` or a stutter; both are proved.

**`Versions`** adds the installed compiler to `ToolCall`. A report collects the answers
of its subprocesses in `heard` (`Reply`), the next is begun only if the last one
answered (`Begin`), and `Conclude` makes the report out of them, with the verdict
`SkewFor`. `Change` is an update or a removal taking effect: external, at any time
while its group lives, also after its call's future was dropped. `spoilt` is a history
variable: the reports beside which that happened.

The last five modules share no state with each other. `MCReaders` puts them side by side
and lets one of them move, which it chooses at the start: a behavior of one beside the
others would show nothing that a behavior of it alone does not.

**`Artifacts`** is the reader of a target directory (`rd`, one program point per system
call of `scan` and of the capped read) beside compilers that truncate and write the
files of `tree` unit by unit and may be killed anywhere, and somebody who deletes the
directory between builds. A unit of text is the build that wrote it, so that a file
pieced together from two builds, or with a hole where one wrote past the other's
truncation, is told from a whole one. Both tools scan alike, so which of them was
called shows only when the scan is over (`Inspected`, `Scanned`). `seen`, `missed` and `moved`
are history: what was there, and what was not, at some moment of the call.

**`Formats`** is `rewrite` on one file of the workspace: per call `stage` and `job` (on a copy,
in place, on inline source), the scratch `copy`, the text it read `before`, and its
formatter's process, which loads, empties and rewrites its file in separate steps and
may be killed between them. `Edit` is somebody saving the file. A dropped call gives its
permit back at once and its group writes on until `Reap`. `mixed` is history: who else
changed the file since a call read it.

**`Heartbeat`** is `compile`'s notifying task beside its handler. `beat` says whether the task
sleeps, is polled by a thread or waits for the transport; `StopBeat` is `abort`, which
stops a task at its next poll and not in the middle of one. `Lose` is the handler
dropped or panicking, which aborts nothing.

**`Output`** is what a subprocess prints, from two pipes of bounded size (`Emit`, `ReadSome`,
`ReadEnd`) over `read_capped`'s arithmetic (`Takes`) and the truncation marker to the
caller: `Parse` makes diagnostics, `ParseList` the list of versions, `Joined` the text of a
check. A line is named by the break it follows (`Breaks`, `Line`), so that what a parser selects is a
set of breaks, taken in order (`LinesAt`); its trims are the next place that holds none of some
tokens (`Past`). Tokens stand for the pieces of a line that the two parsers look at, blanks
included where a parser asks for them: " - " is one token (`sep`), "Exception: F line L " and
"char C:" are two (`ex1`, `ex2`), so that a separator or a colon at the end of a line has lost its
blank to the trim, and the line is no version (`Versioned`) and no diagnostic (`Structured`) of
its own. The cap may fall between any two tokens. That draining both pipes at once keeps a chatty
child from blocking (proc.rs:29-31) is how `ReadSome` is written and no property: a blocked
child may always be killed, so no run could get stuck there.

**`Source`** is `structural_depth` token by token (`Scan`), the refusal of what is too deep, and
then what the tools make of a parsed text: `Diagnose`, `Tally`, and `collect_scope` item by item
with a stack of open scopes (`frames`) in place of the recursion. `ast` walks as
`symbols` does. Tokens, errors and items come in any order, unbalanced ones included, since the
scan runs before any parser.

`map` in `PROJECT.json` names the source lines of every definition. Definitions
with names like `Kill_Softly` or `Unwind_Unguarded`, under a comment "Seeded
fault", are not part of any specification: each is the wrong version of the
action after it, and `mutants` records the property that notices when one
replaces the other.

## 3. What TLC checks

| run | instance | shows |
|---|---|---|
| `gate` | 4 calls, `max_concurrent_builds` 0, 2 places | a configured zero still serves; counter and permits are exact at every point (`CounterExact`, `PermitsConserved`), at most `max_queued` wait, no call is parked beside a free permit, a fired call never gets to run, and the gate implements `BuildSlots`; a cancelled call leaves the queue without a permit coming free; a parked call is served if holders release |
| `gate_reject` | 4 calls, 1 permit, 1 place | *violated:* see section 7 |
| `task_store` | 3 ids, cap 2, three ttls (0, default, above the maximum), clock 0..2 | any order of registry calls keeps records coherent and outcomes frozen; the registry implements `TaskLife` |
| `task_runner` | 2 tasks, cap 1 (from a configured 0), 1 waiter, clock 0..1 | a Working task always has somebody who settles it; answers are the final outcome; results outlive their ttl; a task is refused only when the map is full of tasks that run or are retained; a blocked `tasks/result` returns whatever ends the task |
| `task_report` | as `task_runner`, clock 0..2, symmetry | *violated:* see section 7 |
| `tool_call` | 3 calls, 1 permit, 1 place, 2 runs each | the permit covers the group of every call that is not dropped; every process that outlives its `select!` has its kill pending; no kill is pending for a group whose output was taken; every group ends and every permit comes back, though processes may ignore SIGTERM and never exit |
| `global_ceiling` | 2 calls, 1 permit | *violated:* see section 7 |
| `builds` | 2 calls, 1 permit, 1 place, 1 run each | the scratch directory is there while its call needs it, a call that returns leaves nothing, and every scratch directory goes |
| `server` | 2 tasks and 1 plain call, 1 permit, 1 place, 1 run each, registry of one place, clock 0..1 | a task that shows Completed or Failed holds no permit, no queue place and no process; one that shows Cancelled begins no run any more, and the group of one that had passed its look at the token is killed and its output not taken; every task settles |
| `versions` | 2 calls, 1 permit, 1 place, 3 runs each, 4 compilers, symmetry | only a dropped call's group changes the installation under a report; every other report's verdict is right for the compiler it names |
| `readers` | 2 builds, cap of 2 units; 2 formatting calls, 1 permit; streams of up to 7 tokens, cap 5, pipes of 3; texts of up to 5 tokens, depth 4; up to 4 items | a report on a directory names nothing that was never there, errors tell the truth and the cap holds whatever is written meanwhile, and a call beside which nobody writes answers as of one moment; a formatter's outcome is true of the text it was given, and only an editor or a dropped call's group comes between its two reads; no heartbeat for an answered call but a poll under way; captured output is a prefix, marked exactly when cut, and every token of it reaches the caller; the depth estimate is what its description says, exports mark their own scope |
| `stale_keys` | as `builds`, symmetry | *violated:* see section 7 |

Bounds. *Calls:* with one permit and two places, four calls are the smallest
number at which one runs, two wait and one is turned away, so every pair of racing
program points with both resources exhausted occurs; for more permits the gate's safety
properties are proved. In `ToolCall` the number of
calls matters only through permits, and three with one permit and one place fill
everything and leave one rejected; for more permits the safety properties are
proved. `Server` needs two tasks, the conflict of the registry, and a plain call
between them. *`MaxRuns`:* a run after a run is the case that
differs (a guard left armed, a stale group id). A report asks five subprocesses, of
which the first names no compiler and the last two go unjudged, so three are what its
verdict depends on; with five the same properties hold (three million states), and they
are proved for any number from three on. *Compilers:* one below, one at and one above
the tested language, and one that does not parse. *Tasks:* one retained task and one that needs its place are the
conflict of `create` at the cap; a second place is exercised by `task_store`. *Time:*
a ttl matters by being over or not over, so a clock of two values with ttls 0 and
1 (of three in `task_store`, up to 2) has both; `MaxTtl` below `DefaultTtl` or a requested ttl
exercises the clamp. *Waiters* do not interact, so one suffices;
for more of them, more tasks and any clock the safety properties are proved. A call id that
left nothing behind is forgotten and used again, in all modules but the task
ones, so runs are not bounded in length; `Server` uses a task's id again once it was
evicted and its worker is done. In `TaskRunner` each id is enqueued at most once and the clock stops at `MaxTime`, so
the model really comes to an end, and its runs say `CHECK_DEADLOCK FALSE`. No
other run does. The runs with liveness properties use no symmetry.

*Readers:* a file that fits the cap, and one that is two units longer, so that a read that
goes past its bound is seen; two builds, since a third would overwrite as the second
does; circuits that are proved, that are not, and that only the other build lists. *Formatters:* two
under one permit, beside an editor. *Streams:* shorter than the cap, exactly the cap,
one and two tokens longer, with and without a line end, a structured line first,
later, without a message, with its message cut off, and glued to the end of the other
stream; versions with and without a list behind them, cut after the separator, and behind
two arrows. *Texts:* five tokens nest, close, charge a chain and end a statement in every order; the depth bound of four is reached
and passed by brackets, by chains and by both. *Items:* four are a module with a
declaration and an export list inside or outside of it. The permutations of `Calls` are
the one symmetry of `readers`, which has safety properties only.

### Fairness

* `gate`: `PolledSpec` says that the runtime polls a call whose next step is
  ready (weak fairness of `Poll`). `ParkedIsServed` also assumes that holders
  release (`HoldersRelease`); that is what `tool_call` shows as
  `PermitReturns`. Nothing is assumed of clients, who need not cancel.
* `task_runner`: `ScheduledSpec` assumes that spawned futures and woken
  requests are polled and that a tool ends in *some* way. It ends because each
  subprocess has a timeout, and it waits for nothing else but the gate, whose
  callers are served (`gate`). Nothing is assumed of the eviction loop or of
  clients.
* `tool_call` and `builds`: `TimedSpec` assumes that a ready call is polled,
  that a `select!` resolves (its sleep resolves at the latest), and that the
  blocking pool runs what it was given. No fairness is given to `Exit`: a
  process may hang for ever, and `SIGTERM` may kill nothing.
* `server`: `ServerTimedSpec` is the same over the composition, with the worker polled
  too. That a tool ends, which `task_runner` assumes, is here a consequence.

## 4. What is proved

All theorems are checked by TLAPS for any set of calls or ids and any value of
the numeric constants within the named assumptions (`GateAssumption` and the like,
each in the module that declares the constants):

* `Calls` and `TaskIds` finite, the configured numbers naturals (zero included where the
  code clamps it), `Slots` and `MaxRuns` positive;
* `NoResult` not a payload and `NoTask` not a record, the outcomes of a tool payloads and
  the two stand-in answers none, tasks among the calls, and at least three subprocesses
  of a report;
* the four kinds of text of the formatter different and the editor no call; what is
  printed sequences of tokens; the listed circuits sequences of names that differ from the
  info file, the kinds of file a non-empty sequence, and `Nil` neither a build nor a text;
* the depth bound positive, the number of errors a natural, and an absent maximum no number
  and no name.

* **`BuildGateProofs`** (`TypeCorrect`, `CounterIsExact`, `PermitsAreConserved`,
  `QueueIsBounded`, `NoPermitIdles`, `CancelAlwaysWins`, `GateImplementsSlots`). None
  of the properties is inductive alone. The invariant says that the waiters are
  exactly the parked calls, each once; that the counter is the number of calls
  whose `pc` lies between `fetch_add` and `fetch_sub`; that free permits, assigned
  permits and holders add up to `Permits`; and that no permit is free while
  someone is parked. The bound on the queue follows from the counter: a call
  parks only if its own `fetch_add` returned less than `max_queued`, and later ones
  see it counted. The refinement maps a call to *running* from the moment a permit
  is assigned to it.
* **`TaskProofs`**, of the registry (`TypeCorrect`, `RecordsAreCoherent`, `StoreIsBounded`,
  `StoreImplementsTaskLife`, `TerminalIsFrozen`). The invariant has a part per
  record (its fields fit and agree) and the bound on the domain. Each writing
  method is split into a lemma about the record it makes and one about the map,
  so the argument does not depend on the order of calls or on the clock, which
  may be set back at any time.
* **`TaskProofs`**, of the protocol (`RunnerImplementsStore`, `RunnerTypeCorrect`, `WorkingIsAttended`,
  `AnswersAreTrue`, `RetentionIsKept`, `RefusalNeedsFullMap`). Every action moves a record in one
  of few ways (`Moves`) and its request and worker in one of few (`Goes`); the
  invariant follows from these two and not from the actions. `TaskInv(t)` says that a
  Working task is attended and has no history, that a settled one's history is its
  record, and that a task without a record either never had one or ended at least its
  ttl ago. The last part is what makes `TaskNotFound` an honest answer, and it needs
  that no reading of the time is ahead of the clock. `WaiterInv(w)` carries it to the
  requests: one that waits has a task that was admitted, one that was woken a task that settled.
* **`ToolCallProofs`** (`TypeCorrect`, `NothingIsOrphaned`, `NoKillIsStray`,
  `PermitsCoverGroups`). `Sound(c)` relates, for one call, its program point to its
  place in the gate, its group and its kill: a call that is holding has no live
  process, one that is reaping has no kill pending only when its group is dead,
  and so on. It is a conjunction over calls, and each action disturbs one call,
  except the permit handed on by `Finish`, which a lemma about `BuildSlots` covers.
* **`BuildsProofs`** (`BuildsImplementsCalls`, `InputStaysInPlace`, `NothingIsLeft`). That
  every step of `Builds` is a step of `ToolCall` or leaves its variables alone
  brings the invariant above along; over it, `Neat(c)` relates the scratch
  directory to the job and the program point. `NothingIsLeft` rests on
  `PermitsCoverGroups`' invariant: a call that returns has no live process, so
  nobody writes the directory anew and its removal meets no concurrent writer.

* **`ServerProofs`** (`ServerImplementsCalls`, `ServerImplementsStore`,
  `EndedTasksHoldNothing`, `CancelledTasksBeginNothing`). The first two bring along what
  is proved of `ToolCall` and `TaskStore`. Two things are needed over it. `GateSound` says
  who is in the gate: permits belong to calls that are under way, the line holds
  queued calls, each once, so that a call that returned is nowhere in it. `Attended(t)`
  relates the record of a task, its worker, its token and the program point of its
  call: Completed and Failed are shown only once the worker is past the tool, whose
  call then returned or never began, and a Cancelled record's token has fired. That a
  Cancelled task spawns nothing would be false: a call that saw its token unfired may spawn
  after the cancel. It is counted as begun from its look at the token (`Begun`), and the
  theorem says that this count stays and that a group that lives leaves its `select!` by a kill.
* **`VersionsProofs`** (`VersionsImplementsCalls`, `InstallationIsStable`, `VerdictIsRight`).
  `Alone` says that one permit has one owner. A group that changes the installation
  belongs to a call that owns the permit (`PermitCoversGroup`'s invariant) or was
  dropped; under a report the owner is the report. `Trusty` is then inductive: all
  a report has heard since its first answer is the compiler that is still
  installed. Both theorems are stated for one permit, which is the default
  configuration; with more the code promises nothing of the kind.
* **`ReadersProofs`** (`FormatterTellsTheTruth`, `OnlyStrangersInterfere`, `AnsweredIsQuiet`,
  `ReportsWhatWas`, `AnswersAreSnapshots`). For the formatter, `OnItsWay(c)` says how far a call's
  process has brought the file it was pointed at: still as read, loaded, emptied, or
  formatted, all of it as long as nobody else wrote a file that it works on in place.
  For the heartbeat, an aborted task is doomed, and on a thread only if it was when it
  was aborted. For the artifact readers, `Knows` says what a program point has established
  (the file was there at some moment, and its text is that of the directory or of a file
  since unlinked), and `Sees` that the history has what is there now. `AnswersAreSnapshots` is
  about a call beside which nobody writes: what has been found, counted and refused so
  far is right for the circuits and files already visited, of the directory as it still is,
  so that the answer is right when the last one is.
* **`TextProofs`**, of the capture (`CaptureIsFaithful`). `Flow(s)` cuts each stream in three: what was
  read, of which the beginning is kept, what is in the pipe, and what is still to be
  printed; one read moves the boundary whatever its size.
* **`TextProofs`**, of what is made of the text (`OutputIsRight`). Once the caller is told no stream
  changes any more (`Told`), so what is left is about the parsers as functions. Every place of a text
  that is no line end lies in one line (`InALine`, `InOneLine`), and every line that is not blank is in
  one diagnostic (`ParseShows`): places in the diagnostics and places in the text are in
  bijection, token by token (`ShownOnce`). A structured line is the one that begins an exception
  (`KnownAreExceptions`), which is a matter of that line alone (`LineCarries`); a line the list parser takes holds one version, at the place where its trims
  stop (`VersionedHas`, `HasVersioned`), with a separator behind it only if that splits (`Follows`). What `lossy_with_marker` and `joined_output` put together counts what
  its parts count (`CountJoins`), and an exception of stdout is one of the whole when
  stderr ends its line (`ExceptionsJoin`).
* **`TextProofs`**, of the walk over a parsed text (`AnalysisIsRight`). `symbols` is told of an item by
  where it stands: its scope, and so its module, is a matter of the opening and closing items
  before it, counted. The invariant says that the stack of open scopes holds, from the outside
  in, the scopes that enclose the position, each with what it has put out since it was
  entered and the exports it has met; that what is put out is one entry per declaration
  before the position, in order; and that an entry is marked exactly if it says so itself or its scope has
  ended and exports its name. A scope's end marks its own entries only, because the entries
  of scopes inside it lie between the same bounds but belong to closed scopes.
* **`TextProofs`**, of the depth guard (`DepthIsRight`). The scan keeps, per open bracket, a count of
  charges and two marks, and one sum; the reference says of a prefix of the text which tokens are
  charged to which level and still count. `Counts` says that a level's count is the number of
  live charges of that level and the sum the number of all of them, which is where a drift
  would show; `Marks`, that a level knows whether its opener is a call. `Scanned` is both, and
  the peak is then the greatest depth of a prefix (`PeakOf`). An opener adds a level, a closer
  drops one with its charges and may charge the level below, a statement's end clears one
  level: each is a lemma about what becomes of the set of live charges.

Two of these need induction over a text. The library's theorems for that take an operator as
a parameter, which the installed provers cannot instantiate; but every non-empty set of
naturals has a least element (`LeastNat`, from `WFMin`), which is stated of sets, and induction over a set
follows from it (`Induct`). With it `LevelsExist` shows that the recursive function `LevelIn` is
defined, and the rest uses its two equations.

Only model-checked:

* every liveness property, since liveness and ENABLED are out of the prover's reach:
  `ParkedIsServed`, `CancelFreesSlot`, `WaiterReturns`, `GroupEnds`, `PermitReturns`, `ScratchGoes`, `TasksSettle`.

The violation runs are counterexamples and need no proof.

## 5. Assumptions, abstractions, and what is left out

* tokio's semaphore is FIFO and hands a returned permit to the first waiter; its
  watch channel shows a late subscriber the current value.
* Members of a process group keep the pipes they inherit, so the output arm
  resolves only when all of them are gone. A worker that closes its streams and
  lives on would outlive its call; nothing in the code would notice it.
* Nobody forks after `SIGKILL`, and a killed group is dead when `kill_group`
  returns. The tokens of plain calls never fire and workers of tasks are never
  dropped, as in the code; runtime shutdown is not modelled.
* What the compiler does to `keys` under `--skip-zk` is the compiler's: it may or
  may not remove what it finds.
* `Versions` has no `--compiler-version`: with one, all answers are the pinned
  compiler's. A compiler answers for itself correctly, and stands for its language. Nobody
  installs or removes compilers past the server: versions.rs:25 allows for that between
  two invocations, and then no permit keeps a report together.
* Scratch names and task ids are uuids and do not repeat.
* How `Workspace::resolve` maps names to paths is not modelled: scratch
  directories are told apart, and that is all `Builds` needs of them.
* Left out as data: command lines, exit codes beyond their three classes, messages, JSON.
* `Output` counts tokens where the code counts bytes; a cut inside a character, which
  `from_utf8_lossy` papers over, is a cut between tokens. compile.rs:175 glues stderr and stdout
  without a line end, where `joined_output` puts one: an exception that begins stdout then
  continues stderr's last line, or the marker of its truncation, and is reported whole but
  without structure. The model does both as the code does, and `OutputRight` asks for the text only.
* `Source`: `DepthRight` compares the scan with the estimate that its comments describe (brackets
  plus charges per statement), said by positions of the text and not by a scan. That this bounds the depth of the tree is a matter of the
  external parser's grammar and not modelled.
* `Formats` leaves sizes out. `read_input` and `rewrite` look at a file's size and then read all of it
  (server.rs:172, fmt.rs:86): unlike the artifact readers', that read is not capped, and a file that
  grows in between is read whole.
* `Heartbeat`: the heartbeat of a dropped or panicked compile goes on until its peer is gone, since
  only the normal way out aborts it. `NoStrayBeat` is stated of answered calls.
* `Artifacts`: no symlinks; a circuit is a name with its files. What the parser of
  contract-info (`contract_info.rs`) and the stub generator (`scaffold.rs`) say of a type is
  text from text, with no state and no order, and is left to the unit tests beside them.
* The end of the process. What a killed or exiting server leaves behind (a group whose kill was queued on
  the blocking pool) is up to the runtime and the operating system.
* Transports are the protocol library's wiring. What they do to this core, drop
  a future, is an action of the modules. Configuration is the CONSTANTS.
  `testing.rs` is a client for tests.

## 6. Plan

Done, in this order: gate, registry, protocol and subprocess runner, because everything else
runs under them; files shared by builds; the composed server; the version report; the
readers, the formatter, the heartbeat, captured output and source analysis; with
`TaskProofs` a proof for every safety property of the concurrent core, with
`ReadersProofs` for those of the calls that share files, and with `TextProofs` for what is
made of source text and kept of output.

What is left, and would add most first:

1. `resolve` and the checks before a write in `core/workspace.rs`, over a small tree with
   links: which directory a name denotes at the time of the check and of the write.
2. The stub generator of `core/artifacts/scaffold.rs` with the type mapping, as functions over a
   small grammar of types.

Abstract specifications still worth stating: what a client of `tasks/*` may observe
of one task (over `Server`), and the exclusive use of a target directory (which
the code does not promise, so as a condition on the configuration).

## 7. Where code and documentation disagree

Each is a violation run with one property that states the documented claim.

* **`gate_reject`, `OnlyFullQueueRejects`.** gate.rs:8 says that only an over-full
  queue rejects. The counter also counts calls on their way out and calls whose
  permit has come, so a call can be turned away while fewer than `max_queued`
  wait. Transient and harmless, but a client may see `QueueFull` early.
* **`task_report`, `EnqueueReports`.** jobs/mod.rs:103-104 says that the caller must
  report the actual ttl. `tasks.rs` reads the record back after it spawned the
  worker; with a small ttl the task may have settled and been evicted, and the
  creator is answered `TaskNotFound`.
* **`global_ceiling`, `GlobalCeiling`.** server.rs:119-120 calls
  `max_concurrent_builds` a real global ceiling on `compact` processes. A dropped
  call's kill is queued and not awaited while its permit is released at once, so
  the next call's group runs beside the dying one. For calls that are not
  dropped, `PermitCoversGroup` holds and is proved.
* **`stale_keys`, `SkipZkHasNoKeys`.** compile.rs:24 says `proving_keys` is reported so
  that a `skip_zk` build is never mistaken for a deployable one.
  `keys_present` looks at the target directory only, which all compiles share
  by default: after a full build, even an aborted one, a `skip_zk` build reports
  true if the compiler leaves the old keys in place.

## Running

    tlc -config MCBuildGate.cfg MCBuildGate     # likewise the other .cfg files
    tlapm BuildGateProofs.tla                   # likewise the other *Proofs
