# Hera terminal: TLA+ models and proofs

This directory models the terminal in `crates/`: the PTY session runtime (four
threads, bounded channels, deadlines), the parser and the terminal state machine
(bytes to actions to screens, scrollback and damage), and the command line
program around them: recorded runs, fixture packs, public replays, performance
evidence, and the host and release evidence that decides what may be shipped.
TLC checks the modules on small instances; TLAPS proves the central safety
properties of the runtime, the terminal, the parser, the recorded run and the
evidence commands for every value of their constants.

Run everything from this directory:

    tlc -workers 2 -config PtyRuntimeSession.cfg MCPtyRuntime
    tlc -workers 2 -config TerminalReflow.cfg MCTerminalState
    tlc -workers 2 -config TerminalCli.cfg MCTerminalCli
    tlapm PtyRuntimeProofs.tla

`PROJECT.json` lists every run, the lines each definition models, the hazards
with the properties that cover them, and for each property a mutation of the
code it catches. Operators named as mutations in the modules are used there only.

## 1. Inventory

| component | state | operations | hard behaviour | what makes it correct |
|---|---|---|---|---|
| PTY runtime, `terminal-pty/src/runtime.rs` | three worker threads, reader channel (bounded), command channel (one), reply channel per write, wait channel; `closed`, `pending_exit` | `write_input`, `close_input`, `resize`, `run_until_exit(_with_responses)`, drop | interleaving of four threads; command, drain and write deadlines; failures of read, write, wait, kill and callback; several runs of one session | output complete and in order, one EOF, one exit, every run ends, no child left running, no thread left blocked |
| session, bridge, backend, `session.rs`, `bridge.rs`, `portable_backend.rs` | reader, writer and child handles, each taken once; the sink's size | spawn, resize with rollback, close | one of two resizes fails | sink and PTY agree on the size, or the caller is told |
| VTE adapter, `terminal-core/src/vte_adapter.rs` | pending escape, string-control and DCS builders | `advance` | input split at any byte; payload limits | actions do not depend on the split; payloads are bounded |
| terminal facade, `terminal-core/src/lib.rs` | action buffer and its drop count | `advance_bytes`, `drain_actions`, delegation | buffer limit | a full buffer drops actions, never state changes |
| state machine, `terminal-core/src/state.rs` | primary and alternate screen, cursor, pending wrap, scrollback, saved cursor, style, damage, next row id | print, C0, CSI, DEC private modes, resize, snapshot | long sequences; wide characters at edges; reflow; budgets; stale handles | exact grid, no index out of range, text kept, handles stable, damage complete |
| protocol and render types | none | constructors | payload limit | data only |
| run command, `terminal-cli/src/main.rs` | recording, query tail, input cursor | `run` | truncation, a query split over chunks, failing calls | a recording loads and replays to the same screen |
| recordings and fixtures, `terminal-fixtures/src/lib.rs` | the runner's place in a pack | load, replay, compare, split | a state carried from chunk to chunk | a pack that passes proves what its name promises |
| public replays, `m4_replay.rs`, `m5_replay.rs`, `main.rs` | a directory of fixtures, a summary, an event stream | generate, verify, export | a directory that changes between commands; counts derived from counts | budgets and discards are real, a summary is whole |
| performance evidence, `m4_performance.rs`, `m4_performance_cli.rs` | benchmark, profile, thresholds, report as files | benchmark, profile, report | files of any age; half-written files | a pass rests on a measurement |
| host evidence, `m6_host_evidence.rs`, `m6_exit.rs` | the counters of the roll-up | validate | files read twice, overflow, missing values | a decision follows from what was measured |
| release evidence, `m5_platform.rs`, `m5_release.rs`, `m5_security.rs`, `m5_baseline.rs` | seven documents on disk | measure, readiness, audit, security, baseline | programs that fail or are missing; kills in the middle of a write | nothing that failed is reported as passed |
| tables of required rows, `m4_compatibility.rs` and others | none | validators | many conditions | a decision row by row |

How they interact. The child writes to the PTY; the reader thread turns reads
into envelopes on the reader channel; the runner takes them and calls the
caller's callback, which feeds `Terminal::advance_bytes`: adapter, then
`apply_action` on the state machine. The callback may return a response, which
the runner hands to the writer thread and waits for. The wait thread reports the
child's exit on a channel the runner polls. The bridge resizes the terminal and
the PTY together. The embedder takes snapshots, which empty the damage set. The
run command is such an embedder: it records events, answers queries and saves a
recording, which the replay commands load. The evidence commands run one after
the other and meet only in files: the baseline links what the others wrote, the
performance report reads the benchmark and the profile, the exit validator the
files of the host, and `cargo test`, run by the platform command, reads the
documents of the release.

The hazards this gives rise to are listed with their lines in `PROJECT.json`.

## 2. Modules

| module | models |
|---|---|
| `PtyRuntime` | the runner, its threads and channels, the environment, fairness and properties |
| `PtyEventStream` | what a session promises its callback; `PtyRuntime` implements it |
| `TerminalScreen` | cells, rows, screens, scrollback, reflow: the functions of `state.rs` without a terminal |
| `TerminalState` | `TerminalState` and its methods, one action per kind of terminal action |
| `TerminalParser` | the VTE adapter, its builders, the action buffer, and the library's parser as an external part |
| `RunRecording` | `run`: bridge, responder, recording, saving; loading and replaying a recording |
| `FixtureReplay` | fixture packs with checkpoints and split boundaries |
| `PublicReplay` | the replays of M4 and M5: generate, verify, export |
| `PerformanceReport` | benchmark, memory profile and the report over both |
| `DogfoodRecording` | the recordings and metrics of a shadowed pane (M3) |
| `HostEvidence` | the host evidence of M6, its roll-up and the exit decision |
| `ReleaseEvidence` | the generators and validators of the M5 release documents |
| `TerminalCli` | all commands side by side |
| `FoldProofs` | induction over naturals, and what `FoldLeft` and `FlattenSeq` compute |
| `PtyRuntimeProofs` | theorems about the runtime |
| `EvidenceProofs` | theorems about `PublicReplay`, `PerformanceReport`, `HostEvidence` and `ReleaseEvidence` |
| `TerminalScreenProofs`, `TerminalStateProofs` | lemmas about rows, scrollback and reflow, and the terminal's theorems, which extend them |
| `TerminalParserProofs`, `RunRecordingProofs` | the parser as a fold over bytes, and the run's theorems, which extend it |
| `TerminalCliProofs` | theorems about `FixtureReplay`, `DogfoodRecording` and all commands together; it extends the two above and `EvidenceProofs` |
| `MC...` | constants for TLC |

### PtyRuntime

`pc` is where the caller's thread is: `idle` between operations, `tick_exit`,
`tick_deadline`, `tick_recv` inside a tick, `post_exit`, `post_check` after it,
`poll`, `poll_exit` for the timed receive, `join`, and `write_send`, `write_wait`
inside a write, from which `ret` says where it returns. Each is a place where
another thread or a timer can step in. `exit`, `sawEof`, `left` are the locals
of the loop; `cmdDue` and `drainDue` stand for `Instant::now() >= deadline` and
may become true at any moment after the deadline was set, so no durations are
needed. `reader` and `writer` hold a thread's program counter and what it has in
hand; `chan`, `writeQueue`, `reply` and `waiter` are the channels.

The environment is free: the child's processes write, exit and hang up in any
order (a descendant may keep the terminal open after the child has exited), and
a `write_all` may take for ever. `Faults` chooses which calls may fail. What is
abstracted: an output chunk is its number, a write is its number, `Interrupted`
reads (retried in place), byte counters and error texts are left out, and so are
the write-size check and `resize`, which change nothing in the runner. `Init` is
a constructed runner: the failures of `PtySessionRunner::new` are not modelled.
`delivered`, `eofs`, `exits` and `late` are history: what the callback was given,
and how much of it after the deadline in force.

### TerminalState and TerminalScreen

`term` is the `TerminalState` struct; operators bear its methods' names. A panic
is explicit: every index into rows or cells first asks whether it exists, and
`panicked` stops the behaviour. A cell is its width, its character as a small
number and whether it has a background (erasing keeps the background, so it
decides which cells are occupied); other attributes and images are left out. The
bytes of a row are `1 + cells`, which keeps the only facts the budgets depend on:
a row costs something and each of its cells too. The snapshot's cursor adjustment
onto a wide lead is left out. A sequence's parameter is its number, with
`csi_param_or_default` and `one_based_to_index` modelled; a DEC sequence carries
one mode, which is one iteration of the code's loop over its parameters.

### TerminalParser and RunRecording

Bytes are the classes the parsers tell apart. The adapter is folded over them
byte by byte; the code looks one byte ahead of an escape, which `held` expresses
as an escape the library has not been given yet. The library's state machine is
external: it is modelled from the calls the adapter gets. The terminal keeps the
actions applied to it instead of a screen, so two terminals that are equal here
went through the same actions. Of the screens themselves only the sizes are
computed from these actions (`Screens`): a resize on the primary screen leaves
the alternate one at its old size, modes 47, 1047 and 1049 show it, and a
terminal that shows rows of another size than its own is `Stale`.

`RunRecording` composes this parser with the run command: an action per stage of
`run_command` and per event of the runtime, with the environment failing where
`Faults` says. `RefuseRequest` is a command line `RunOptions::parse` refuses.
`Panic` is output that prints or erases on a stale alternate screen, which may
index outside its rows and end the process; `Output` of the same chunk is the
case in which it lies inside. A saved artifact is what the loader gets: `Loads`
is `PtyRecording::from_path` and `validate`, with the comparison of the snapshot's
rows and cells to its dimensions (`SnapshotLoads`), `Replay` its replay and
`Differ` the comparison that decides it. Whether the file or the snapshot's rows
and cells exceed their limits the model cannot tell, so either may be
(`oversized`). A file that cannot be saved because its JSON is too long is the
fault "save".

### The commands over files

`PublicReplay`, `PerformanceReport`, `HostEvidence` and `ReleaseEvidence` have
the files as their state, and a step per program run, document written or
document read. Where two reads of a file are apart in the code they are two
steps here, and somebody else may write in between. A write that fails leaves
half a file, which no reader accepts. `form` stands for whatever else a validator
asks of a document (names, times, relative paths, and one thing that hangs on an
outcome: a semver tool's summary may not be empty, `m5_release.rs:671`);
everything a status depends on is modelled. Two comparisons of floating point
numbers with a tolerance (`m6_exit.rs:337`, `m6_exit.rs:844`) are equalities.

Terminals in public replays are counted in rows. The text of an event is either
whole lines that fit the terminal, which go down the screen one after the other,
or said to be `control`: then it moves the cursor, erases, wraps or changes the
screen, and the model takes from the event what that amounts to (`Moves`: how many
rows scroll into the history, where the cursor ends, on which screen).
`PublicContent` compares the patterns that occur in a fixture with those its schema
and its redaction reject. `DogfoodRecording` keeps the session a recording was made
from as history, to say what a replay must not lose; `FinalLoads` is the loader's
comparison of the final screen's lines with the rows of the terminal.
A replay of a fixture pack or of a dogfood recording that prints on a stale
alternate screen may panic in the code; the models carry on, so what is claimed
of them is claimed of more behaviours than the code has. `ReleaseEvidence`
starts from the documents checked in under `evidence/m5`.

`TerminalCli` puts the commands of `main.rs` side by side. Different parts share
no file, so a behaviour is about one of them, which the variable `part` selects
at the start; commands of one part follow one another in any order.

## 3. What is checked

| run | instance | shows |
|---|---|---|
| `PtyRuntimeSession` | 2 chunks, the second a query, reader channel 1, ticks of 2, 2 writes, 2 runs, no faults | `OutputInOrder`, `CompleteRun`, `WritesInOrder`, `StreamSpec` (the refinement of `PtyEventStream`), and the liveness properties `RunTerminates`, `WriterStops`, `ReaderReleased` |
| `PtyRuntimeFaults` | 2 chunks, 1 write, 2 runs, every fault | `TypeOK`, `ExitOnce`, `NoAbandonedChild`, `PromptAfterDeadline`, `ClosedForGood` |
| `TerminalReflow` | 3x2, resized to 2x2, 4x1, 2x3, 4x3 and to an invalid size, narrow and wide glyphs, 7 steps, ample scrollback | `TypeOK`, `PrimaryFits`, `WidePairs`, `ResizeKeepsText` |
| `TerminalScreens` | 2x2 and 3x1, every DEC mode, every erasure, backgrounds, a scrollback of 3 rows and 8 units, 6 steps | `StableHistory`, `AlternateIsolation`, `ScrollbackBounded`, `DistinctRows`, `DamageCovers` |
| `TerminalCli` | the constants of `TerminalCli.cfg`, part by part below | 19 properties |

What `TerminalCli` shows, by part:

- Recorded run (3 chunks of 14 pieces cut from OSC, DCS, CSI and cursor queries,
  payloads of one byte, two actions kept, four bytes of output kept, every call
  failing; a program, a shell, refused command lines and sizes): parsing does not depend on the split (`SplitInvariant`), the action
  buffer accounts for what it drops (`BufferAccounts`), what is saved
  loads, if it keeps its limits, truncated no payload and does not end on a stale
  alternate screen, and replays to the same screen if its output is whole
  (`SavedReplays`), the recording is the stream up to its budget
  (`RecordsStream`), each query is answered once (`QueriesAnswered`), and the
  terminal and the PTY agree on the size (`BridgeAgrees`).
- Fixture packs of up to two fixtures: a pack that passes shows the same for
  every split, also into more pieces than the two it tries (`SplitsProved`).
- Public replays, two commands: the declared budget is what a replay spends
  (`BudgetIsSpent`), rows reported as discarded were, where the output is whole
  lines (`DiscardsAreReal`), and a verification that succeeds covers the directory
  and keeps its policies, that on discarded rows again for whole lines
  (`SummaryIsWhole`).
- Performance, three commands and a commit in between: a report that passes
  rests on complete measurements under their thresholds (`PassIsMeasured`).
- Dogfood recordings: what the host records within its budgets loads and replays,
  unless it ends on an alternate screen of another height, and what replays lost
  nothing (`DogfoodIsWhole`).
- Host evidence, with a file rewritten during the command, saturating counters
  and missing values: `PassIsObserved`, `BoundToDigests`.
- Release evidence, two commands or hand edits with a kill anywhere:
  `TestsSeeEvidence`, `RowsMeasuredThere`, `NoFailureHidden`,
  `OutcomesAreRecorded`.

`CliTypeOK` is the type invariant of all of them.

Why the bounds are enough. A reader channel of one makes every send of the
reader block; two chunks put one in the channel and one in the reader's hand
while the first is handled; ticks of two contain a full and a broken-off tick;
two runs show what a run leaves to the next; two writes put one in the writer's
hands and one in its queue, and a response behind them makes the channel full. A
grid of two or three columns has an edge at every second character, a wide
character that fits and one that does not; three rows of scrollback fill, trim by
rows and trim by bytes within six steps. Three chunks are enough to begin a
sequence, go on inside it and end it in three reads; payloads of one byte are
truncated by the second; four bytes of output are cut inside a chunk and at its
end. Two documents in a row are enough for the second command to find what the
first, killed or not, left. Counters saturate at 7, so that three panes pass it.

`CHECK_DEADLOCK FALSE` in the runtime and terminal runs: a runtime behaviour ends
when the runner is dropped and its threads have returned, and a terminal
behaviour ends at `MaxSteps` or at a panic. The commands have an explicit last
step instead (`Ended`, `Done`) and are checked for deadlock.

Fairness (`PtyRuntime`). Weak fairness of the runner's steps inside an
operation, of the reader thread, of the writer thread outside `write_all` and of
the wait thread: the operating system runs a thread that can run, and a channel
operation that can go on does. Weak fairness of the two deadlines: time passes.
Nothing is assumed of the child, of what it writes, of the caller between two
operations, or of a `write_all` that nothing reads. The commands need none: what
matters of them is what they leave, not that somebody runs them.

### Disagreements with the repository's own statements

Seven runs have to end in a violation; each states what a document or a test
says and is refuted by what the code does.

- `PtyRuntimeDrain`: the PRD asks that a session whose child exits first drains
  until EOF or the drain timeout. Observing the exit closes the writer
  (`runtime.rs:376`), so a query among the drained output is answered on a closed
  input and the run fails there. In this run the caller leaves its input open
  (`OpenInputSpec`): it is the runner that closes it.
- `PtyRuntimeBlockedWrite`: a test states that a slow writer does not block the
  caller of `write_input`. The timed wait comes after a blocking send on a
  channel of one; the third write behind a stuck `write_all` never returns.
- `TerminalStale`: the PRD asks for errors instead of panics. A resize on the
  primary screen leaves the alternate one at the old size, modes 47 and 1047 enter
  it without a reset, and a print indexes outside its rows.
- `StaleRecording`: the PRD asks that a run with `--record` writes a replayable
  recording. Resized on the primary screen and left on the alternate one by mode
  47, the snapshot has the old rows, and the loader refuses the file for it.
- `TerminalVisibility`: a test calls cursor visibility global across switches.
  Entering mode 1049 with a hidden cursor shows it again. (A resize of the
  primary screen does the same; this run keeps the size fixed.)
- `SplitStream`: the PRD asks that a split stream gives what the whole one gives.
  A chunk that ends in an escape byte followed by one that begins with another
  hides the second from the adapter, and a string control is parsed by the
  library instead. `SplitInvariant` shows that this is the only such split.
- `CurrentEvidence`: the policy asks that a resolved gap is linked to its current
  artifact. In this run a first command measures Linux and passes, a second one
  generates the baseline; it looks for the platform evidence under a name no
  command writes (`main.rs:1419`) and carries the gap forward. The gap also names
  macOS, and a command measures the system it runs on only; but the generator asks
  nothing more of the document than to be there.

Seen while modelling, and documented nowhere, so stated by no property: the
baseline is written before it is validated (`main.rs:285`), so an invalid one
stays on disk; the test at `m5_release.rs:943` asks the checked-in readiness to
be blocked, so a release that becomes ready fails it; `publish_order` may name a
crate twice; a recording whose JSON has exactly the maximal length is saved with
one more byte, the final line feed, and then refused (`main.rs:2331`); a snapshot
may have as many events as the action buffer has actions (`terminal-fixtures/src/lib.rs:151`) and a
truncated payload is reported twice, so a run that fills the buffer and truncates
one is saved as a recording that its own loader refuses (`SavedReplays` leaves
out recordings with a truncated payload, those over a limit, and those of a stale
alternate screen, which `StaleRecording` is about); `discarded_rows` of a public
replay counts line feeds (`m5_replay.rs:242`), so that output which returns to
the top of the screen between its lines is reported to have lost rows that never
left the terminal (`DiscardsAreReal` speaks of whole lines); a performance report
may put a benchmark of one commit beside a profile of another.

What the properties do not see: damage of a cursor that moves without changing a
row (`DamageCovers` is about rows and cells); a pane with fewer than 100 samples,
which has no p95 and is not held against the latency limit (`PassIsObserved`
covers the sums); rows of performance files that were edited by hand
(`PassIsMeasured` speaks of files the commands wrote); and where a resize puts the
cursor while a wrap is pending, which the test at `terminal-core/src/lib.rs:440`
expects to be the last printed character.

## 4. What is proved

| module | theorem | states |
|---|---|---|
| `PtyRuntimeProofs` | `TypeCorrect` | `[]TypeOK`: types, and both channels within their capacity |
| | `DeliveredInOrder` | `[]OutputInOrder` |
| | `ExitAnnouncedOnce` | `[]ExitOnce` |
| | `ChildNotAbandoned` | `[]NoAbandonedChild` |
| | `StaysClosed` | `ClosedForGood` |
| | `Prompt` | `[]PromptAfterDeadline` |
| | `WritesOrdered` | `[]WritesInOrder` |
| | `RunsComplete` | `[]CompleteRun` |
| | `ImplementsStream` | `StreamSpec`: the runtime implements `PtyEventStream` |
| `EvidenceProofs` | `ReplayTyped` | `[]ReplayTypeOK` |
| | `BudgetSpent` | `[]BudgetIsSpent` |
| | `DiscardsReal` | `[]DiscardsAreReal` |
| | `SummaryWhole` | `[]SummaryIsWhole` |
| | `PerformanceTyped` | `[]PerformanceTypeOK` |
| | `PassMeasuredAlways` | `[]PassIsMeasured` |
| | `HostTypeCorrect` | `[]HostTypeOK` |
| | `CountedAreDigested` | `[]BoundToDigests` |
| | `PassesAreObserved` | `[]PassIsObserved` |
| | `DecisionAvailable` | some decision is acceptable for any measurement |
| | `TestsFindEvidence` | `[]TestsSeeEvidence` |
| | `FailuresShown` | `[]NoFailureHidden` |
| | `RowsMeasured` | `RowsMeasuredThere` |
| | `RefusalsExplained` | `OutcomesAreRecorded` |
| | `ReleaseTypeCorrect` | `[]ReleaseTypeOK` |
| `TerminalStateProofs` | `AlwaysGood` | `[](Good(term) /\ DamageCovers)`: the inductive invariant |
| | `TerminalTyped` | `[]TypeOK` |
| | `PrimaryAlwaysFits` | `[]PrimaryFits` |
| | `ScrollbackAlwaysBounded` | `[]ScrollbackBounded` |
| | `RowsAlwaysDistinct` | `[]DistinctRows` |
| | `DamageAlwaysCovers` | `[]DamageCovers` |
| | `PanicsOnAlternateOnly` | no index is out of range while the primary screen is shown |
| | `AlternateAlwaysIsolated` | `AlternateIsolation` |
| | `HistoryAlwaysStable` | `StableHistory` |
| | `WideAlwaysPaired` | `[]WidePairs`, where nothing is erased and only the primary screen is used |
| `TerminalParserProofs` | `SplitAdvance` | advancing by two chunks is advancing by their concatenation, unless a held escape meets an escape |
| `RunRecordingProofs` | `RunTyped` | `[]TypeOK` |
| | `BridgeAlwaysAgrees` | `[]BridgeAgrees` |
| | `BufferAlwaysAccounts` | `[]BufferAccounts` |
| | `SplitAlwaysWhole` | `[]SplitInvariant` |
| | `SavedAlwaysReplays` | `[]SavedReplays` |
| | `StreamAlwaysRecorded` | `[]RecordsStream` |
| | `QueriesAlwaysAnswered` | `[]QueriesAnswered` |
| `TerminalCliProofs` | `FixtureTypeCorrect` | `[]FixtureTypeOK` |
| | `DogfoodTypeCorrect` | `[]DogfoodTypeOK` |
| | `DogfoodAlwaysWhole` | `[]DogfoodIsWhole` |
| | `CliImplementsParts` | the program with all its commands implements the specification of each of its seven parts |
| | `CliTyped` | `[]CliTypeOK` |
| | `CliKeepsItsPromises` | the properties of the run `TerminalCli` but `SplitsProved`, of the composed program |

Every safety property that a passing run checks is thereby proved but two:
`ResizeKeepsText` of the terminal and `SplitsProved` of the fixtures, for the
reasons at the end of this section.

Folds. The terminal and the parser are written with folds over sequences. The
library's induction theorems take an operator, which no prover here can
instantiate; `FoldProofs` does induction by least elements of sets of naturals
instead (`LeastElement`, `UpTo`): to prove something of every prefix of a
sequence, collect the lengths it holds for in a set. To say what a fold does, its
operator is made a function on a set (`ScanOp`, `ResizeOp`, `ReplayOp`), of which
the lemmas about `FoldLeft` say that a fold stays in the set, and goes on over an
appended element or a concatenation.

Runtime. `RuntimeAssumption`: any number of chunks, writes and runs, any queries,
capacities and ticks of at least one, any set of faults. None of the first five
is inductive alone. `IInv` adds four parts:

- `Counts`, for the types: a message in the reader's hand is one the channel
  carries; a write number stays within `WriteIds` because every write is one of
  the caller's or answers a delivered chunk; a tick that receives has an
  iteration left (`NeedsLeft`), also when it comes back from a response.
- `InFlight`, for the order: delivered, in the channel and in hand, the chunks
  are numbered without a gap, and an EOF or an error is the last message of a
  reader that has stopped.
- `ExitInv`: the exit status is in one place at a time, from the wait thread
  through `pending_exit` to the callback.
- `CloseInv`: a closed runner has shut its writer's input, and a closed or
  dropped one has taken the exit or tried to kill.

`InitInv` and `IInvStep` are the two halves of the induction; the step is proved
part by part, each action by action. `Counting` and `Shift` are the facts about
sequences they rest on. The later properties add one part each: `DeadlineInv`
bounds the late events by what a tick has used up of its iterations; `WriteInv`
orders what was written, what the writer holds and what is queued; `RunSeen`
relates the locals of a run to what was announced, and `AllRead` follows the last
chunk from the PTY through the reader and the channel to the callback, so that an
EOF taken means nothing is left. For the refinement, `Backed` says that what is in
the channel was read and what was read was written; `StreamSimulation` then maps
every action to a step of the stream or to a stutter. The proofs say nothing of
Rust's own channels beyond what the model says of them: first in, first out,
bounded.

Public replays. `ReplayAssumption`: any corpora and default fixtures with numbers
where the JSON has them, any limits; the width of the padded line number has to be
that of the largest number of generated lines, which is how the code writes both.
`ReplayInv` says of each report that it is true of a fixture that loads
(`GoodReport`), of a verification that what it has yet to look at and what it has
reported make up the directory, without a file twice (`Unverified`), and of its
success that every report passed (`VerdictKept`). Two sums are behind it, each a fold
over the events of a fixture: the bytes written are those declared, because the
padded numbers of generated lines all have the same width (`GeneratedAsDeclared`);
and, of output in whole lines, the rows in the scrollback, above the cursor and
evicted are together the lines printed, which feeding lines adds to and resizing
leaves alone (`FeedHolds`, `ResizeHolds`), so that what is missing from the terminal
was evicted. Text that is `control` keeps the types and the limits (`MovedHolds`,
`PrintHolds`) and nothing else: of it `DiscardsReal` and the last conjunct of
`SummaryWhole` say nothing.

Performance. `PerformanceAssumption`: any operations, times, scenarios and lists
of thresholds in which a metric has at most one maximum of a kind. Nothing keeps
the files on disk from being of different commits or older than the thresholds, so
`PerformanceInv` says of each file what it is alone: a benchmark has a row for each
operation, a profile one for each scenario, and a report (`GoodReportFile`) carries
the inputs and the thresholds it was made from. The roll-up of statuses is then
followed from the whole to each metric.

Host evidence. `HostAssumption` and `HostDocumentsAssumption`: any documents,
metrics, files, paths with links, limits of at least one. `DigestInv` carries the
digest of each checked file through to its second reading unless it was
rewritten; `ExitInv` carries a bound for each counter of the roll-up, with
`AddIsZero` (a saturating sum is zero only of zeros) and `LargerIsBound` (a
maximum over optional values bounds the ones there are).

Release evidence. `ReleaseAssumption`: any programs and tools, any crates in an
order that respects their dependencies, any hand-written plans. `ReleaseInv` says
where a generator is and what it has in hand (`InProgress`), and of each document
on disk that it was torn or made of what the programs behind it did (`OnDisk`).
`PlatformMade`, `ReadinessMade`, `AuditMade` and `SecurityMade` are about the
documents themselves: what is made of outcomes is valid, and says passed only if
they did. `ReleaseTyped` are the types, which need to know that no generator writes
the evidence of M4 that does not exist.

Terminal. `TerminalAssumption`: any sizes that include a valid initial one, any
glyphs with a width, any of the controls, moves and erasures the code knows, any
scrollback budgets. The invariant is `Good /\ DamageCovers`. `Good` has the types,
`PrimaryFits`, the scrollback's bounds with its byte count, the ids of all rows
apart and below the next one, and `panicked` only with the alternate screen shown:
that screen is left at its old size by a resize, so nothing is said of its
dimensions, and every operation has to be followed on a screen that may be stale.
Most of the proof is about one relation between two terminals: `Follows(t, u, S)`
says that `u` is good, that a row which is not in `S` is marked or the same, that
the alternate screen left the primary one alone, and where the rows of `u` come
from. It composes, so each method of `state.rs` is a chain of such steps
(`Carries` where no row is left unmarked, `Edits` inside one row). A resize has
relations of its own: `Moved` for rows that pass between the screen and the
scrollback, `Flowing` for what the reflow makes of them, `Renewed` for the
generation every row then gets, and `Settled`, which is `StableHistory`. The
lemmas of `TerminalScreenProofs` give what a reflow returns: rows of the new
width, a cursor on one of them, each id used once.

Wide characters. `WideAlwaysPaired` has a hypothesis, `NothingErased`, that the
cfg of `TerminalReflow` meets: no erasures, no mode that shows the alternate screen
and at least two columns. Erasing repairs no wide character that it cuts in two
(`state.rs:1025`), a resize while the alternate screen is shown truncates the
primary rows, and in one column a wide character has no place; none of the three
is said to keep pairs. Under it `Wide` is inductive: every row of the scrollback and the
primary screen keeps its pairs, and nothing else is known of it. A print goes
through rows that are not paired: `Loose(cells, H)` leaves the cells `H` that are
being overwritten out, each half that is cleared takes its other half with it, and
at the end `H` is empty. A reflow goes through a logical line: what is cut off a row
when rows are joined is empty, so the line keeps its pairs, and where it is cut into
rows again the spacer of the boundary stands in the last column, so that no wide
character is cut between two rows. The hazard at `state.rs:1543` is these two steps.

Parser. `Parsers` are the adapter's and the library's states; every step of the
library `Continues` one, appending actions and counting what the buffer drops.
`Scans` adds the escape that is held back, which is never held inside a string
the adapter collects. A chunk is a fold of `Scan`, so two chunks are the fold over
both of them, except that an escape held at the end of one is put in front of the
next (`JoinIsScan`), where the code looks at one byte only: `SplitAdvance` has
exactly the exception that `SplitStream` shows to be real.

Run. `RunAssumption`: any chunks that are not empty, any requests, limits, exit
codes and faults. `Typed` and `Sized` are the types, with the size of the terminal
read back from its last resize. `Split` says that the terminal is that of the whole
stream; `Kept` that a whole recording replays to the terminal as it is now, so that
it does when it is saved, and that a run which is saved has recorded its
exit (`KeptSave` goes through what the loader asks of such a file, with the limits,
the truncated payload and the stale screen as its hypotheses, like the property);
`Streams` that the recorded output is the budget's share of the stream and the
responses stand behind what they answer; `Answering` that the tail is the last
three bytes of the stream, so that a query is complete in a chunk exactly when one
ends in it (`EndsMore`), and that each position of the stream lies in one chunk
(`LocatedMore`). An assumption and two definitions had to be made precise for this:
the set of sizes holds no word that events use for something else, and the arms of
two case distinctions in `TerminalParser` overlapped, which TLC resolves by order
and the logic does not.

Fixtures and dogfood. `FixtureAssumption` and `DogfoodAssumption`: any packs of
byte sequences; any sessions of a pane, with recordings as the host wrote them or
edited since. `ReplayFollows` says that the pane of a replay shows the events it
has read, `ShownAfter(recording, nextEvent - 1)`, and that the second pass starts from
what all of them show; it says this of a `Faithful` recording, the host's own that
lost no output. The host's terminal was a fold over the same events (`HappensAlike`,
`SeesFold`), so they agree. What the recorder keeps is counted by induction over
the session (`KeptMore`, `SessionKept`): as many events as happened, and of the
output as much as the budget has room for, so that a recording from which an event or
a byte was taken no longer has the counts in its metadata and does not load. A
host's recording that is refused is one over its budgets or one whose final screen
has other rows than its terminal, which nothing in the session forbids.

All commands. `CliNext` runs one step of one part and leaves the others alone:
`PartsStep` shows that a step of the program is a step or a stutter of every part,
`CliImplementsParts` draws the conclusion, and every theorem about a part holds of
the program (`CliKeepsItsPromises`). That each part uses variables of its own is
what makes this work, and is what `main.rs` has: commands share no memory, and the
files that two of them use belong to one part of the model.

Only model-checked:

- the liveness properties and `ENABLED`, which the prover does not handle;
- `ResizeKeepsText` and the state part of a snapshot, which are built with
  `SelectSeq`: the prover has no definition of it, and nothing is proved of them
  but that equal terminals have equal snapshots;
- `SplitsProved`: the runner cuts a fixture at one place at a time and compares
  snapshots, and that several cuts together change nothing either rests on what a
  snapshot selects, again by `SelectSeq`;
- the properties that runs find violated, and everything a recursion computes for
  every input beyond what the folds of `FoldProofs` give.

## 5. What is not modelled, and what is left

- The construction of a session (`PtySessionRunner::new`, `session.rs`) and the
  portable backend: system calls behind a library, without a state to interleave.
- Value, protocol and render types: data. Of the protocol only the bounded
  payload decides anything; it is in `TerminalParser`.
- `m4_evidence`, `m5_evidence`, `m5_go_no_go`, `m6_baseline`, the compatibility
  and hardening matrices, the M5 dogfood report: one pass over required rows each,
  with no state and no order of steps. A model would repeat the table.
- Text attributes other than the background, image placeholders, UTF-8 and
  intermediates in the parser, the JSON text of documents, the arguments of the
  commands other than `run`, and printing.
- Benches and examples.

Left for later: the composition of `TerminalParser` with the full
`TerminalState` in one run (here the terminal of a run is its list of actions);
a proof of `SplitsProved`; `WidePairs` under the erasures that happen to cut no
wide character.
