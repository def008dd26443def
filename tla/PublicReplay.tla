---------------------------- MODULE PublicReplay ----------------------------
(* The public replay corpora of M4 and M5: generate-m5-replay-derivatives  *)
(* writes the fixtures of M5 into a directory, verify-m4-replay and        *)
(* verify-m5-replay load and replay every fixture of a directory and sum   *)
(* up, export-event-stream publishes one fixture of M4.  One step per      *)
(* fixture written or verified.                                            *)
(* Of a terminal only the rows are counted, each takes one unit of memory; *)
(* the width of the generated line numbers and all limits are scaled down. *)
(* Printed text is either lines that fit the terminal at each of its sizes *)
(* or said to be `control`, and may then do what it likes.                 *)
EXTENDS Integers, SequencesExt

CONSTANTS
    Corpora,             \* the directories of fixtures it may find
    SummaryName,         \* the name of a summary that is put among the fixtures
    DefaultFixtures,     \* m5_default_replay_fixtures, in their order
    MaxReplayEvents,     \* M4/M5_MAX_PUBLIC_REPLAY_EVENTS
    MaxEventBytes,       \* M4/M5_MAX_PUBLIC_REPLAY_EVENT_BYTES
    MaxReplayBytes,      \* M4/M5_MAX_PUBLIC_REPLAY_OUTPUT_BYTES
    MaxGeneratedLines,   \* M5_MAX_GENERATED_OUTPUT_LINES
    LineDigits,          \* the digits a generated line number is padded to
    LongSessionLines,    \* the lines a long session declares at least
    MaxRows,             \* the largest terminal
    DefaultScrollback,   \* the rows of scrollback of a fixture that asks for none
    MaxReplayTime,       \* a bound: the longest a replay takes
    MaxReplayCommands    \* a bound: commands in a behaviour

(* What text does that moves the cursor, erases, wraps or shows the other  *)
(* screen: how many rows it scrolls into the history, and the row and the  *)
(* screen it leaves the cursor on.                                         *)
Moves == [scrolls : Nat, row : Nat, screen : {"primary", "alternate"}]

Prints(event) == event.kind \in {"output", "generated"}

(* What an event says, before anything is checked: the lines of an output  *)
(* are counted in its bytes, a number is not negative.                     *)
EventTyped(event) ==
    /\ event.kind = "output" =>
         event.bytes \in Nat /\ event.newlines \in Nat /\ event.tail \in BOOLEAN
    /\ event.kind = "generated" => event.prefix \in Nat /\ event.count \in Nat
    /\ Prints(event) => event.control \subseteq Moves
    /\ event.kind = "resize" => event.rows \in Nat

FixtureTyped(fixture) ==
    /\ fixture.form = "m5" => fixture.scrollback \subseteq Nat
    /\ fixture.form \in {"m4", "m5"} =>
         /\ fixture.events \in Seq(Range(fixture.events))
         /\ \A event \in Range(fixture.events) : EventTyped(event)

Directory(files) ==
    IsFiniteSet(DOMAIN files) /\ DOMAIN files \subseteq Nat
      /\ \A name \in DOMAIN files : FixtureTyped(files[name])

ASSUME ReplayAssumption ==
    /\ {MaxReplayEvents, MaxEventBytes, MaxReplayBytes, MaxGeneratedLines, LineDigits,
        LongSessionLines, MaxRows, DefaultScrollback, MaxReplayTime, MaxReplayCommands,
        SummaryName} \subseteq Nat
    /\ MaxGeneratedLines = 10 ^ LineDigits
    /\ \A directory \in Corpora : Directory(directory)
    /\ DefaultFixtures \in Seq(Range(DefaultFixtures))
    /\ \A i \in DOMAIN DefaultFixtures :
         DefaultFixtures[i].name \in Nat /\ FixtureTyped(DefaultFixtures[i].fixture)

VARIABLES
    corpus,          \* the directory: file name -> what it holds
    stream,          \* the public event stream exported last, a line per event
    replayCommand,   \* none, generate, verify-m4, verify-m5, export
    queue,           \* the fixtures or paths the command has yet to deal with
    summaryPlace,    \* where verify puts its summary: none, elsewhere, beside
    reports,         \* one per fixture verified
    replayVerdict,   \* of the last command: none, success, failure
    replayCommands   \* commands started

replayVars ==
    <<corpus, stream, replayCommand, queue, summaryPlace, reports, replayVerdict, replayCommands>>

Forms == {"m4", "m5"}
VerifyCommand(form) == IF form = "m4" THEN "verify-m4" ELSE "verify-m5"

(* What a verification summary is to the loader of fixtures.               *)
SummaryFile == [form |-> "summary"]
TornFile == [form |-> "torn"]

Least(a, b) == IF a < b THEN a ELSE b
Most(a, b) == IF a < b THEN b ELSE a
Minus(a, b) == IF a < b THEN 0 ELSE a - b

-----------------------------------------------------------------------------
(* What loads.                                                             *)

M4EventLoads(event) ==
    \/ event.kind = "output" /\ event.bytes \in 1..MaxEventBytes
    \/ event.kind = "resize" /\ event.rows \in 1..MaxRows
    \/ event.kind = "marker"

(* Mutation: an off-by-one at the limit.                                   *)
M5EventLoadsOneMore(event) ==
    \/ M4EventLoads(event)
    \/ event.kind = "generated" /\ event.prefix > 0 /\ event.count \in 1..MaxGeneratedLines + 1

M5EventLoads(event) ==
    \/ M4EventLoads(event)
    \/ event.kind = "generated" /\ event.prefix > 0 /\ event.count \in 1..MaxGeneratedLines

EventLoads(form, event) == IF form = "m4" THEN M4EventLoads(event) ELSE M5EventLoads(event)

(* The bytes and lines validate counts: a number of a generated line is    *)
(* taken to have exactly LineDigits digits.                                *)
DeclaredBytes(event) ==
    CASE event.kind = "output"    -> event.bytes
      [] event.kind = "generated" -> (event.prefix + LineDigits + 2) * event.count
      [] OTHER                    -> 0

(* count_logical_lines: an unfinished last line counts.                    *)
LogicalLines(event) ==
    CASE event.kind = "output"    -> event.newlines + (IF event.tail THEN 1 ELSE 0)
      [] event.kind = "generated" -> event.count
      [] OTHER                    -> 0

Total(events, Count(_)) ==
    FoldLeft(LAMBDA sum, event : sum + Count(event), 0, events)

(* The agent sessions are derived from captures, and scrubbed.             *)
OriginLoads(fixture) ==
    fixture.agent \in {"codex", "claude_code"} =>
        fixture.source = "scrubbed_capture" /\ fixture.privacy = "scrubbed_public"

PolicyLoads(policy) == policy.timeout > 0 /\ policy.memory > 0

M5Loads(fixture) ==
    /\ 0 \notin fixture.scrollback
    /\ PolicyLoads(fixture.policy)
    /\ OriginLoads(fixture)
    /\ fixture.agent = "long_session" =>
         Total(fixture.events, LogicalLines) >= LongSessionLines

(* The redaction a fixture says it has had.                                *)
RedactionLoads(redaction) ==
    redaction.passed /\ redaction.version > 0 /\ "" \notin redaction.rejects

(* scan_public_content: `shows` are the patterns that occur in what a      *)
(* fixture makes public.  M5 looks for what is like a token as well.       *)
RejectPatterns(form, fixture) ==
    {"private"} \cup fixture.redaction.rejects \cup (IF form = "m5" THEN {"token"} ELSE {})

PublicContent(form, fixture) == fixture.shows \cap RejectPatterns(form, fixture) = {}

(* from_path of the form: a file of another schema is refused.             *)
ReplayLoads(form, fixture) ==
    /\ fixture.form = form
    /\ RedactionLoads(fixture.redaction)
    /\ fixture.rows \in 1..MaxRows
    /\ fixture.privacy \in {"synthetic_public", "scrubbed_public"}
    /\ Len(fixture.events) \in 1..MaxReplayEvents
    /\ \A i \in DOMAIN fixture.events : EventLoads(form, fixture.events[i])
    /\ \E i \in DOMAIN fixture.events : Prints(fixture.events[i])
    /\ Total(fixture.events, DeclaredBytes) <= MaxReplayBytes
    /\ PublicContent(form, fixture)
    /\ form = "m5" => M5Loads(fixture)

-----------------------------------------------------------------------------
(* Replaying.                                                              *)

(* The rows of a terminal: how many it shows and keeps in its history, the *)
(* row of the cursor, the screen, and how many rows fell out of the        *)
(* history (a ghost).                                                      *)
Rows(rows, limit) ==
    [rows |-> rows, limit |-> limit, history |-> 0, cursor |-> 0, screen |-> "primary",
     evicted |-> 0]

Scroll(t, n) ==
    LET kept == Least(t.limit, t.history + n) IN
    [t EXCEPT !.history = kept, !.evicted = @ + t.history + n - kept]

(* Lines go down the screen; the alternate one has no history.             *)
Feed(t, newlines) ==
    LET below == t.cursor + newlines IN
    [Scroll(t, IF t.screen = "primary" THEN Minus(below, t.rows - 1) ELSE 0)
        EXCEPT !.cursor = Least(below, t.rows - 1)]

Moved(t, move) ==
    [Scroll(t, move.scrolls)
        EXCEPT !.cursor = Least(move.row, t.rows - 1), !.screen = move.screen]

(* The text of an event that prints: lines, or what is called control.     *)
ApplyText(t, event, newlines) ==
    IF event.control = {} THEN Feed(t, newlines)
    ELSE Moved(t, CHOOSE move \in event.control : TRUE)

(* resize_primary_height: a shorter terminal scrolls what is above the     *)
(* cursor and drops blank rows below, a taller one takes rows back.        *)
ResizePrimary(t, rows) ==
    IF rows < t.rows
    THEN LET scrolled == Minus(t.cursor + 1, rows) IN
         [Scroll(t, scrolled) EXCEPT !.rows = rows, !.cursor = @ - scrolled]
    ELSE LET back == Least(rows - t.rows, t.history) IN
         [t EXCEPT !.rows = rows, !.history = @ - back, !.cursor = @ + back]

(* Under the alternate screen both are cut or filled up below.             *)
ResizeRows(t, rows) ==
    IF t.screen = "primary" THEN ResizePrimary(t, rows)
    ELSE [t EXCEPT !.rows = rows, !.cursor = Least(@, rows - 1)]

(* The width of {line:06}: the least that holds the number.                *)
WrittenDigits(line) ==
    CHOOSE d \in LineDigits..LineDigits + 2 :
        line < 10 ^ d /\ \A less \in LineDigits..d - 1 : line >= 10 ^ less

(* One line after the other, from 0 on.                                    *)
GeneratedBytes(prefix, count) ==
    FoldLeft(LAMBDA sum, line : sum + (prefix + WrittenDigits(line) + 2),
             0, [i \in 1..count |-> i - 1])

WrittenBytes(event) ==
    CASE event.kind = "output"    -> event.bytes
      [] event.kind = "generated" -> GeneratedBytes(event.prefix, event.count)
      [] OTHER                    -> 0

ApplyEvent(done, event) ==
    [terminal |->
       CASE event.kind = "output"    -> ApplyText(done.terminal, event, event.newlines)
         [] event.kind = "generated" -> ApplyText(done.terminal, event, event.count)
         [] event.kind = "resize"    -> ResizeRows(done.terminal, event.rows)
         [] OTHER                    -> done.terminal,
     bytes |-> done.bytes + WrittenBytes(event),
     lines |-> done.lines + LogicalLines(event)]

ScrollbackOf(fixture) ==
    IF fixture.form = "m5" /\ fixture.scrollback # {}
    THEN Least(DefaultScrollback, CHOOSE limit \in fixture.scrollback : TRUE)
    ELSE DefaultScrollback

ReplayOnce(fixture) ==
    FoldLeft(ApplyEvent,
             [terminal |-> Rows(fixture.rows, ScrollbackOf(fixture)), bytes |-> 0, lines |-> 0],
             fixture.events)

(* Mutation: what the screen still shows is reported as discarded.         *)
DiscardedBeyondHistory(done) == Minus(done.lines, done.terminal.history)

Discarded(done) == Minus(done.lines, done.terminal.history + done.terminal.rows)

(* The policy of an M5 fixture.                                            *)
WithinPolicy(fixture, done, elapsed) ==
    /\ elapsed <= fixture.policy.timeout
    /\ done.terminal.history <= fixture.policy.memory
    /\ \A min \in fixture.policy.min : done.lines >= min
    /\ fixture.policy.discards => Discarded(done) > 0

(* An M4 fixture that replays has passed.                                  *)
M4Report(name, fixture) ==
    LET done == ReplayOnce(fixture) IN
    [name |-> name, fixture |-> fixture, elapsed |-> 0, lines |-> done.lines,
     bytes |-> done.bytes, discarded |-> 0, evicted |-> done.terminal.evicted, passed |-> TRUE]

M5Report(name, fixture, elapsed) ==
    LET done == ReplayOnce(fixture) IN
    [M4Report(name, fixture) EXCEPT !.elapsed = elapsed, !.discarded = Discarded(done),
                                    !.passed = WithinPolicy(fixture, done, elapsed)]

Reports(name, fixture) ==
    IF fixture.form = "m4" THEN {M4Report(name, fixture)}
    ELSE {M5Report(name, fixture, elapsed) : elapsed \in 0..MaxReplayTime}

(* Mutation: one fixture that passes is enough.                            *)
SummaryPassesForOne(all) == \E i \in DOMAIN all : all[i].passed

SummaryPasses(all) == \A i \in DOMAIN all : all[i].passed

-----------------------------------------------------------------------------
(* The commands.                                                           *)

ReplayInit ==
    /\ corpus \in Corpora /\ stream = <<>>
    /\ replayCommand = "none" /\ queue = <<>> /\ summaryPlace = "none"
    /\ reports = <<>> /\ replayVerdict = "none" /\ replayCommands = 0

BeginReplay(command, work, where) ==
    /\ replayCommand = "none" /\ replayCommands < MaxReplayCommands
    /\ replayCommands' = replayCommands + 1
    /\ replayCommand' = command /\ queue' = work /\ summaryPlace' = where
    /\ reports' = <<>> /\ replayVerdict' = "none"
    /\ UNCHANGED <<corpus, stream>>

Return(result) ==
    replayCommand' = "none" /\ queue' = <<>> /\ replayVerdict' = result

Generate == BeginReplay("generate", DefaultFixtures, "none")

(* write_text that fails may leave the file as it was or cut short.        *)
WriteFile(name, content) ==
    corpus' = [n \in DOMAIN corpus \cup {name} |-> IF n = name THEN content ELSE corpus[n]]

WriteFails(name) ==
    UNCHANGED corpus \/ WriteFile(name, TornFile)

(* One derivative is loaded as its reader will load it, then written.      *)
WriteDerivative ==
    /\ replayCommand = "generate" /\ queue # <<>>
    /\ IF ReplayLoads("m5", Head(queue).fixture)
       THEN \/ /\ WriteFile(Head(queue).name, Head(queue).fixture)
               /\ queue' = Tail(queue)
               /\ UNCHANGED <<replayCommand, replayVerdict>>
            \/ WriteFails(Head(queue).name) /\ Return("failure")
       ELSE Return("failure") /\ UNCHANGED corpus
    /\ UNCHANGED <<stream, summaryPlace, reports, replayCommands>>

DerivativesWritten ==
    /\ replayCommand = "generate" /\ queue = <<>>
    /\ Return("success")
    /\ UNCHANGED <<corpus, stream, summaryPlace, reports, replayCommands>>

(* collect_replay_json_paths: the names in their order.                    *)
InOrder(names) ==
    CHOOSE order \in [1..Cardinality(names) -> names] :
        \A i, j \in 1..Cardinality(names) : i < j => order[i] < order[j]

Verify(form, where) == BeginReplay(VerifyCommand(form), InOrder(DOMAIN corpus), where)

(* One path: load, replay twice, report.  A replay fails on a snapshot     *)
(* that serialize_snapshot finds too large, and the program where the      *)
(* terminal panics on an alternate screen of another size.                 *)
VerifyFixture(form) ==
    /\ replayCommand = VerifyCommand(form) /\ queue # <<>>
    /\ LET name == Head(queue) IN
       \/ /\ ReplayLoads(form, corpus[name])
          /\ \E report \in Reports(name, corpus[name]) : reports' = Append(reports, report)
          /\ queue' = Tail(queue)
          /\ UNCHANGED <<replayCommand, replayVerdict>>
       \/ Return("failure") /\ UNCHANGED reports
    /\ UNCHANGED <<corpus, stream, summaryPlace, replayCommands>>

(* An empty directory is refused; the summary is written, pass or fail,    *)
(* and the status decides.  It may lie in the directory it is about.       *)
Summarize(form) ==
    /\ replayCommand = VerifyCommand(form) /\ queue = <<>>
    /\ \/ reports = <<>> /\ Return("failure") /\ UNCHANGED corpus
       \/ /\ reports # <<>>
          /\ IF summaryPlace = "beside" THEN WriteFile(SummaryName, SummaryFile)
             ELSE UNCHANGED corpus
          /\ Return(IF SummaryPasses(reports) THEN "success" ELSE "failure")
       \/ /\ reports # <<>> /\ summaryPlace # "none"
          /\ IF summaryPlace = "beside" THEN WriteFails(SummaryName) ELSE UNCHANGED corpus
          /\ Return("failure")
    /\ UNCHANGED <<stream, summaryPlace, reports, replayCommands>>

(* export-event-stream: one fixture of M4, as lines for the public.        *)
PublicLine(event, privacy) == [kind |-> event.kind, privacy |-> privacy]

PublicStream(fixture) ==
    <<PublicLine([kind |-> "header"], fixture.privacy)>>
      \o [i \in DOMAIN fixture.events |-> PublicLine(fixture.events[i], fixture.privacy)]

Export == \E name \in DOMAIN corpus : BeginReplay("export", <<name>>, "none")

ExportStream ==
    /\ replayCommand = "export"
    /\ LET fixture == corpus[Head(queue)] IN
       \/ ReplayLoads("m4", fixture) /\ stream' = PublicStream(fixture) /\ Return("success")
       \/ /\ ReplayLoads("m4", fixture) /\ Return("failure")
          /\ \E n \in 0..Len(fixture.events) :
               stream' \in {stream, SubSeq(PublicStream(fixture), 1, n)}
       \/ ~ReplayLoads("m4", fixture) /\ Return("failure") /\ UNCHANGED stream
    /\ UNCHANGED <<corpus, summaryPlace, reports, replayCommands>>

PublicNext ==
    \/ Export \/ ExportStream
    \/ Generate \/ WriteDerivative \/ DerivativesWritten
    \/ \E form \in Forms :
         \/ \E where \in {"none", "elsewhere", "beside"} : Verify(form, where)
         \/ VerifyFixture(form) \/ Summarize(form)

PublicSpec == ReplayInit /\ [][PublicNext]_replayVars

-----------------------------------------------------------------------------
(* Properties.                                                             *)

ReplayTypeOK ==
    /\ DOMAIN corpus \subseteq Nat
    /\ replayCommand \in {"none", "generate", "export"} \cup {VerifyCommand(form) : form \in Forms}
    /\ summaryPlace \in {"none", "elsewhere", "beside"}
    /\ replayVerdict \in {"none", "success", "failure"}
    /\ \A i \in DOMAIN stream : stream[i].kind # "generated"
    /\ replayCommands \in 0..MaxReplayCommands
    /\ replayCommand = "none" => queue = <<>>
    /\ \A i, j \in DOMAIN reports : i # j => reports[i].name # reports[j].name

(* The budget a fixture is accepted for is the one its replay spends: the  *)
(* bytes that validate counts for generated lines are those that           *)
(* replay_once writes, because no line number outgrows its padding.        *)
BudgetIsSpent ==
    \A i \in DOMAIN reports :
        /\ reports[i].bytes = Total(reports[i].fixture.events, DeclaredBytes)
        /\ reports[i].bytes <= MaxReplayBytes

OfWholeLines(fixture) ==
    \A i \in DOMAIN fixture.events :
        /\ Prints(fixture.events[i]) => fixture.events[i].control = {}
        /\ fixture.events[i].kind = "output" => ~fixture.events[i].tail

(* Rows reported as discarded did leave the terminal, through whatever     *)
(* resizes: the count is made of lines and of what is left, and neither    *)
(* the blank rows a shorter terminal drops nor those a taller one adds     *)
(* may be taken for lost output.  This is so of output of whole lines: the *)
(* code counts newlines, so that a line printed over another one, or on    *)
(* the alternate screen, is reported as discarded and is not in the ghost. *)
DiscardsAreReal ==
    \A i \in DOMAIN reports :
        OfWholeLines(reports[i].fixture) => reports[i].discarded <= reports[i].evicted

(* A verification that succeeds has verified every fixture of the          *)
(* directory, has found at least one, and each kept to its policy; where   *)
(* that asks for discarded rows, a fixture of whole lines did lose some.   *)
SummaryIsWhole ==
    replayCommand = "none" /\ replayVerdict = "success" /\ reports # <<>> =>
        /\ DOMAIN corpus \ {SummaryName} \subseteq {reports[i].name : i \in DOMAIN reports}
        /\ \A i \in DOMAIN reports :
              LET report == reports[i] IN
              report.fixture.form = "m5" =>
                /\ report.elapsed <= report.fixture.policy.timeout
                /\ \A min \in report.fixture.policy.min : report.lines >= min
                /\ report.fixture.policy.discards /\ OfWholeLines(report.fixture) =>
                      report.evicted > 0
=============================================================================
