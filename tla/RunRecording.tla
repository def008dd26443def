---------------------------- MODULE RunRecording ----------------------------
(***************************************************************************)
(* `terminal-cli run`: crates/terminal-cli/src/main.rs drives a PTY        *)
(* session through the bridge of crates/terminal-pty/src/bridge.rs into a  *)
(* terminal, answers the cursor position queries it sees, and records what *)
(* happened; crates/terminal-fixtures/src/lib.rs loads and replays it.     *)
(*                                                                         *)
(* One run: the child is started, the sizes of the script are applied, the *)
(* input file is written, the events of PtyRuntime are handled one by one, *)
(* the result is printed and the recording saved.  What the PTY, the child *)
(* and the file system do is chosen by the environment: Faults says which  *)
(* of their calls may fail.                                                *)
(***************************************************************************)
EXTENDS TerminalParser

CONSTANTS
    Chunks,        \* the chunks the reader may deliver
    MaxChunks,     \* bound: chunks of one run
    Requests,      \* the command lines: [command, size, script, files, input, record, save_output]
    TerminalSizes, \* the PTY sizes the terminal accepts as well
    ExitCodes,     \* what the child may exit with
    OutputBudget,  \* M2_CLI_MAX_RECORDING_OUTPUT_BYTES
    MaxEvents,     \* M2_MAX_PTY_RECORDING_EVENTS
    MaxSnapshotEvents, \* M1_MAX_SNAPSHOT_EVENTS, in the code M1_ACTION_BUFFER_LIMIT
    Faults         \* subset of {"spawn", "resize", "write", "timeout", "emit", "save"}

ASSUME RunAssumption ==
    /\ MaxChunks \in Nat /\ OutputBudget \in Nat /\ MaxEvents \in Nat
    /\ MaxSnapshotEvents = ActionLimit
    /\ ExitCodes \subseteq Nat
    /\ \A chunk \in Chunks : chunk \in Seq(Byte) /\ chunk # <<>>
    /\ \A r \in Requests : r.script \in Seq(Range(r.script)) /\ r.record \in BOOLEAN
    /\ "response" \notin TerminalSizes

VARIABLES
    request,      \* RunOptions
    phase,        \* where execute_run and run_command are
    resizes,      \* how many sizes of the script have been applied
    t,            \* CoreRunSink.terminal
    pty_size,     \* the size of the PTY
    input,        \* whether the session still takes input
    exit,         \* the exit code the callback was told, or -1
    eof,          \* whether it was told of EOF
    recording,    \* RecordingState
    tail,         \* TerminalQueryResponder.tail
    delivered,    \* the chunks the callback was given
    answers,      \* for each response the child was sent: the chunk it answers
    emitted,      \* whether the snapshot was printed or written
    saved,        \* the recording file
    code          \* the exit code of terminal-cli

vars == <<request, phase, resizes, t, pty_size, input, exit, eof, recording, tail,
          delivered, answers, emitted, saved, code>>

NotYet    == -1
PanicCode == 101

Query == <<Esc, "[", Digit, "n">>

-----------------------------------------------------------------------------
(* The sink.                                                               *)

(* CoreRunSink::current_size: the size of the last resize.                 *)
TerminalSize(terminal) ==
    LET last == SelectLastInSeq(terminal.applied, LAMBDA action : action.kind = "Resize")
    IN  terminal.applied[last].final

-----------------------------------------------------------------------------
(* RecordingState.                                                         *)

Event(kind, what) == [kind |-> kind, bytes |-> <<>>, what |-> what]
BytesEvent(kind, bytes) == [kind |-> kind, bytes |-> bytes, what |-> "none"]

NewRecording(enabled) ==
    [enabled |-> enabled, events |-> <<>>, output_bytes |-> 0, truncated |-> FALSE]

(* push_resize, push_input and push_pty_event for EOF and the exit: no     *)
(* limit applies to them.                                                  *)
Push(r, event) == IF r.enabled THEN [r EXCEPT !.events = Append(@, event)] ELSE r

(* Mutant: the budget is not applied.                                      *)
RetainedWhole(r, bytes) == bytes

(* push_output: as much as the budget leaves; what exceeds it is flagged,  *)
(* and nothing is recorded after that.                                     *)
Retained(r, bytes) ==
    LET remaining == OutputBudget - r.output_bytes
    IN  SubSeq(bytes, 1, IF Len(bytes) < remaining THEN Len(bytes) ELSE remaining)

(* Mutant: only the next chunk notices that the budget is used up.         *)
PushOutputUnflagged(r, bytes) ==
    LET retained == Retained(r, bytes)
        kept     == IF retained = <<>> THEN r ELSE Push(r, BytesEvent("Output", retained))
    IN  IF ~r.enabled \/ r.truncated THEN r
        ELSE [kept EXCEPT !.output_bytes = @ + Len(retained), !.truncated = retained = <<>>]

PushOutput(r, bytes) ==
    LET retained == Retained(r, bytes)
        kept     == IF retained = <<>> THEN r ELSE Push(r, BytesEvent("Output", retained))
    IN  IF ~r.enabled \/ r.truncated THEN r
        ELSE [kept EXCEPT !.output_bytes = @ + Len(retained),
                          !.truncated = Len(retained) < Len(bytes)]

-----------------------------------------------------------------------------
(* TerminalQueryResponder::response_for_output.                            *)

LastBytes(bytes, n) == SubSeq(bytes, IF Len(bytes) < n THEN 1 ELSE Len(bytes) - n + 1, Len(bytes))
AtEnd(bytes, position) == SubSeq(bytes, position - Len(Query) + 1, position) = Query

Completes(bytes) == \E position \in Len(Query)..Len(bytes) : AtEnd(bytes, position)
(* Mutant: the tail may be a whole query.                                  *)
NextTailWhole(combined) == LastBytes(combined, Len(Query))

NextTail(combined) == LastBytes(combined, Len(Query) - 1)

-----------------------------------------------------------------------------
(* PtyRecording: what was saved, whether it loads, what replaying it gives.*)

(* Whether the rows and cells of the snapshot, or the whole file, exceed   *)
(* their limits, the model cannot tell: it may be.                         *)
Artifact(oversized) ==
    [size |-> request.size, script |-> request.script, exit |-> exit, oversized |-> oversized,
     recording |-> recording, final_snapshot |-> Snapshot(t)]

OutputOf(events) ==
    FlattenSeq([i \in DOMAIN events |->
                  IF events[i].kind = "Output" THEN events[i].bytes ELSE <<>>])

SizeLoads(size) == size \in TerminalSizes

(* validate_snapshot: as many rows and cells as the terminal has, and not  *)
(* more events than a snapshot may have.                                   *)
SnapshotLoads(snapshot) ==
    /\ ~Stale(snapshot.state)
    /\ Len(snapshot.events) <= MaxSnapshotEvents

(* PtyRecording::from_path and validate.                                   *)
Loads(artifact) ==
    LET events == artifact.recording.events
    IN  /\ ~artifact.oversized
        /\ Len(events) <= MaxEvents
        /\ SizeLoads(artifact.size)
        /\ \A i \in DOMAIN artifact.script : SizeLoads(artifact.script[i])
        /\ \A i \in DOMAIN events :
              /\ events[i].kind = "Output" => events[i].bytes # <<>>
              /\ events[i].kind = "Resize" => SizeLoads(events[i].what)
        /\ SnapshotLoads(artifact.final_snapshot)
        /\ Len(OutputOf(events)) <= OutputBudget
        /\ \E i \in DOMAIN events : events[i].kind = "Exit"
        /\ artifact.recording.output_bytes = Len(OutputOf(events))

(* Mutant: a replay keeps the size it began with.                          *)
ReplayKeepsSize(terminal, event) ==
    IF event.kind = "Output" THEN Advance(terminal, event.bytes) ELSE terminal

(* PtyRecording::replay_once: inputs, EOF and the exit change nothing.     *)
ReplayEvent(terminal, event) ==
    CASE event.kind = "Output" -> Advance(terminal, event.bytes)
      [] event.kind = "Resize" -> ResizeTerminal(terminal, event.what)
      [] OTHER                 -> terminal

Replay(artifact) ==
    Snapshot(FoldLeft(ReplayEvent, OpenTerminal(artifact.size), artifact.recording.events))

-----------------------------------------------------------------------------
(* The run.                                                                *)

Running == phase = "running"

Init ==
    /\ request \in Requests
    /\ phase = "start"
    /\ resizes = 0
    /\ t = NewTerminal
    /\ pty_size = "none"
    /\ input = "closed"
    /\ exit = NotYet /\ eof = FALSE
    /\ recording = NewRecording(request.record)
    /\ tail = <<>>
    /\ delivered = <<>> /\ answers = <<>>
    /\ emitted = FALSE /\ saved = {} /\ code = NotYet

(* execute_run returns an error: the process exits with 1, nothing printed.*)
Fail == phase' = "done" /\ code' = 1

StreamSame == UNCHANGED <<tail, delivered, answers, exit, eof>>
ResultSame == UNCHANGED <<emitted, saved>>

(* RunOptions::parse: there is something to run, and the files are usable: *)
(* --output has a directory, the input file is a file and not too large.   *)
UsageError(r) == r.command \in {"nothing", "shell command without --shell"}
Parses(r) == ~UsageError(r) /\ r.files = "usable"

RefuseRequest ==
    /\ phase = "start" /\ ~Parses(request)
    /\ phase' = "done"
    /\ code' = IF UsageError(request) THEN 2 ELSE 1
    /\ UNCHANGED <<request, resizes, t, pty_size, input, recording>>
    /\ StreamSame /\ ResultSame

(* CoreRunSink::new, reading the input, backend.spawn,                     *)
(* PtySessionRunner::new; the last three may fail.                         *)
StartRun ==
    /\ phase = "start" /\ Parses(request)
    /\ \/ /\ SizeLoads(request.size)
          /\ t' = OpenTerminal(request.size)
          /\ pty_size' = request.size
          /\ input' = "open"
          /\ phase' = "setup"
          /\ UNCHANGED code
       \/ /\ ~SizeLoads(request.size) \/ "spawn" \in Faults
          /\ Fail
          /\ UNCHANGED <<t, pty_size, input>>
    /\ UNCHANGED <<request, resizes, recording>>
    /\ StreamSame /\ ResultSame

(* Mutant: the sink keeps the size the PTY refused.                        *)
NotRolledBack(size, previous) == ResizeTerminal(t, size)

(* The sink after a resize the PTY refused: resized and set back.          *)
RolledBack(size, previous) == ResizeTerminal(ResizeTerminal(t, size), previous)

(* PtyBridge::resize_session and push_resize: the sink first, then the     *)
(* PTY; when the PTY fails the sink is set back and the run ends.          *)
ResizeSession ==
    /\ phase = "setup" /\ resizes < Len(request.script)
    /\ LET size     == request.script[resizes + 1]
           previous == TerminalSize(t)
       IN  \/ /\ SizeLoads(size)
              /\ t' = ResizeTerminal(t, size)
              /\ pty_size' = size
              /\ resizes' = resizes + 1
              /\ recording' = Push(recording, Event("Resize", size))
              /\ UNCHANGED <<phase, code>>
           \/ /\ SizeLoads(size) /\ "resize" \in Faults
              /\ t' = RolledBack(size, previous)
              /\ Fail
              /\ UNCHANGED <<pty_size, resizes, recording>>
           \/ /\ ~SizeLoads(size)
              /\ Fail
              /\ UNCHANGED <<t, pty_size, resizes, recording>>
    /\ UNCHANGED <<request, input>>
    /\ StreamSame /\ ResultSame

(* build_command_plan: a shell without a command reads its input to EOF.   *)
CloseInputAfterSpawn(r) == r.command = "shell"

(* The input file is written and recorded, then the input is closed; it is *)
(* closed at once for a shell that would read it.                          *)
ProvideInput ==
    /\ phase = "setup" /\ resizes = Len(request.script)
    /\ \/ /\ request.input = "file"
          /\ recording' = Push(recording, Event("Input", "file"))
          /\ input' = "closed"
          /\ phase' = "running"
          /\ UNCHANGED code
       \/ /\ request.input = "file" /\ "write" \in Faults
          /\ Fail
          /\ UNCHANGED <<recording, input>>
       \/ /\ request.input # "file"
          /\ input' = IF CloseInputAfterSpawn(request) THEN "closed" ELSE "open"
          /\ phase' = "running"
          /\ UNCHANGED <<recording, code>>
    /\ UNCHANGED <<request, resizes, t, pty_size>>
    /\ StreamSame /\ ResultSame

(* What the callback records: the chunk, then the response.                *)
RecordChunk(chunk, answered) ==
    LET pushed == PushOutput(recording, chunk)
    IN  IF answered THEN Push(pushed, Event("Input", "response")) ELSE pushed

(* The callback on Output: the terminal advances, a response is made, the  *)
(* chunk and then the response are recorded, and the runner writes the     *)
(* response, which fails once the input is closed or the child has exited. *)
Output(chunk) ==
    LET combined == tail \o chunk
        answered == Completes(combined)
    IN  /\ Running /\ ~eof /\ Len(delivered) < MaxChunks
        /\ t' = Advance(t, chunk)
        /\ tail' = NextTail(combined)
        /\ delivered' = Append(delivered, chunk)
        /\ recording' = RecordChunk(chunk, answered)
        /\ \/ /\ ~answered
              /\ UNCHANGED <<answers, phase, code>>
           \/ /\ answered /\ input = "open"
              /\ answers' = Append(answers, Len(delivered) + 1)
              /\ UNCHANGED <<phase, code>>
           \/ /\ answered /\ (input = "closed" \/ "write" \in Faults)
              /\ Fail
              /\ UNCHANGED answers
        /\ UNCHANGED <<request, resizes, pty_size, input, exit, eof>>
        /\ ResultSame

(* What is printed or erased on a stale alternate screen may lie outside   *)
(* of its rows.                                                            *)
TouchesStale(before, after) ==
    \E i \in (Len(before.applied) + 1)..Len(after.applied) :
        /\ after.applied[i].kind \in {"Print", "Control", "Csi"}
        /\ Stale(SubSeq(after.applied, 1, i - 1))

(* Then applying the chunk panics, which ends the process at once.         *)
Panic(chunk) ==
    /\ Running /\ ~eof /\ Len(delivered) < MaxChunks
    /\ TouchesStale(t, Advance(t, chunk))
    /\ phase' = "done" /\ code' = PanicCode
    /\ UNCHANGED <<request, resizes, t, pty_size, input, recording>>
    /\ StreamSame /\ ResultSame

Eof ==
    /\ Running /\ ~eof
    /\ eof' = TRUE
    /\ recording' = Push(recording, Event("Eof", "none"))
    /\ UNCHANGED <<request, phase, resizes, t, pty_size, input, exit, tail, delivered, answers, code>>
    /\ ResultSame

(* The runner closes its writer when it observes the exit.                 *)
Exit ==
    /\ Running /\ exit = NotYet
    /\ \E status \in ExitCodes : exit' = status
    /\ input' = "closed"
    /\ recording' = Push(recording, Event("Exit", "none"))
    /\ UNCHANGED <<request, phase, resizes, t, pty_size, eof, tail, delivered, answers, code>>
    /\ ResultSame

(* The run completes after EOF or by its drain deadline; without an exit   *)
(* it ends by the command deadline, or because the PTY cannot be read.     *)
Complete ==
    /\ Running
    /\ \/ /\ exit # NotYet /\ (eof \/ "timeout" \in Faults)
          /\ phase' = "emit"
          /\ UNCHANGED code
       \/ /\ exit = NotYet /\ "timeout" \in Faults
          /\ Fail
    /\ UNCHANGED <<request, resizes, t, pty_size, input, recording>>
    /\ StreamSame /\ ResultSame

(* emit_run_output: writing to --output may fail and ends the command.     *)
Emit ==
    /\ phase = "emit"
    /\ \/ emitted' = TRUE /\ phase' = "save" /\ UNCHANGED code
       \/ /\ request.save_output /\ "emit" \in Faults
          /\ Fail /\ UNCHANGED emitted
    /\ UNCHANGED <<request, resizes, t, pty_size, input, recording, saved>>
    /\ StreamSame

(* child_exit_code: what does not fit a byte becomes 1.                    *)
ChildExitCode(status) == IF status < 256 THEN status ELSE 1

(* write_recording and the exit code of the command.                       *)
Save ==
    /\ phase = "save"
    /\ phase' = "done"
    /\ \/ /\ request.record
          /\ \E oversized \in BOOLEAN : saved' = {Artifact(oversized)}
          /\ code' = ChildExitCode(exit)
       \/ /\ ~request.record
          /\ saved' = {}
          /\ code' = ChildExitCode(exit)
       \/ /\ request.record /\ "save" \in Faults
          /\ code' = 1
          /\ UNCHANGED saved
    /\ UNCHANGED <<request, resizes, t, pty_size, input, recording, emitted>>
    /\ StreamSame

Done == phase = "done" /\ UNCHANGED vars

Next ==
    \/ RefuseRequest \/ StartRun \/ ResizeSession \/ ProvideInput
    \/ \E chunk \in Chunks : Output(chunk) \/ Panic(chunk)
    \/ Eof \/ Exit \/ Complete \/ Emit \/ Save \/ Done

Spec == Init /\ [][Next]_vars

-----------------------------------------------------------------------------
(* Properties.                                                             *)

(* Every variable has its type, the tail is shorter than a query and at    *)
(* most one recording is saved.                                            *)
TypeOK ==
    /\ request \in Requests
    /\ phase \in {"start", "setup", "running", "emit", "save", "done"}
    /\ resizes \in 0..Len(request.script)
    /\ pty_size \in TerminalSizes \cup {"none"}
    /\ input \in {"open", "closed"}
    /\ exit \in ExitCodes \cup {NotYet} /\ eof \in BOOLEAN
    /\ recording.enabled = request.record
    /\ recording.output_bytes \in 0..OutputBudget
    /\ Len(tail) < Len(Query)
    /\ delivered \in Seq(Chunks) /\ Len(delivered) <= MaxChunks
    /\ emitted \in BOOLEAN
    /\ code \in Nat \cup {NotYet}

(* The terminal that got all the output so far in one piece.               *)
SizedTerminal(n) == FoldLeft(ResizeTerminal, OpenTerminal(request.size), SubSeq(request.script, 1, n))
WholeTerminal == Advance(SizedTerminal(resizes), FlattenSeq(delivered))

(* PTY output that arrives in several chunks leaves the snapshot the       *)
(* unsplit stream leaves (VteAdapter::advance, and what the PRDs of M1, M2 *)
(* and M6 ask of it).                                                      *)
SplitStreamEqualsWhole == delivered # <<>> => Snapshot(t) = Snapshot(WholeTerminal)

(* The same for every stream in which no chunk boundary parts two escape   *)
(* bytes: pending escapes, string controls, device control strings, their  *)
(* truncated payloads and the suppressed terminator survive every split.   *)
PartsEscapes(i) == delivered[i][Len(delivered[i])] = Esc /\ delivered[i + 1][1] = Esc
SplitInvariant ==
    delivered # <<>> /\ (\A i \in 1..(Len(delivered) - 1) : ~PartsEscapes(i)) => t = WholeTerminal

(* The action buffer keeps its limit and accounts for every action applied *)
(* and every one generated: what it does not keep is counted as dropped.   *)
BufferAccounts ==
    LET Handled  == {i \in DOMAIN t.applied : t.applied[i].kind # "Resize"}
        Answered == {i \in Handled : Generates(t.applied[i])}
    IN  /\ Len(t.actions) <= ActionLimit
        /\ Len(t.actions) + t.dropped = Cardinality(Handled) + Cardinality(Answered)

(* A saved recording loads again, whatever was dropped, answered or        *)
(* resized, unless it exceeds a limit, its terminal truncated a payload    *)
(* (which a snapshot reports twice) or ended on a stale alternate screen   *)
(* (which RecordingsLoad is about); and one whose output is whole replays  *)
(* to the snapshot that was saved with it (PtyRecording::replay).          *)
WithinLimits(artifact) ==
    ~artifact.oversized /\ Len(artifact.recording.events) <= MaxEvents

SavedReplays ==
    \A artifact \in saved :
        LET told == artifact.final_snapshot.events
            Cut  == \E i \in DOMAIN told : told[i].kind = "PayloadLimitExceeded"
        IN  /\ WithinLimits(artifact) /\ ~Cut /\ ~Stale(artifact.final_snapshot.state) =>
                  Loads(artifact)
            /\ ~artifact.recording.truncated => ~Differ(artifact.final_snapshot, Replay(artifact))

(* Every recording a run writes within the limits is one that can be       *)
(* replayed (write_recording, PtyRecording::from_path).                    *)
RecordingsLoad == \A artifact \in saved : WithinLimits(artifact) => Loads(artifact)

(* The chunk of the stream a position lies in.                             *)
BytesOf(n) == Len(FlattenSeq(SubSeq(delivered, 1, n)))
ChunkAt(position) == CHOOSE n \in 1..Len(delivered) : BytesOf(n - 1) < position /\ position <= BytesOf(n)

(* While the run goes on, the child was sent one response for each chunk   *)
(* that completes a query of the stream, however queries are split, and no *)
(* response for any other.                                                 *)
QueriesAnswered ==
    Running =>
        LET stream == FlattenSeq(delivered)
            ends   == {p \in Len(Query)..Len(stream) : AtEnd(stream, p)}
        IN  /\ Range(answers) = {ChunkAt(p) : p \in ends}
            /\ Len(answers) = Cardinality(Range(answers))

(* A recording holds the first OutputBudget bytes of the output, in order, *)
(* however they were cut into chunks, says that it is truncated exactly    *)
(* when there were more (push_output), and shows each response after the   *)
(* output it answers and before the next one.                              *)
RecordsStream ==
    recording.enabled =>
        LET seen      == FlattenSeq(delivered)
            events    == recording.events
            kept      == OutputOf(events)
            Responses == {i \in DOMAIN events : events[i].what = "response"}
            OutputsBefore(i) == Cardinality({j \in 1..i : events[j].kind = "Output"})
        IN  /\ IsPrefix(kept, seen)
            /\ recording.output_bytes = Len(kept)
            /\ Len(kept) = IF Len(seen) < OutputBudget THEN Len(seen) ELSE OutputBudget
            /\ recording.truncated <=> Len(seen) > OutputBudget
            /\ Running /\ ~recording.truncated =>
                 {OutputsBefore(i) : i \in Responses} = Range(answers)

(* The terminal and the PTY have the same size after every resize, the one *)
(* the PTY refused included (PtyBridge::resize_session).                   *)
BridgeAgrees == pty_size # "none" => TerminalSize(t) = pty_size
=============================================================================
