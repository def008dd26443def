-------------------------- MODULE DogfoodRecording --------------------------
(* The dogfood evidence of M3 (terminal-fixtures/src/lib.rs): a host that  *)
(* shadows one of its panes writes a recording of the session, with the    *)
(* screen it ended on, and a metrics report; M3DogfoodRecording and        *)
(* M3DogfoodMetricsReport load them, replay the recording twice and decide *)
(* what blocks a replacement.  One step per recorded event.                *)
EXTENDS TerminalParser, Integers, FiniteSets

CONSTANTS
    Recordings,       \* the recordings: [honest, session, recording]
    MetricsReports,   \* the paneMetrics reports
    DogfoodSizes,     \* the dimensions a terminal accepts
    Height,           \* the rows of each of them
    MaxDogfoodEvents, \* M3_MAX_DOGFOOD_RECORDING_EVENTS
    MaxDogfoodBytes,  \* M3_MAX_DOGFOOD_RECORDING_OUTPUT_BYTES
    MinSessionLines,  \* M3_LONG_SESSION_MIN_LOGICAL_LINES
    BatchBudget,      \* M3_BATCH_P95_BUDGET_MS
    MemoryBudget      \* M3_10K_MEMORY_DELTA_BUDGET_BYTES

VARIABLES
    dogfood,       \* the recording, and the session it is of (a ghost)
    paneMetrics,   \* the metrics report, once loaded
    dogfoodStage,  \* load, replay, replayed, mismatch, oversized, accepted, rejected
    replayPass,    \* which of the two replays this is
    nextEvent,     \* index of the next event
    dogfoodPane,   \* the terminal it is replayed on
    firstShown     \* what the first replay showed

dogfoodVars ==
    <<dogfood, paneMetrics, dogfoodStage, replayPass, nextEvent, dogfoodPane, firstShown>>

NotMeasured == -1
NoReport == [blocked |-> TRUE]

-----------------------------------------------------------------------------
(* What a recording counts and shows.                                      *)

EventKinds == {"output", "input", "resize", "lifecycle"}

Happening(kind, bytes, size) == [kind |-> kind, bytes |-> bytes, size |-> size]

CountsOf(events) ==
    [kind \in EventKinds |-> Cardinality({i \in DOMAIN events : events[i].kind = kind})]

OutputIn(events) ==
    FlattenSeq([i \in DOMAIN events |->
                  IF events[i].kind = "output" THEN events[i].bytes ELSE <<>>])

(* M3DogfoodFinalSnapshot: the size, the screens and the cursor, but not   *)
(* the events and nothing of a bell.                                       *)
FinalSnapshot(terminal) ==
    SelectSeq(Snapshot(terminal).state, LAMBDA action : action.kind # "Control")

(* Mutation: a replay keeps the size it began with.                        *)
ReplayHappeningUnsized(terminal, event) ==
    IF event.kind = "output" THEN Advance(terminal, event.bytes) ELSE terminal

ReplayHappening(terminal, event) ==
    CASE event.kind = "output" -> Advance(terminal, event.bytes)
      [] event.kind = "resize" -> ResizeTerminal(terminal, event.size)
      [] OTHER                 -> terminal

-----------------------------------------------------------------------------
(* The host.                                                               *)

(* Output is kept as far as the budget goes, events and counts go on.      *)
Keep(kept, event) ==
    LET room == MaxDogfoodBytes - Len(OutputIn(kept)) IN
    Append(kept, IF event.kind = "output"
                 THEN [event EXCEPT !.bytes = SubSeq(@, 1, IF Len(@) < room THEN Len(@) ELSE room)]
                 ELSE event)

(* The host's own terminal, which sees all output and every resize.        *)
HostSees(terminal, event) ==
    LET sized == IF event.size = "none" THEN terminal ELSE ResizeTerminal(terminal, event.size)
    IN  IF event.bytes = <<>> THEN sized ELSE Advance(sized, event.bytes)

HostRecording(size, session) ==
    LET kept == FoldLeft(Keep, <<>>, session) IN
    [size |-> size, events |-> kept, counts |-> CountsOf(kept),
     bytes |-> Len(OutputIn(kept)), truncated |-> OutputIn(kept) # OutputIn(session),
     final |-> FinalSnapshot(FoldLeft(HostSees, OpenTerminal(size), session))]

(* What happens in a pane: it prints, or is resized to a size terminals    *)
(* have, or what happens changes nothing on the screen.                    *)
Session ==
    [kind : {"output"}, bytes : Seq(Byte), size : {"none"}]
      \cup [kind : {"resize"}, bytes : {<<>>}, size : DogfoodSizes]
      \cup [kind : {"input", "lifecycle"}, bytes : {<<>>}, size : {"none"}]

(* A recording in its file: the host's own, or one whose events, size or   *)
(* final screen are no longer as the host wrote them.                      *)
OfSession(d) ==
    LET host == HostRecording(d.recording.size, d.session) IN
    /\ d.session \in Seq(Session) /\ d.recording.events \in Seq(Range(d.recording.events))
    /\ \A i \in DOMAIN d.recording.events :
         d.recording.events[i].kind \in EventKinds /\ d.recording.events[i].bytes \in Seq(Byte)
    /\ d.recording.counts = host.counts /\ d.recording.bytes = host.bytes
    /\ d.honest => d.recording = host /\ d.recording.size \in DogfoodSizes

ASSUME DogfoodAssumption ==
    /\ {MaxDogfoodEvents, MaxDogfoodBytes, MinSessionLines, BatchBudget, MemoryBudget} \subseteq Nat
    /\ Height \in [DogfoodSizes -> Nat]
    /\ "none" \notin DogfoodSizes /\ NoReport \notin MetricsReports
    /\ \A d \in Recordings : OfSession(d)

-----------------------------------------------------------------------------
(* Loading.                                                                *)

(* As many lines as the terminal has rows; how long they are is not asked. *)
FinalLoads(final) ==
    /\ Screens(final).size \in DogfoodSizes
    /\ ViewportSize(final) \in DogfoodSizes
    /\ Height[ViewportSize(final)] = Height[Screens(final).size]

(* M3DogfoodRecording::validate.                                           *)
DogfoodLoads(recording) ==
    /\ recording.size \in DogfoodSizes
    /\ FinalLoads(recording.final)
    /\ Len(recording.events) <= MaxDogfoodEvents
    /\ \A i \in DOMAIN recording.events :
         recording.events[i].kind = "resize" => recording.events[i].size \in DogfoodSizes
    /\ recording.counts = CountsOf(recording.events)
    /\ recording.bytes = Len(OutputIn(recording.events))
    /\ recording.bytes <= MaxDogfoodBytes

(* replacement_blockers: what was not measured blocks as well.             *)
ReplacementBlockers(report) ==
    {what \in {"memory", "latency"} :
        LET value  == IF what = "memory" THEN report.memory ELSE report.p95
            budget == IF what = "memory" THEN MemoryBudget ELSE BatchBudget
        IN  value = NotMeasured \/ value > budget}

StorageLoads(report) ==
    /\ report.kept <= report.max
    /\ IF report.truncated THEN report.observed >= report.kept ELSE report.observed = report.kept

(* M3DogfoodMetricsReport::validate.                                       *)
MetricsLoad(report) ==
    /\ report.size \in DogfoodSizes /\ report.lines >= MinSessionLines
    /\ StorageLoads(report)
    /\ report.samples = 0 => report.p95 = NotMeasured
    /\ IF ReplacementBlockers(report) = {} THEN ~report.blocked
       ELSE report.blocked /\ report.reasons

-----------------------------------------------------------------------------
(* The steps.                                                              *)

DogfoodInit ==
    /\ dogfood \in Recordings /\ paneMetrics = NoReport
    /\ dogfoodStage = "load" /\ replayPass = 1 /\ nextEvent = 1
    /\ dogfoodPane = NewTerminal /\ firstShown = Snapshot(NewTerminal)

LoadDogfood ==
    /\ dogfoodStage = "load"
    /\ dogfoodStage' = IF DogfoodLoads(dogfood.recording) THEN "replay" ELSE "rejected"
    /\ dogfoodPane' = OpenTerminal(dogfood.recording.size)
    /\ UNCHANGED <<dogfood, paneMetrics, replayPass, nextEvent, firstShown>>

ReplayEventOfDogfood ==
    /\ dogfoodStage = "replay" /\ nextEvent <= Len(dogfood.recording.events)
    /\ dogfoodPane' = ReplayHappening(dogfoodPane, dogfood.recording.events[nextEvent])
    /\ nextEvent' = nextEvent + 1
    /\ UNCHANGED <<dogfood, paneMetrics, dogfoodStage, replayPass, firstShown>>

(* The first replay must show what the recording ended on, the second must *)
(* give the same snapshot; one too large for a snapshot ends the first     *)
(* (serialize_snapshot).                                                   *)
CompareDogfood ==
    /\ dogfoodStage = "replay" /\ nextEvent > Len(dogfood.recording.events)
    /\ \/ /\ replayPass = 1 /\ FinalSnapshot(dogfoodPane) = dogfood.recording.final
          /\ replayPass' = 2 /\ nextEvent' = 1 /\ firstShown' = Snapshot(dogfoodPane)
          /\ dogfoodPane' = OpenTerminal(dogfood.recording.size)
          /\ UNCHANGED dogfoodStage
       \/ /\ replayPass = 1 /\ FinalSnapshot(dogfoodPane) # dogfood.recording.final
          /\ dogfoodStage' = "mismatch"
          /\ UNCHANGED <<replayPass, nextEvent, dogfoodPane, firstShown>>
       \/ /\ replayPass = 1
          /\ dogfoodStage' = "oversized"
          /\ UNCHANGED <<replayPass, nextEvent, dogfoodPane, firstShown>>
       \/ /\ replayPass = 2
          /\ dogfoodStage' = IF Snapshot(dogfoodPane) = firstShown THEN "replayed" ELSE "mismatch"
          /\ UNCHANGED <<replayPass, nextEvent, dogfoodPane, firstShown>>
    /\ UNCHANGED <<dogfood, paneMetrics>>

(* The report is another file and another call.                            *)
LoadMetrics ==
    /\ dogfoodStage = "load"
    /\ \E report \in MetricsReports :
         /\ paneMetrics' = report
         /\ dogfoodStage' = IF MetricsLoad(report) THEN "accepted" ELSE "rejected"
    /\ UNCHANGED <<dogfood, replayPass, nextEvent, dogfoodPane, firstShown>>

DogfoodNext == LoadDogfood \/ ReplayEventOfDogfood \/ CompareDogfood \/ LoadMetrics

DogfoodSpec == DogfoodInit /\ [][DogfoodNext]_dogfoodVars

-----------------------------------------------------------------------------
(* Properties.                                                             *)

DogfoodTypeOK ==
    /\ paneMetrics \in MetricsReports \cup {NoReport}
    /\ dogfoodStage \in
         {"load", "replay", "replayed", "mismatch", "oversized", "accepted", "rejected"}
    /\ replayPass \in 1..2 /\ nextEvent \in 1..Len(dogfood.recording.events) + 1

(* Whatever the host records within its budgets loads and replays to the   *)
(* screen it saw, unless that was a stale alternate screen of another      *)
(* height, which the loader refuses; and a recording that replays as good  *)
(* holds each event of the session and each byte of its output up to the   *)
(* budget, even if what was lost would not show on the screen.             *)
DogfoodIsWhole ==
    /\ dogfoodStage \in {"mismatch", "rejected"} /\ paneMetrics = NoReport =>
         \/ ~dogfood.honest \/ dogfood.recording.truncated
         \/ Len(dogfood.session) > MaxDogfoodEvents
         \/ ~FinalLoads(dogfood.recording.final)
    /\ dogfoodStage = "replayed" =>
         /\ Len(dogfood.recording.events) = Len(dogfood.session)
         /\ Len(OutputIn(dogfood.recording.events)) =
              IF Len(OutputIn(dogfood.session)) < MaxDogfoodBytes
              THEN Len(OutputIn(dogfood.session)) ELSE MaxDogfoodBytes
=============================================================================
