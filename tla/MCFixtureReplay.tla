-------------------------- MODULE MCFixtureReplay --------------------------
(* Constants for the TLC runs of FixtureReplay.                            *)
EXTENDS FixtureReplay

Expect(states, events) == [states |-> states, events |-> events]
FixtureOf(chunks, expected, checkpoints, split) ==
    [size |-> "80x24", chunks |-> chunks, expected |-> expected, checkpoints |-> checkpoints,
     split |-> split, deterministic |-> TRUE]
AfterChunk(i, expected) == [after |-> i, expected |-> expected]
ResizeTo(size) == [bytes |-> <<>>, resize |-> size]

(* Streams of up to four bytes that the parsers tell apart, all cut.       *)
ShowsOpen(size) == Expect({Snapshot(OpenTerminal(size)).state}, {})
SplitStreams ==
    {FixtureOf(<<Bytes(stream)>>, Expect({ReplayOf([size |-> "80x24"], <<Bytes(stream)>>).state}, {}),
               {}, TRUE) :
        stream \in UNION {[1..n -> {Esc, "]", "x", Can}] : n \in 1..4}}

Sequence == <<Esc, "[", Digit, "n">>
Stepwise(expected, checkpoints) ==
    FixtureOf(<<Bytes(<<Esc, "[">>), ResizeTo("100x30"), Bytes(<<Digit, "n">>)>>,
              expected, checkpoints, FALSE)
ReportsCsi == Expect({}, {"Csi"})
Odd ==
    {Stepwise(ReportsCsi, {AfterChunk(3, ReportsCsi)}),
     Stepwise(ReportsCsi, {AfterChunk(2, ReportsCsi)}),
     Stepwise(Expect({}, {"Osc"}), {}),
     Stepwise(Expect({}, {}), {}),
     Stepwise(ReportsCsi, {AfterChunk(4, ReportsCsi)}),
     FixtureOf(<<ResizeTo("100x30"), Bytes(<<"x">>)>>, ShowsOpen("80x24"), {}, TRUE),
     FixtureOf(<<ResizeTo("huge"), Bytes(<<"x">>)>>, ShowsOpen("80x24"), {}, FALSE),
     FixtureOf(<<>>, ShowsOpen("80x24"), {}, FALSE),
     FixtureOf(<<Bytes(Sequence), Bytes(<<"x">>)>>, ReportsCsi, {}, TRUE)}

FixturePacks ==
    {<<fixture>> : fixture \in SplitStreams \cup Odd}
      \cup {<<first, second>> : first \in Odd, second \in Odd} \cup {<<>>}
=============================================================================
