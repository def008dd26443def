--------------------------- MODULE FixtureReplay ---------------------------
(* `terminal-cli replay`: the fixture packs of terminal-fixtures/src/lib.rs *)
(* and FixtureRunner, which replays each fixture of a pack, compares what   *)
(* the terminal shows with what the fixture expects and, where the fixture  *)
(* asks for it, replays its bytes cut in two at every place.  One step per  *)
(* chunk replayed and per cut.                                              *)
(* A size stands for columns and rows; an expectation for the text, cursor  *)
(* and styles is one expected state, or none.                               *)
EXTENDS TerminalParser, Integers

CONSTANTS
    Packs,          \* the packs of fixtures it may be given
    FixtureSizes,   \* the sizes a fixture may open and resize a terminal to
    MaxFixtures,    \* M1_MAX_FIXTURES_PER_PACK
    MaxInputs,      \* M1_MAX_CHUNKS_PER_FIXTURE
    MaxInputBytes,  \* M1_MAX_FIXTURE_INPUT_BYTES
    MaxSplitBytes   \* M1_MAX_SPLIT_BOUNDARY_BYTES

(* A pack was parsed from its file: fixtures in order, each with chunks.   *)
PackTyped(fixtures) ==
    /\ fixtures \in Seq(Range(fixtures))
    /\ \A i \in DOMAIN fixtures :
         LET chunks == fixtures[i].chunks IN
         /\ chunks \in Seq(Range(chunks))
         /\ \A j \in DOMAIN chunks : chunks[j].bytes \in Seq(Byte)

ASSUME FixtureAssumption ==
    /\ MaxFixtures \in Nat /\ MaxInputs \in Nat /\ MaxInputBytes \in Nat /\ MaxSplitBytes \in Nat
    /\ \A fixtures \in Packs : PackTyped(fixtures)

VARIABLES
    pack,     \* the fixtures it was given
    runner,   \* where run_pack is: load, chunks, split, passed, failed, rejected
    current,  \* index of the fixture being run
    place,    \* index of its next chunk, or of the next place to cut
    screen,   \* the terminal it is replayed on
    shown     \* the snapshot after its last chunk

fixtureVars == <<pack, runner, current, place, screen, shown>>

Nothing == "nothing"

-----------------------------------------------------------------------------
(* Loading.                                                                *)

IsResize(chunk) == chunk.resize # Nothing

InputOf(fixture) ==
    FlattenSeq([i \in DOMAIN fixture.chunks |-> fixture.chunks[i].bytes])

(* InputChunk::from_raw: bytes or a resize, and neither empty nor both.    *)
ChunkLoads(chunk) ==
    \/ chunk.bytes # <<>> /\ ~IsResize(chunk)
    \/ chunk.bytes = <<>> /\ chunk.resize \in FixtureSizes

(* An expected state is the one member of a set, or not stated.            *)
Asserts(expected) == expected.states # {} \/ expected.events # {}

(* Fixture::from_raw.                                                      *)
FixtureLoads(fixture) ==
    /\ fixture.size \in FixtureSizes
    /\ Len(fixture.chunks) \in 1..MaxInputs
    /\ \A i \in DOMAIN fixture.chunks : ChunkLoads(fixture.chunks[i])
    /\ Len(InputOf(fixture)) <= MaxInputBytes
    /\ Asserts(fixture.expected)
    /\ \A checkpoint \in fixture.checkpoints :
         checkpoint.after \in DOMAIN fixture.chunks /\ Asserts(checkpoint.expected)
    /\ fixture.split => /\ \A i \in DOMAIN fixture.chunks : ~IsResize(fixture.chunks[i])
                        /\ Len(InputOf(fixture)) <= MaxSplitBytes

PackLoads(fixtures) ==
    Len(fixtures) \in 1..MaxFixtures /\ \A i \in DOMAIN fixtures : FixtureLoads(fixtures[i])

-----------------------------------------------------------------------------
(* Replaying and comparing.                                                *)

ReplayChunk(terminal, chunk) ==
    IF IsResize(chunk) THEN ResizeTerminal(terminal, chunk.resize)
    ELSE Advance(terminal, chunk.bytes)

ReplayOf(fixture, chunks) ==
    Snapshot(FoldLeft(ReplayChunk, OpenTerminal(fixture.size), chunks))

(* compare_lines, compare_wrapped_rows and compare_cell_styles: what is    *)
(* stated is what is shown.  Rows that wrap are compared even where none   *)
(* are stated; no input here is long enough to wrap one.                   *)
StateMet(snapshot, expected) == expected.states \subseteq {snapshot.state}

(* verify_expected.                                                        *)
Meets(snapshot, expected) ==
    /\ StateMet(snapshot, expected)
    /\ \A kind \in expected.events :
         \E i \in DOMAIN snapshot.events : snapshot.events[i].kind = kind

CheckpointsMet(fixture, i, snapshot) ==
    \A checkpoint \in fixture.checkpoints :
        checkpoint.after = i => Meets(snapshot, checkpoint.expected)

Bytes(input) == [bytes |-> input, resize |-> Nothing]
CutAt(input, i) == <<Bytes(SubSeq(input, 1, i)), Bytes(SubSeq(input, i + 1, Len(input)))>>

-----------------------------------------------------------------------------
(* run_pack.                                                               *)

FixtureInit ==
    /\ pack \in Packs
    /\ runner = "load" /\ current = 1 /\ place = 1
    /\ screen = NewTerminal /\ shown = Snapshot(NewTerminal)

Fixture == pack[current]

Stop(outcome) == runner' = outcome /\ UNCHANGED <<current, place, screen, shown>>

BeginFixture(i) ==
    /\ runner' = "chunks" /\ current' = i /\ place' = 1
    /\ screen' = OpenTerminal(pack[i].size)

LoadPack ==
    /\ runner = "load"
    /\ IF PackLoads(pack) THEN BeginFixture(1) /\ UNCHANGED shown
       ELSE Stop("rejected")
    /\ UNCHANGED pack

(* A chunk, and the checkpoints after it.                                  *)
ReplayNext ==
    /\ runner = "chunks" /\ place <= Len(Fixture.chunks)
    /\ LET after == ReplayChunk(screen, Fixture.chunks[place]) IN
       IF CheckpointsMet(Fixture, place, Snapshot(after))
       THEN /\ screen' = after /\ place' = place + 1
            /\ UNCHANGED <<runner, current, shown>>
       ELSE Stop("failed")
    /\ UNCHANGED pack

(* run_fixture after the first replay: the expectations, the second replay *)
(* and, when asked for, the places to cut.                                 *)
CompareReplay ==
    /\ runner = "chunks" /\ place > Len(Fixture.chunks)
    /\ LET snapshot == Snapshot(screen)
           again    == ReplayOf(Fixture, Fixture.chunks)
       IN  IF Meets(snapshot, Fixture.expected) /\ (Fixture.deterministic => again = snapshot)
           THEN /\ shown' = snapshot /\ place' = 1
                /\ runner' = "split"
                /\ UNCHANGED <<current, screen>>
           ELSE Stop("failed")
    /\ UNCHANGED pack

(* Mutation: the bytes are replayed once more, but not cut.                *)
PlacesOfNone(fixture) == {}

Places(fixture) == IF fixture.split THEN 1..Len(InputOf(fixture)) - 1 ELSE {}

(* verify_split_boundaries, one place.                                     *)
SplitNext ==
    /\ runner = "split" /\ place \in Places(Fixture)
    /\ IF ReplayOf(Fixture, CutAt(InputOf(Fixture), place)) = shown
       THEN place' = place + 1 /\ UNCHANGED <<runner, current, screen, shown>>
       ELSE Stop("failed")
    /\ UNCHANGED pack

FixtureDone ==
    /\ runner = "split" /\ place \notin Places(Fixture)
    /\ IF current = Len(pack) THEN Stop("passed")
       ELSE BeginFixture(current + 1) /\ UNCHANGED shown
    /\ UNCHANGED pack

FixtureNext == LoadPack \/ ReplayNext \/ CompareReplay \/ SplitNext \/ FixtureDone

FixtureSpec == FixtureInit /\ [][FixtureNext]_fixtureVars

-----------------------------------------------------------------------------
(* Properties.                                                             *)

FixtureTypeOK ==
    /\ pack \in Packs
    /\ runner \in {"load", "chunks", "split", "passed", "failed", "rejected"}
    /\ runner \notin {"load", "rejected"} =>
         /\ current \in DOMAIN pack
         /\ place \in 1..Len(Fixture.chunks) + Len(InputOf(Fixture)) + 1
    /\ Len(screen.actions) <= ActionLimit

(* A sequence cut into pieces at a set of places.                          *)
PiecesAt(input, cuts) ==
    LET ends  == cuts \cup {Len(input)}
        sorted == SetToSortSeq(ends, LAMBDA a, b : a < b)
    IN  [i \in DOMAIN sorted |->
           Bytes(SubSeq(input, IF i = 1 THEN 1 ELSE sorted[i - 1] + 1, sorted[i]))]

(* A pack that passes with split boundaries proves what its name promises: *)
(* each such fixture shows the same however its bytes are cut, into two    *)
(* pieces or more.                                                         *)
SplitsProved ==
    runner = "passed" =>
        \A i \in DOMAIN pack :
            pack[i].split =>
                LET input == InputOf(pack[i]) IN
                \A cuts \in SUBSET (1..Len(input) - 1) :
                    ReplayOf(pack[i], PiecesAt(input, cuts)) = ReplayOf(pack[i], pack[i].chunks)
=============================================================================
