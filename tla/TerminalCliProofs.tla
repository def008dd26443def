------------------------- MODULE TerminalCliProofs -------------------------
(***************************************************************************)
(* The fixture packs, the dogfood recordings and the program as a whole:   *)
(* the invariants of FixtureReplay and DogfoodRecording, and what every    *)
(* part is proved to keep, kept by TerminalCli, for all packs, recordings, *)
(* documents, sizes and limits.                                            *)
(***************************************************************************)
EXTENDS TerminalCli, RunRecordingProofs, EvidenceProofs

-----------------------------------------------------------------------------
(* Fixtures.                                                               *)

(* A terminal of a fixture: new, or opened with some size that loads.      *)
FixtureTerminals ==
    {w \in Terminals(FixtureSizes) : \E size \in FixtureSizes : w \in Ready(FixtureSizes, size)}

LEMMA PackParts ==
    ASSUME NEW p \in Packs
    PROVE  /\ p \in Seq(Range(p)) /\ Len(p) \in Nat /\ DOMAIN p = 1..Len(p)
           /\ \A i \in DOMAIN p :
                /\ p[i].chunks \in Seq(Range(p[i].chunks)) /\ Len(p[i].chunks) \in Nat
                /\ DOMAIN p[i].chunks = 1..Len(p[i].chunks)
                /\ \A j \in DOMAIN p[i].chunks : p[i].chunks[j].bytes \in Seq(Byte)
  <1>1. PackTyped(p)
    BY FixtureAssumption
  <1> QED
    BY <1>1, Lengths DEF PackTyped

LEMMA InputTyped ==
    ASSUME NEW p \in Packs, NEW i \in DOMAIN p
    PROVE  InputOf(p[i]) \in Seq(Byte) /\ Len(InputOf(p[i])) \in Nat
  <1> DEFINE chunks == p[i].chunks
             parts == [j \in DOMAIN chunks |-> chunks[j].bytes]
             n == Len(chunks)
  <1>1. n \in Nat /\ DOMAIN chunks = 1..n /\ \A j \in DOMAIN chunks : chunks[j].bytes \in Seq(Byte)
    BY PackParts
  <1>2. InputOf(p[i]) = FlattenSeq(parts)
    BY DEF InputOf
  <1> HIDE DEF chunks, n
  <1>3. parts \in Seq(Seq(Byte))
    BY <1>1
  <1> HIDE DEF parts
  <1>4. FlattenSeq(parts) \in Seq(Byte)
    BY <1>3, FlattenType
  <1> QED
    BY <1>2, <1>4

LEMMA OpensFixture ==
    ASSUME NEW size \in FixtureSizes
    PROVE  OpenTerminal(size) \in FixtureTerminals
  BY OpenReady DEF FixtureTerminals, Ready

LEMMA ChunkReplayed ==
    ASSUME NEW w \in FixtureTerminals, NEW chunk, chunk.bytes \in Seq(Byte), ChunkLoads(chunk)
    PROVE  ReplayChunk(w, chunk) \in FixtureTerminals
  <1>1. PICK size \in FixtureSizes : w \in Ready(FixtureSizes, size)
    BY DEF FixtureTerminals
  <1>2. CASE IsResize(chunk)
    <2>1. chunk.resize \in FixtureSizes
      BY <1>2 DEF ChunkLoads
    <2>2. ResizeTerminal(w, chunk.resize) \in Ready(FixtureSizes, chunk.resize)
      BY <1>1, <2>1, ResizeReady
    <2> QED
      BY <1>2, <2>1, <2>2 DEF ReplayChunk, FixtureTerminals, Ready
  <1>3. CASE ~IsResize(chunk)
    <2>1. Advance(w, chunk.bytes) \in Ready(FixtureSizes, size)
      BY <1>1, AdvanceScans
    <2> QED
      BY <1>3, <2>1 DEF ReplayChunk, FixtureTerminals, Ready
  <1> QED
    BY <1>2, <1>3

(* The runner is in a fixture of a pack that loaded, at one of its chunks  *)
(* or places to cut.                                                       *)
AtFixture ==
    /\ PackLoads(pack) /\ current \in DOMAIN pack /\ screen \in FixtureTerminals
    /\ runner = "chunks" => place \in 1..Len(Fixture.chunks) + 1
    /\ place \in 1..Len(Fixture.chunks) + Len(InputOf(Fixture)) + 1

FixtureInv ==
    /\ pack \in Packs
    /\ runner \in {"load", "chunks", "split", "passed", "failed", "rejected"}
    /\ IF runner \in {"load", "rejected"} THEN screen = NewTerminal ELSE AtFixture

LEMMA FixtureInvInit == FixtureInit => FixtureInv
  BY DEF FixtureInit, FixtureInv

LEMMA BeginsFixture ==
    ASSUME pack \in Packs, PackLoads(pack), NEW i \in DOMAIN pack, BeginFixture(i), pack' = pack
    PROVE  FixtureInv'
  <1>1. pack[i].size \in FixtureSizes
    BY DEF PackLoads, FixtureLoads
  <1>2. screen' \in FixtureTerminals
    BY <1>1, OpensFixture DEF BeginFixture
  <1>3. Len(pack[i].chunks) \in Nat /\ Len(InputOf(pack[i])) \in Nat
    BY PackParts, InputTyped
  <1>4. runner' = "chunks" /\ current' = i /\ place' = 1 /\ Fixture' = pack[i]
    BY DEF BeginFixture, Fixture
  <1> DEFINE n == Len(pack[i].chunks)
             m == Len(InputOf(pack[i]))
  <1>5. n \in Nat /\ m \in Nat /\ 1 \in 1..n + 1 /\ 1 \in 1..n + m + 1
    <2>1. n \in Nat /\ m \in Nat
      BY <1>3
    <2> HIDE DEF n, m
    <2> QED
      BY <2>1
  <1>6. AtFixture'
    BY <1>2, <1>4, <1>5 DEF AtFixture
  <1> QED
    BY <1>4, <1>6 DEF FixtureInv

LEMMA FixtureInvStep == FixtureInv /\ [FixtureNext]_fixtureVars => FixtureInv'
  <1> SUFFICES ASSUME FixtureInv, [FixtureNext]_fixtureVars PROVE FixtureInv'
    OBVIOUS
  <1> DEFINE n == Len(Fixture.chunks)
             m == Len(InputOf(Fixture))
  <1>1. ASSUME runner \notin {"load", "rejected"}
        PROVE  /\ AtFixture /\ n \in Nat /\ m \in Nat /\ place \in 1..n + m + 1
               /\ runner = "chunks" => place \in 1..n + 1
    BY <1>1, PackParts, InputTyped DEF FixtureInv, AtFixture, Fixture
  <1>2. ASSUME runner \notin {"load", "rejected"}, NEW outcome \in {"passed", "failed"},
               Stop(outcome), pack' = pack
        PROVE  FixtureInv'
    BY <1>1, <1>2 DEF Stop, FixtureInv, AtFixture, Fixture
  <1>3. CASE LoadPack
    <2>1. CASE PackLoads(pack)
      <3>1. 1 \in DOMAIN pack
        BY <2>1, PackParts DEF FixtureInv, PackLoads
      <3> QED
        BY <1>3, <2>1, <3>1, BeginsFixture DEF LoadPack, FixtureInv
    <2>2. CASE ~PackLoads(pack)
      BY <1>3, <2>2 DEF LoadPack, FixtureInv, Stop
    <2> QED
      BY <2>1, <2>2
  <1>4. CASE ReplayNext
    <2> DEFINE chunk == Fixture.chunks[place]
    <2>1. AtFixture /\ place \in 1..n /\ n \in Nat /\ m \in Nat /\ runner = "chunks"
      <3>1. AtFixture /\ n \in Nat /\ m \in Nat /\ place \in 1..n + 1 /\ place <= n
        BY <1>1, <1>4 DEF ReplayNext
      <3> HIDE DEF n, m
      <3> QED
        BY <1>4, <3>1 DEF ReplayNext
    <2>2. chunk.bytes \in Seq(Byte) /\ ChunkLoads(chunk)
      <3>1. place \in DOMAIN Fixture.chunks /\ current \in DOMAIN pack
        BY <2>1, PackParts DEF FixtureInv, AtFixture, Fixture
      <3> QED
        BY <2>1, <3>1, PackParts DEF FixtureInv, AtFixture, Fixture, PackLoads, FixtureLoads
    <2>3. ReplayChunk(screen, chunk) \in FixtureTerminals
      BY <2>1, <2>2, ChunkReplayed DEF AtFixture
    <2>4. CASE Stop("failed") /\ pack' = pack
      BY <1>2, <2>1, <2>4
    <2>5. CASE /\ screen' = ReplayChunk(screen, chunk) /\ place' = place + 1
               /\ UNCHANGED <<runner, current, shown>> /\ pack' = pack
      <3>1. place' \in 1..n + 1 /\ place' \in 1..n + m + 1
        <4> HIDE DEF n, m
        <4> QED
          BY <2>1, <2>5
      <3> QED
        BY <2>1, <2>3, <2>5, <3>1 DEF FixtureInv, AtFixture, Fixture
    <2> QED
      BY <1>4, <2>4, <2>5 DEF ReplayNext
  <1>5. CASE CompareReplay
    <2>1. runner = "chunks" /\ pack' = pack
      BY <1>5 DEF CompareReplay
    <2>2. CASE Stop("failed")
      BY <1>2, <2>1, <2>2
    <2>3. CASE place' = 1 /\ runner' = "split" /\ UNCHANGED <<current, screen>>
      <3>1. 1 \in 1..n + m + 1
        <4>1. n \in Nat /\ m \in Nat
          BY <1>1, <2>1
        <4> HIDE DEF n, m
        <4> QED
          BY <4>1
      <3> QED
        BY <1>1, <2>1, <2>3, <3>1 DEF FixtureInv, AtFixture, Fixture
    <2> QED
      BY <1>5, <2>2, <2>3 DEF CompareReplay
  <1>6. CASE SplitNext
    <2>1. runner = "split" /\ place \in Places(Fixture) /\ pack' = pack
      BY <1>6 DEF SplitNext
    <2>2. CASE Stop("failed")
      BY <1>2, <2>1, <2>2
    <2>3. CASE place' = place + 1 /\ UNCHANGED <<runner, current, screen, shown>>
      <3>1. place' \in 1..n + m + 1
        <4>1. n \in Nat /\ m \in Nat
          BY <1>1, <2>1
        <4>2. place \in 1..m - 1
          BY <2>1 DEF Places
        <4> HIDE DEF n, m
        <4> QED
          BY <2>3, <4>1, <4>2
      <3> QED
        BY <1>1, <2>1, <2>3, <3>1 DEF FixtureInv, AtFixture, Fixture
    <2> QED
      BY <1>6, <2>2, <2>3 DEF SplitNext
  <1>7. CASE FixtureDone
    <2>1. runner = "split" /\ pack' = pack /\ AtFixture
      BY <1>1, <1>7 DEF FixtureDone
    <2>2. CASE current = Len(pack)
      BY <1>2, <1>7, <2>1, <2>2 DEF FixtureDone
    <2>3. CASE current # Len(pack)
      <3>1. current + 1 \in DOMAIN pack
        BY <2>1, <2>3, PackParts DEF FixtureInv, AtFixture
      <3> QED
        BY <1>7, <2>1, <2>3, <3>1, BeginsFixture DEF FixtureDone, FixtureInv, AtFixture
    <2> QED
      BY <2>2, <2>3
  <1>8. CASE UNCHANGED fixtureVars
    BY <1>8 DEF fixtureVars, FixtureInv, AtFixture, Fixture
  <1> QED
    BY <1>3, <1>4, <1>5, <1>6, <1>7, <1>8 DEF FixtureNext

LEMMA FixtureInvTyped == FixtureInv => FixtureTypeOK
  <1> SUFFICES ASSUME FixtureInv PROVE FixtureTypeOK
    OBVIOUS
  <1>1. Len(screen.actions) <= ActionLimit
    <2>1. CASE screen = NewTerminal
      BY <2>1, NewReady DEF Accounted
    <2>2. CASE screen \in FixtureTerminals
      BY <2>2 DEF FixtureTerminals, Ready, Open, Accounted
    <2> QED
      BY <2>1, <2>2 DEF FixtureInv, AtFixture
  <1> QED
    BY <1>1 DEF FixtureInv, AtFixture, FixtureTypeOK

(* Every variable of FixtureReplay keeps its type: the runner stays within *)
(* the pack and its chunks, and the terminal it replays on within its      *)
(* action buffer, for any pack.                                            *)
THEOREM FixtureTypeCorrect == FixtureSpec => []FixtureTypeOK
  BY FixtureInvInit, FixtureInvStep, FixtureInvTyped, PTL DEF FixtureSpec
-----------------------------------------------------------------------------
(* What a dogfood recording shows and counts.                              *)

Printed(event) == IF event.kind = "output" THEN event.bytes ELSE <<>>

(* Events with bytes, whatever else they have.                             *)
Eventful(E) == \A e \in E : e.bytes \in Seq(Byte)

LEMMA PrintedMore ==
    ASSUME NEW E, Eventful(E), NEW events \in Seq(E), NEW e \in E
    PROVE  /\ OutputIn(<<>>) = <<>>
           /\ OutputIn(events) \in Seq(Byte) /\ Len(OutputIn(events)) \in Nat
           /\ OutputIn(Append(events, e)) = OutputIn(events) \o Printed(e)
           /\ Printed(e) \in Seq(Byte) /\ Len(Printed(e)) \in Nat
  <1> DEFINE Of(s) == [i \in DOMAIN s |-> Printed(s[i])]
             more == Append(events, e)
             n == Len(events)
  <1>1. \A s : OutputIn(s) = FlattenSeq(Of(s))
    BY DEF OutputIn, Printed
  <1>2. \A x \in E : Printed(x) \in Seq(Byte)
    <2> TAKE x \in E
    <2>1. x.bytes \in Seq(Byte) /\ <<>> \in Seq(Byte)
      BY DEF Eventful
    <2> QED
      BY <2>1 DEF Printed
  <1>3. /\ n \in Nat /\ DOMAIN events = 1..n /\ DOMAIN more = 1..(n + 1) /\ more[n + 1] = e
        /\ \A i \in 1..n : more[i] = events[i] /\ events[i] \in E
    OBVIOUS
  <1>4. Of(events) = [i \in 1..n |-> Printed(events[i])]
    BY <1>3
  <1>5. \A i \in 1..n : Printed(events[i]) \in Seq(Byte)
    BY <1>2, <1>3
  <1>6. Of(events) \in Seq(Seq(Byte)) /\ Len(Of(events)) = n
    BY <1>3, <1>4, <1>5
  <1>7. Of(more) = Append(Of(events), Printed(e))
    <2>1. Of(more) = [i \in 1..(n + 1) |-> Printed(more[i])]
      BY <1>3
    <2>2. \A i \in 1..(n + 1) : Printed(more[i]) = IF i = n + 1 THEN Printed(e) ELSE Printed(events[i])
      BY <1>3
    <2> DEFINE own == Of(events)
               x == Printed(e)
    <2>3. \A i \in 1..n : own[i] = Printed(events[i])
      BY <1>3
    <2>4. own \in Seq(Seq(Byte)) /\ Len(own) = n /\ x \in Seq(Byte)
      BY <1>2, <1>6
    <2> HIDE DEF own, x, Of, more, n
    <2>5. Append(own, x) = [i \in 1..(n + 1) |-> IF i = n + 1 THEN x ELSE own[i]]
      <3> DEFINE m == Append(own, x)
      <3>1. m \in Seq(Seq(Byte)) /\ Len(m) = n + 1
            /\ \A i \in 1..(n + 1) : m[i] = IF i = n + 1 THEN x ELSE own[i]
        BY <1>3, <2>4, AppendProperties
      <3> HIDE DEF m
      <3>2. m = [i \in 1..(n + 1) |-> m[i]]
        BY <3>1
      <3>3. m = [i \in 1..(n + 1) |-> IF i = n + 1 THEN x ELSE own[i]]
        BY <3>1, <3>2
      <3> QED
        BY <3>3 DEF m
    <2>6. \A i \in 1..(n + 1) : Printed(more[i]) = IF i = n + 1 THEN x ELSE own[i]
      BY <1>3, <2>2, <2>3 DEF x
    <2> QED
      BY <2>1, <2>5, <2>6 DEF own, x
  <1>8. Of(<<>>) = <<>> /\ <<>> \in Seq(Seq(Byte))
    OBVIOUS
  <1> HIDE DEF Of
  <1>9. FlattenSeq(<<>>) = <<>>
    BY FlattenType, <1>8
  <1>10. /\ OutputIn(<<>>) = <<>> /\ OutputIn(events) \in Seq(Byte) /\ Printed(e) \in Seq(Byte)
         /\ OutputIn(Append(events, e)) = OutputIn(events) \o Printed(e)
    BY <1>1, <1>2, <1>6, <1>7, <1>8, <1>9, FlattenType, FlattenAppend
  <1> QED
    BY <1>10, Lengths

LEMMA SessionEvents ==
    /\ Eventful(Session)
    /\ \A e \in Session : e.kind \in EventKinds
    /\ \A e \in Session, bytes \in Seq(Byte) : e.kind = "output" => [e EXCEPT !.bytes = bytes] \in Session
  <1>1. <<>> \in Seq(Byte)
    OBVIOUS
  <1> QED
    BY <1>1 DEF Session, Eventful, EventKinds

LEMMA DisjointCounts ==
    ASSUME NEW S, IsFiniteSet(S), NEW T, IsFiniteSet(T), S \cap T = {}
    PROVE  /\ IsFiniteSet(S \cup T)
           /\ Cardinality(S \cup T) = Cardinality(S) + Cardinality(T)
  <1>1. Cardinality(S \cap T) = 0 /\ Cardinality(S) \in Nat /\ Cardinality(T) \in Nat
    BY FS_EmptySet, FS_CardinalityType
  <1>2. /\ IsFiniteSet(S \cup T)
        /\ Cardinality(S \cup T) = Cardinality(S) + Cardinality(T) - Cardinality(S \cap T)
    BY FS_Union
  <1> DEFINE a == Cardinality(S)
             b == Cardinality(T)
             c == Cardinality(S \cap T)
             d == Cardinality(S \cup T)
  <1>3. d = a + b
    <2>1. c = 0 /\ a \in Nat /\ b \in Nat /\ d = a + b - c
      BY <1>1, <1>2
    <2> HIDE DEF a, b, c, d
    <2> QED
      BY <2>1
  <1> QED
    BY <1>2, <1>3

(* As many events as are counted of all kinds.                             *)
LEMMA CountedUp ==
    ASSUME NEW events, events \in Seq(Range(events)),
           \A i \in DOMAIN events : events[i].kind \in EventKinds
    PROVE  LET c == CountsOf(events) IN
           /\ \A kind \in EventKinds : c[kind] \in Nat
           /\ Len(events) = c["output"] + c["input"] + c["resize"] + c["lifecycle"]
  <1> DEFINE n == Len(events)
             Of(kind) == {i \in DOMAIN events : events[i].kind = kind}
             a == Of("output")
             b == Of("input")
             c == Of("resize")
             d == Of("lifecycle")
  <1>1. n \in Nat /\ DOMAIN events = 1..n
    BY Lengths
  <1>2. IsFiniteSet(1..n) /\ Cardinality(1..n) = n
    <2> HIDE DEF n
    <2>1. IsFiniteSet(1..n) /\ Cardinality(1..n) = IF 1 > n THEN 0 ELSE n - 1 + 1
      BY <1>1, FS_Interval
    <2> QED
      BY <1>1, <2>1
  <1>3. /\ a \cup b \cup c \cup d = 1..n
        /\ a \cap b = {} /\ (a \cup b) \cap c = {} /\ (a \cup b \cup c) \cap d = {}
    BY <1>1 DEF EventKinds
  <1>4. \A kind : IsFiniteSet(Of(kind)) /\ Cardinality(Of(kind)) \in Nat
    BY <1>1, <1>2, FS_Subset, FS_CardinalityType
  <1>5. \A kind \in EventKinds : CountsOf(events)[kind] = Cardinality(Of(kind))
    BY DEF CountsOf
  <1>6. {"output", "input", "resize", "lifecycle"} \subseteq EventKinds
    BY DEF EventKinds
  <1>7. /\ IsFiniteSet(a) /\ IsFiniteSet(b) /\ IsFiniteSet(c) /\ IsFiniteSet(d)
        /\ CountsOf(events)["output"] = Cardinality(a) /\ CountsOf(events)["input"] = Cardinality(b)
        /\ CountsOf(events)["resize"] = Cardinality(c) /\ CountsOf(events)["lifecycle"] = Cardinality(d)
        /\ Cardinality(a) \in Nat /\ Cardinality(b) \in Nat
        /\ Cardinality(c) \in Nat /\ Cardinality(d) \in Nat
    BY <1>4, <1>5, <1>6
  <1> HIDE DEF n, a, b, c, d
  <1>8. IsFiniteSet(a \cup b) /\ Cardinality(a \cup b) = Cardinality(a) + Cardinality(b)
    BY <1>3, <1>7, DisjointCounts
  <1>9. /\ IsFiniteSet(a \cup b \cup c)
        /\ Cardinality(a \cup b \cup c) = Cardinality(a \cup b) + Cardinality(c)
    BY <1>3, <1>7, <1>8, DisjointCounts
  <1>10. Cardinality(a \cup b \cup c \cup d) = Cardinality(a \cup b \cup c) + Cardinality(d)
    BY <1>3, <1>7, <1>9, DisjointCounts
  <1>11. n = Cardinality(a) + Cardinality(b) + Cardinality(c) + Cardinality(d)
    BY <1>2, <1>3, <1>8, <1>9, <1>10
  <1> DEFINE counts == CountsOf(events)
  <1>12. \A kind \in EventKinds : counts[kind] \in Nat
    BY <1>4, <1>5
  <1>13. /\ counts["output"] = Cardinality(a) /\ counts["input"] = Cardinality(b)
         /\ counts["resize"] = Cardinality(c) /\ counts["lifecycle"] = Cardinality(d)
    BY <1>7
  <1> HIDE DEF counts
  <1>14. n = counts["output"] + counts["input"] + counts["resize"] + counts["lifecycle"]
    BY <1>11, <1>13
  <1> QED
    BY <1>12, <1>14 DEF n, counts

-----------------------------------------------------------------------------
(* What the host keeps of a session.                                       *)

KeptSeqs == {s \in Seq(Session) : Len(OutputIn(s)) <= MaxDogfoodBytes}
KeepOp == [p \in KeptSeqs \X Session |-> Keep(p[1], p[2])]

KeptOf(session) == FoldLeft(Keep, <<>>, session)

Lesser(a, b) == IF a < b THEN a ELSE b

LEMMA DogfoodConstants ==
    /\ MaxDogfoodEvents \in Nat /\ MaxDogfoodBytes \in Nat
    /\ "none" \notin DogfoodSizes /\ NoReport \notin MetricsReports
    /\ \A d \in Recordings : OfSession(d)
  BY DogfoodAssumption

LEMMA KeepEffect ==
    ASSUME NEW kept \in KeptSeqs, NEW e \in Session
    PROVE  \E f \in Session :
              /\ Keep(kept, e) = Append(kept, f)
              /\ Len(Printed(f)) = Lesser(Len(Printed(e)), MaxDogfoodBytes - Len(OutputIn(kept)))
              /\ Len(Printed(f)) = Len(Printed(e)) => f = e
  <1> DEFINE room == MaxDogfoodBytes - Len(OutputIn(kept))
             m == Lesser(Len(e.bytes), room)
             short == SubSeq(e.bytes, 1, m)
             g == [e EXCEPT !.bytes = short]
             f == IF e.kind = "output" THEN g ELSE e
  <1>1. kept \in Seq(Session) /\ room \in Nat
    <2>1. Len(OutputIn(kept)) \in Nat /\ Len(OutputIn(kept)) <= MaxDogfoodBytes /\ kept \in Seq(Session)
      BY PrintedMore, SessionEvents DEF KeptSeqs
    <2> DEFINE x == Len(OutputIn(kept))
    <2> HIDE DEF x
    <2>2. x \in Nat /\ x <= MaxDogfoodBytes
      BY <2>1 DEF x
    <2>3. MaxDogfoodBytes - x \in Nat
      BY <2>2, DogfoodConstants
    <2> QED
      BY <2>1, <2>3 DEF x
  <1>2. e.bytes \in Seq(Byte) /\ Len(e.bytes) \in Nat
    BY SessionEvents, Lengths DEF Eventful
  <1>3. Keep(kept, e) = Append(kept, f)
    BY DEF Keep, Lesser
  <1> HIDE DEF room
  <1>4. m \in 0..Len(e.bytes)
    <2> DEFINE n == Len(e.bytes)
    <2> HIDE DEF n
    <2>1. n \in Nat
      BY <1>2 DEF n
    <2>2. Lesser(n, room) \in 0..n
      BY <1>1, <2>1 DEF Lesser
    <2> QED
      BY <2>2 DEF n
  <1>5. /\ short \in Seq(Byte) /\ Len(short) = m
        /\ m = Len(e.bytes) => short = e.bytes
    <2> HIDE DEF m
    <2> QED
      BY <1>2, <1>4
  <1> HIDE DEF m, short
  <1>6. CASE e.kind = "output"
    <2>1. g \in Session /\ g.kind = "output" /\ g.bytes = short
      <3>1. g \in Session
        BY <1>5, <1>6, SessionEvents
      <3>2. e = [kind |-> e.kind, bytes |-> e.bytes, size |-> e.size]
        BY DEF Session
      <3> QED
        BY <1>6, <3>1, <3>2
    <2>2. Printed(f) = short /\ Printed(e) = e.bytes
      BY <1>6, <2>1 DEF Printed
    <2>3. short = e.bytes => g = e
      <3>1. e = [kind |-> e.kind, bytes |-> e.bytes, size |-> e.size]
        BY DEF Session
      <3> QED
        BY <3>1
    <2> QED
      BY <1>3, <1>5, <1>6, <2>1, <2>2, <2>3 DEF m, room
  <1>7. CASE e.kind # "output"
    <2>1. Printed(e) = <<>> /\ f = e /\ Len(<<>>) = 0
      BY <1>7 DEF Printed
    <2>2. Lesser(0, room) = 0
      BY <1>1 DEF Lesser
    <2> QED
      BY <1>3, <2>1, <2>2 DEF room
  <1> QED
    BY <1>6, <1>7

LEMMA KeepOpType ==
    /\ KeepOp \in [KeptSeqs \X Session -> KeptSeqs]
    /\ \A s \in KeptSeqs, e \in Session : KeepOp[<<s, e>>] = Keep(s, e)
    /\ <<>> \in KeptSeqs
  <1>1. ASSUME NEW s \in KeptSeqs, NEW e \in Session
        PROVE  Keep(s, e) \in KeptSeqs
    <2>1. PICK f \in Session :
            /\ Keep(s, e) = Append(s, f)
            /\ Len(Printed(f)) = Lesser(Len(Printed(e)), MaxDogfoodBytes - Len(OutputIn(s)))
      BY KeepEffect
    <2>2. /\ s \in Seq(Session) /\ Len(OutputIn(s)) <= MaxDogfoodBytes
          /\ Append(s, f) \in Seq(Session)
      BY DEF KeptSeqs
    <2>3. /\ OutputIn(s) \in Seq(Byte) /\ Printed(f) \in Seq(Byte)
          /\ OutputIn(Append(s, f)) = OutputIn(s) \o Printed(f)
          /\ Len(Printed(e)) \in Nat
      BY <2>2, PrintedMore, SessionEvents
    <2> DEFINE a == Len(OutputIn(s))
               b == Len(Printed(f))
               c == Len(Printed(e))
               r == Len(OutputIn(Append(s, f)))
    <2>4. a \in Nat /\ b \in Nat /\ c \in Nat /\ r = a + b /\ a <= MaxDogfoodBytes
          /\ b = Lesser(c, MaxDogfoodBytes - a)
      BY <2>1, <2>2, <2>3, Lengths, ConcatProperties
    <2> HIDE DEF a, b, c, r
    <2>5. r <= MaxDogfoodBytes
      BY <2>4, DogfoodConstants DEF Lesser
    <2> QED
      BY <2>1, <2>2, <2>5 DEF KeptSeqs, r
  <1>2. <<>> \in KeptSeqs
    <2>1. <<>> \in Seq(Session) /\ Len(<<>>) = 0
      OBVIOUS
    <2>2. OutputIn(<<>>) = <<>>
      <3>1. \A x : x \in Session => OutputIn(<<>>) = <<>>
        BY <2>1, PrintedMore, SessionEvents
      <3>2. [kind |-> "input", bytes |-> <<>>, size |-> "none"] \in Session
        BY DEF Session
      <3> QED
        BY <3>1, <3>2
    <2> QED
      BY <2>1, <2>2, DogfoodConstants DEF KeptSeqs
  <1> QED
    BY <1>1, <1>2 DEF KeepOp

LEMMA KeepFold ==
    ASSUME NEW session \in Seq(Session)
    PROVE  FoldsTo(KeptSeqs, Session, KeepOp, <<>>, session, KeptOf(session))
  <1> DEFINE F(g) == [r \in SUBSET (DOMAIN session) |->
                        IF r = {} THEN <<>> ELSE Keep(g[r \ {Max(r)}], session[Max(r)])]
             it == CHOOSE g : g = F(g)
  <1>1. /\ KeepOp \in [KeptSeqs \X Session -> KeptSeqs] /\ <<>> \in KeptSeqs
        /\ \A a \in KeptSeqs, e \in Session : KeepOp[<<a, e>>] = Keep(a, e)
    BY KeepOpType
  <1>2. KeptOf(session) = it[DOMAIN session]
    BY DEF KeptOf, FoldLeft, MapThenFoldSet
  <1>3. Foldable(KeptSeqs, Session, KeepOp, <<>>, session)
    BY <1>1 DEF Foldable
  <1>4. PICK g : IterationOnA(g, KeptSeqs, Session, KeepOp, <<>>, session)
    BY <1>3, IterationOnAExists
  <1>5. g = F(g)
    BY <1>1, <1>4 DEF IterationOnA
  <1>6. it = F(it)
    BY <1>5
  <1> HIDE DEF it
  <1>7. Folds(it, KeptSeqs, Session, KeepOp, <<>>, session)
    BY <1>1, <1>3, <1>4, <1>6 DEF Folds, IterationOnA
  <1>8. FoldsTo(KeptSeqs, Session, KeepOp, <<>>, session, it[DOMAIN session])
    BY <1>7, FoldsToResult
  <1> QED
    BY <1>2, <1>8

LEMMA KeptMore ==
    /\ KeptOf(<<>>) = <<>>
    /\ \A session \in Seq(Session) : KeptOf(session) \in KeptSeqs
    /\ \A session \in Seq(Session), e \in Session :
         KeptOf(Append(session, e)) = Keep(KeptOf(session), e)
  <1> DEFINE To(session, r) == FoldsTo(KeptSeqs, Session, KeepOp, <<>>, session, r)
  <1>1. /\ KeepOp \in [KeptSeqs \X Session -> KeptSeqs] /\ <<>> \in KeptSeqs
        /\ \A a \in KeptSeqs, e \in Session : KeepOp[<<a, e>>] = Keep(a, e)
    BY KeepOpType
  <1>2. \A session \in Seq(Session) : To(session, KeptOf(session))
    BY KeepFold
  <1>3. \A session, p, q : To(session, p) /\ To(session, q) => p = q
    BY FoldUnique
  <1>4. To(<<>>, <<>>)
    BY <1>1, FoldOfEmpty
  <1>5. \A session, p : To(session, p) => p \in KeptSeqs
    BY FoldResult
  <1>6. \A session, p : \A e \in Session :
          To(session, p) => To(Append(session, e), KeepOp[<<p, e>>])
    BY FoldOfAppend
  <1> HIDE DEF To
  <1>7. KeptOf(<<>>) = <<>>
    <2>1. <<>> \in Seq(Session)
      OBVIOUS
    <2> QED
      BY <1>2, <1>3, <1>4, <2>1
  <1>8. \A session \in Seq(Session) : KeptOf(session) \in KeptSeqs
    BY <1>2, <1>5
  <1>9. ASSUME NEW session \in Seq(Session), NEW e \in Session
        PROVE  KeptOf(Append(session, e)) = Keep(KeptOf(session), e)
    <2>1. Append(session, e) \in Seq(Session)
      OBVIOUS
    <2>2. To(Append(session, e), KeepOp[<<KeptOf(session), e>>])
      BY <1>2, <1>6
    <2>3. To(Append(session, e), KeptOf(Append(session, e)))
      BY <1>2, <2>1
    <2> QED
      BY <1>1, <1>3, <1>8, <2>2, <2>3
  <1> QED
    BY <1>7, <1>8, <1>9

(* Of every session all events are kept, and its output up to the budget;  *)
(* all of it is kept only as it was.                                       *)
KeptWhole(session) ==
    LET kept == KeptOf(session) IN
    /\ kept \in Seq(Session) /\ Len(kept) = Len(session)
    /\ Len(OutputIn(session)) \in Nat
    /\ Len(OutputIn(kept)) = Lesser(Len(OutputIn(session)), MaxDogfoodBytes)
    /\ Len(OutputIn(kept)) = Len(OutputIn(session)) => kept = session

LEMMA KeptOneMore ==
    ASSUME NEW session \in Seq(Session), KeptWhole(session), NEW e \in Session
    PROVE  KeptWhole(Append(session, e))
  <1> DEFINE kept == KeptOf(session)
             more == Append(session, e)
  <1>1. kept \in KeptSeqs /\ kept \in Seq(Session) /\ KeptOf(more) = Keep(kept, e)
    BY KeptMore DEF KeptWhole
  <1>2. PICK f \in Session :
          /\ Keep(kept, e) = Append(kept, f)
          /\ Len(Printed(f)) = Lesser(Len(Printed(e)), MaxDogfoodBytes - Len(OutputIn(kept)))
          /\ Len(Printed(f)) = Len(Printed(e)) => f = e
    BY <1>1, KeepEffect
  <1>3. /\ OutputIn(Append(kept, f)) = OutputIn(kept) \o Printed(f)
        /\ OutputIn(more) = OutputIn(session) \o Printed(e)
        /\ OutputIn(kept) \in Seq(Byte) /\ OutputIn(session) \in Seq(Byte)
        /\ Printed(e) \in Seq(Byte) /\ Printed(f) \in Seq(Byte)
    BY <1>1, PrintedMore, SessionEvents
  <1>4. /\ Len(kept) = Len(session) /\ (Len(OutputIn(kept)) = Len(OutputIn(session)) => kept = session)
        /\ Len(OutputIn(kept)) = Lesser(Len(OutputIn(session)), MaxDogfoodBytes)
    BY DEF KeptWhole
  <1>5. /\ Append(kept, f) \in Seq(Session) /\ Len(Append(kept, f)) = Len(kept) + 1
        /\ Len(more) = Len(session) + 1
    BY <1>1
  <1> DEFINE a == Len(OutputIn(kept))
             b == Len(OutputIn(session))
             x == Len(Printed(f))
             y == Len(Printed(e))
  <1>6. /\ a \in Nat /\ b \in Nat /\ x \in Nat /\ y \in Nat
        /\ a = Lesser(b, MaxDogfoodBytes) /\ x = Lesser(y, MaxDogfoodBytes - a)
        /\ Len(OutputIn(Append(kept, f))) = a + x /\ Len(OutputIn(more)) = b + y
    BY <1>2, <1>3, <1>4, Lengths, ConcatProperties
  <1> HIDE DEF kept, more, a, b, x, y
  <1>7. /\ a + x = Lesser(b + y, MaxDogfoodBytes) /\ b + y \in Nat
        /\ a + x = b + y => a = b /\ x = y
    BY <1>6, DogfoodConstants DEF Lesser
  <1>8. a + x = b + y => Append(kept, f) = Append(session, e)
    BY <1>2, <1>4, <1>7 DEF a, b, x, y
  <1> QED
    BY <1>1, <1>2, <1>4, <1>5, <1>6, <1>7, <1>8 DEF KeptWhole, more

LEMMA SessionKept ==
    ASSUME NEW session \in Seq(Session)
    PROVE  KeptWhole(session)
  <1> DEFINE n == Len(session)
             Up(k) == SubSeq(session, 1, k)
             T == {k \in 0..n : KeptWhole(Up(k))}
  <1>1. n \in Nat /\ \A k \in 0..n : Up(k) \in Seq(Session)
    OBVIOUS
  <1>2. 0 \in T
    <2>1. Up(0) = <<>> /\ 0 \in 0..n
      BY <1>1
    <2>2. <<>> \in Seq(Session) /\ Len(<<>>) = 0 /\ KeptOf(<<>>) = <<>>
      BY KeptMore
    <2>3. Len(OutputIn(<<>>)) = 0
      <3>1. [kind |-> "input", bytes |-> <<>>, size |-> "none"] \in Session
        BY DEF Session
      <3>2. OutputIn(<<>>) = <<>>
        BY <2>2, <3>1, PrintedMore, SessionEvents
      <3> QED
        BY <2>2, <3>2
    <2>4. Lesser(0, MaxDogfoodBytes) = 0
      BY DogfoodConstants DEF Lesser
    <2>5. KeptWhole(<<>>)
      <3> DEFINE none == <<>>
      <3>1. /\ KeptOf(none) = none /\ none \in Seq(Session)
            /\ Len(OutputIn(none)) = 0 /\ Lesser(0, MaxDogfoodBytes) = 0
        BY <2>2, <2>3, <2>4
      <3> HIDE DEF none
      <3>2. KeptWhole(none)
        BY <3>1 DEF KeptWhole
      <3> QED
        BY <3>2 DEF none
    <2> HIDE DEF Up
    <2> QED
      BY <2>1, <2>5
  <1>3. ASSUME NEW k \in 1..n, k - 1 \in T PROVE k \in T
    <2>1. Up(k) = Append(Up(k - 1), session[k]) /\ session[k] \in Session /\ Up(k - 1) \in Seq(Session)
      BY <1>1
    <2>2. KeptWhole(Up(k - 1))
      BY <1>3
    <2>3. k \in 0..n
      BY <1>1
    <2> HIDE DEF Up
    <2>4. KeptWhole(Append(Up(k - 1), session[k]))
      BY <2>1, <2>2, KeptOneMore
    <2> QED
      BY <2>1, <2>3, <2>4
  <1>4. n \in T
    <2> HIDE DEF T, n
    <2>1. \A k \in 0..n : k \in T
      BY <1>1, <1>2, <1>3, UpTo
    <2> QED
      BY <1>1, <2>1
  <1>5. Up(n) = session
    BY <1>1
  <1> QED
    BY <1>4, <1>5 DEF T

-----------------------------------------------------------------------------
(* A replay sees what the host saw.                                        *)

Panes ==
    {w \in Terminals(DogfoodSizes) : \E size \in DogfoodSizes : w \in Ready(DogfoodSizes, size)}
PaneOp == [p \in Panes \X Session |-> ReplayHappening(p[1], p[2])]

PaneAfter(w, events) == FoldLeft(ReplayHappening, w, events)
Sees(w, session)   == FoldLeft(HostSees, w, session)

LEMMA PaneAdvances ==
    ASSUME NEW w \in Panes, NEW bytes \in Seq(Byte)
    PROVE  Advance(w, bytes) \in Panes /\ (bytes = <<>> => Advance(w, bytes) = w)
  <1>1. PICK size \in DogfoodSizes : w \in Ready(DogfoodSizes, size)
    BY DEF Panes
  <1>2. Advance(w, bytes) \in Ready(DogfoodSizes, size)
    BY <1>1, AdvanceScans
  <1>3. ASSUME bytes = <<>> PROVE Advance(w, bytes) = w
    <2>1. Advance(w, bytes) = TermOf(Scanned(StateOf(w), bytes))
      BY <1>1, <1>3, AdvanceScans
    <2>2. StateOf(w) \in Scans(DogfoodSizes, size) /\ TermOf(StateOf(w)) = w
      BY <1>1, Carrying
    <2>3. Scanned(StateOf(w), bytes) = StateOf(w)
      BY <1>3, <2>2, ScannedParts
    <2> QED
      BY <2>1, <2>2, <2>3
  <1> QED
    BY <1>2, <1>3 DEF Panes, Ready

LEMMA HappensAlike ==
    ASSUME NEW w \in Panes, NEW e \in Session
    PROVE  ReplayHappening(w, e) \in Panes /\ HostSees(w, e) = ReplayHappening(w, e)
  <1>1. CASE e.kind = "output"
    <2>1. e.bytes \in Seq(Byte) /\ e.size = "none"
      BY <1>1 DEF Session
    <2>2. ReplayHappening(w, e) = Advance(w, e.bytes)
      BY <1>1 DEF ReplayHappening
    <2>3. HostSees(w, e) = IF e.bytes = <<>> THEN w ELSE Advance(w, e.bytes)
      BY <2>1 DEF HostSees
    <2> QED
      BY <2>1, <2>2, <2>3, PaneAdvances
  <1>2. CASE e.kind = "resize"
    <2>1. e.bytes = <<>> /\ e.size \in DogfoodSizes /\ e.size # "none"
      BY <1>2, DogfoodConstants DEF Session
    <2>2. PICK size \in DogfoodSizes : w \in Ready(DogfoodSizes, size)
      BY DEF Panes
    <2>3. ResizeTerminal(w, e.size) \in Ready(DogfoodSizes, e.size)
      BY <2>1, <2>2, ResizeReady
    <2> QED
      BY <1>2, <2>1, <2>3 DEF ReplayHappening, HostSees, Panes, Ready
  <1>3. CASE e.kind \in {"input", "lifecycle"}
    <2>1. e.bytes = <<>> /\ e.size = "none"
      BY <1>3 DEF Session
    <2> QED
      BY <1>3, <2>1 DEF ReplayHappening, HostSees
  <1> QED
    BY <1>1, <1>2, <1>3, SessionEvents DEF EventKinds

LEMMA PaneOpType ==
    /\ PaneOp \in [Panes \X Session -> Panes]
    /\ \A w \in Panes, e \in Session : PaneOp[<<w, e>>] = ReplayHappening(w, e)
    /\ \A w \in Panes, e \in Session : PaneOp[<<w, e>>] = HostSees(w, e)
  BY HappensAlike DEF PaneOp

LEMMA PaneAfterFold ==
    ASSUME NEW w \in Panes, NEW events \in Seq(Session)
    PROVE  FoldsTo(Panes, Session, PaneOp, w, events, PaneAfter(w, events))
  <1> DEFINE F(g) == [r \in SUBSET (DOMAIN events) |->
                        IF r = {} THEN w ELSE ReplayHappening(g[r \ {Max(r)}], events[Max(r)])]
             it == CHOOSE g : g = F(g)
  <1>1. /\ PaneOp \in [Panes \X Session -> Panes]
        /\ \A a \in Panes, e \in Session : PaneOp[<<a, e>>] = ReplayHappening(a, e)
    BY PaneOpType
  <1>2. PaneAfter(w, events) = it[DOMAIN events]
    BY DEF PaneAfter, FoldLeft, MapThenFoldSet
  <1>3. Foldable(Panes, Session, PaneOp, w, events)
    BY <1>1 DEF Foldable
  <1>4. PICK g : IterationOnA(g, Panes, Session, PaneOp, w, events)
    BY <1>3, IterationOnAExists
  <1>5. g = F(g)
    BY <1>1, <1>4 DEF IterationOnA
  <1>6. it = F(it)
    BY <1>5
  <1> HIDE DEF it
  <1>7. Folds(it, Panes, Session, PaneOp, w, events)
    BY <1>1, <1>3, <1>4, <1>6 DEF Folds, IterationOnA
  <1>8. FoldsTo(Panes, Session, PaneOp, w, events, it[DOMAIN events])
    BY <1>7, FoldsToResult
  <1> QED
    BY <1>2, <1>8

LEMMA SeesFold ==
    ASSUME NEW w \in Panes, NEW events \in Seq(Session)
    PROVE  FoldsTo(Panes, Session, PaneOp, w, events, Sees(w, events))
  <1> DEFINE F(g) == [r \in SUBSET (DOMAIN events) |->
                        IF r = {} THEN w ELSE HostSees(g[r \ {Max(r)}], events[Max(r)])]
             it == CHOOSE g : g = F(g)
  <1>1. /\ PaneOp \in [Panes \X Session -> Panes]
        /\ \A a \in Panes, e \in Session : PaneOp[<<a, e>>] = HostSees(a, e)
    BY PaneOpType
  <1>2. Sees(w, events) = it[DOMAIN events]
    BY DEF Sees, FoldLeft, MapThenFoldSet
  <1>3. Foldable(Panes, Session, PaneOp, w, events)
    BY <1>1 DEF Foldable
  <1>4. PICK g : IterationOnA(g, Panes, Session, PaneOp, w, events)
    BY <1>3, IterationOnAExists
  <1>5. g = F(g)
    BY <1>1, <1>4 DEF IterationOnA
  <1>6. it = F(it)
    BY <1>5
  <1> HIDE DEF it
  <1>7. Folds(it, Panes, Session, PaneOp, w, events)
    BY <1>1, <1>3, <1>4, <1>6 DEF Folds, IterationOnA
  <1>8. FoldsTo(Panes, Session, PaneOp, w, events, it[DOMAIN events])
    BY <1>7, FoldsToResult
  <1> QED
    BY <1>2, <1>8

LEMMA PaneAfterParts ==
    ASSUME NEW w \in Panes
    PROVE  /\ PaneAfter(w, <<>>) = w
           /\ \A events \in Seq(Session) :
                PaneAfter(w, events) \in Panes /\ Sees(w, events) = PaneAfter(w, events)
           /\ \A events \in Seq(Session), e \in Session :
                PaneAfter(w, Append(events, e)) = ReplayHappening(PaneAfter(w, events), e)
  <1> DEFINE To(events, u) == FoldsTo(Panes, Session, PaneOp, w, events, u)
  <1>1. /\ PaneOp \in [Panes \X Session -> Panes]
        /\ \A a \in Panes, e \in Session : PaneOp[<<a, e>>] = ReplayHappening(a, e)
    BY PaneOpType
  <1>2. \A events \in Seq(Session) : To(events, PaneAfter(w, events)) /\ To(events, Sees(w, events))
    BY PaneAfterFold, SeesFold
  <1>3. \A events, p, q : To(events, p) /\ To(events, q) => p = q
    BY FoldUnique
  <1>4. To(<<>>, w)
    BY <1>1, FoldOfEmpty
  <1>5. \A events, p : To(events, p) => p \in Panes
    BY FoldResult
  <1>6. \A events, p : \A e \in Session : To(events, p) => To(Append(events, e), PaneOp[<<p, e>>])
    BY FoldOfAppend
  <1> HIDE DEF To
  <1>7. PaneAfter(w, <<>>) = w
    <2>1. <<>> \in Seq(Session)
      OBVIOUS
    <2> QED
      BY <1>2, <1>3, <1>4, <2>1
  <1>8. \A events \in Seq(Session) : PaneAfter(w, events) \in Panes /\ Sees(w, events) = PaneAfter(w, events)
    BY <1>2, <1>3, <1>5
  <1>9. ASSUME NEW events \in Seq(Session), NEW e \in Session
        PROVE  PaneAfter(w, Append(events, e)) = ReplayHappening(PaneAfter(w, events), e)
    <2>1. Append(events, e) \in Seq(Session)
      OBVIOUS
    <2>2. To(Append(events, e), PaneOp[<<PaneAfter(w, events), e>>])
      BY <1>2, <1>6
    <2>3. To(Append(events, e), PaneAfter(w, Append(events, e)))
      BY <1>2, <2>1
    <2> QED
      BY <1>1, <1>3, <1>8, <2>2, <2>3
  <1> QED
    BY <1>7, <1>8, <1>9

(* What a recording that lost no output shows after its first k events.    *)
ShownAfter(r, k) == PaneAfter(OpenTerminal(r.size), SubSeq(r.events, 1, k))

(* The host wrote it and all output had room.                              *)
Faithful(d) == d.honest /\ ~d.recording.truncated

LEMMA FaithfulRecording ==
    ASSUME NEW d \in Recordings, Faithful(d)
    PROVE  LET r == d.recording IN
           /\ r.events = d.session /\ d.session \in Seq(Session)
           /\ r.final = FinalSnapshot(ShownAfter(r, Len(r.events)))
           /\ Len(d.session) <= MaxDogfoodEvents /\ FinalLoads(r.final) => DogfoodLoads(r)
           /\ ShownAfter(r, 0) = OpenTerminal(r.size)
           /\ \A k \in 1..Len(r.events) :
                ShownAfter(r, k) = ReplayHappening(ShownAfter(r, k - 1), r.events[k])
  <1> DEFINE r == d.recording
             session == d.session
             kept == KeptOf(session)
  <1>1. /\ session \in Seq(Session) /\ r = HostRecording(r.size, session)
        /\ r.size \in DogfoodSizes /\ ~r.truncated
    BY DogfoodConstants DEF OfSession, Faithful
  <1>2. /\ r.events = kept /\ r.counts = CountsOf(kept) /\ r.bytes = Len(OutputIn(kept))
        /\ r.truncated = (OutputIn(kept) # OutputIn(session))
        /\ r.final = FinalSnapshot(Sees(OpenTerminal(r.size), session))
    BY <1>1 DEF HostRecording, KeptOf, Sees
  <1>3. OutputIn(kept) = OutputIn(session)
    BY <1>1, <1>2
  <1>4. kept = session /\ kept \in KeptSeqs
    BY <1>1, <1>3, SessionKept, KeptMore DEF KeptWhole
  <1> HIDE DEF r, session, kept
  <1>5. OpenTerminal(r.size) \in Panes
    BY <1>1, OpenReady DEF Panes, Ready
  <1>6. ShownAfter(r, Len(r.events)) = Sees(OpenTerminal(r.size), session)
    <2>1. SubSeq(r.events, 1, Len(r.events)) = session
      BY <1>1, <1>2, <1>4
    <2> QED
      BY <1>1, <1>5, <2>1, PaneAfterParts DEF ShownAfter
  <1>7. ShownAfter(r, 0) = OpenTerminal(r.size)
    <2>1. SubSeq(r.events, 1, 0) = <<>>
      BY <1>1, <1>2, <1>4
    <2> QED
      BY <1>5, <2>1, PaneAfterParts DEF ShownAfter
  <1>8. ASSUME NEW k \in 1..Len(r.events)
        PROVE  ShownAfter(r, k) = ReplayHappening(ShownAfter(r, k - 1), r.events[k])
    <2> DEFINE events == r.events
               front == SubSeq(events, 1, k - 1)
               x == events[k]
    <2>1. events \in Seq(Session) /\ k \in 1..Len(events)
      BY <1>1, <1>2, <1>4
    <2> HIDE DEF events
    <2>2. front \in Seq(Session) /\ x \in Session /\ SubSeq(events, 1, k) = Append(front, x)
      BY <2>1
    <2> HIDE DEF front, x
    <2>3. PaneAfter(OpenTerminal(r.size), Append(front, x))
            = ReplayHappening(PaneAfter(OpenTerminal(r.size), front), x)
      BY <1>5, <2>2, PaneAfterParts
    <2> QED
      BY <2>2, <2>3 DEF ShownAfter, front, x, events
  <1>9. ASSUME Len(session) <= MaxDogfoodEvents, FinalLoads(r.final)
        PROVE  DogfoodLoads(r)
    <2>1. Len(r.events) <= MaxDogfoodEvents /\ r.events \in Seq(Session)
      BY <1>1, <1>2, <1>4, <1>9
    <2>2. \A i \in DOMAIN r.events : r.events[i].kind = "resize" => r.events[i].size \in DogfoodSizes
      <3> SUFFICES ASSUME NEW i \in DOMAIN r.events, r.events[i].kind = "resize"
                   PROVE  r.events[i].size \in DogfoodSizes
        OBVIOUS
      <3>1. r.events[i] \in Session
        BY <2>1, Lengths
      <3> QED
        BY <3>1 DEF Session
    <2>3. r.bytes <= MaxDogfoodBytes
      BY <1>2, <1>4 DEF KeptSeqs
    <2> QED
      BY <1>1, <1>2, <1>9, <2>1, <2>2, <2>3 DEF DogfoodLoads
  <1> QED
    BY <1>1, <1>2, <1>4, <1>6, <1>7, <1>8, <1>9 DEF r, session

(* What loads has the events and the bytes the host counted.               *)
LEMMA LoadedRecording ==
    ASSUME NEW d \in Recordings, DogfoodLoads(d.recording)
    PROVE  /\ Len(d.recording.events) = Len(d.session)
           /\ Len(OutputIn(d.recording.events)) =
                IF Len(OutputIn(d.session)) < MaxDogfoodBytes
                THEN Len(OutputIn(d.session)) ELSE MaxDogfoodBytes
  <1> DEFINE r == d.recording
             kept == KeptOf(d.session)
  <1>1. /\ d.session \in Seq(Session) /\ r.events \in Seq(Range(r.events))
        /\ \A i \in DOMAIN r.events : r.events[i].kind \in EventKinds
        /\ r.counts = CountsOf(kept) /\ r.bytes = Len(OutputIn(kept))
    BY DogfoodConstants DEF OfSession, HostRecording, KeptOf
  <1>2. r.counts = CountsOf(r.events) /\ r.bytes = Len(OutputIn(r.events))
    BY DEF DogfoodLoads
  <1>3. /\ kept \in Seq(Session) /\ Len(kept) = Len(d.session)
        /\ Len(OutputIn(kept)) = Lesser(Len(OutputIn(d.session)), MaxDogfoodBytes)
    BY <1>1, SessionKept DEF KeptWhole
  <1> HIDE DEF r, kept
  <1>4. kept \in Seq(Range(kept)) /\ \A i \in DOMAIN kept : kept[i].kind \in EventKinds
    <2>1. kept \in Seq(Range(kept))
      BY <1>3, SequenceOfItsRange
    <2>2. \A i \in DOMAIN kept : kept[i] \in Session
      BY <1>3, Lengths
    <2> QED
      BY <2>1, <2>2, SessionEvents
  <1>5. Len(kept) = Len(r.events)
    <2> DEFINE c == CountsOf(kept)
    <2>1. CountsOf(r.events) = c
      BY <1>1, <1>2
    <2>2. Len(kept) = c["output"] + c["input"] + c["resize"] + c["lifecycle"]
      BY <1>4, CountedUp
    <2>3. Len(r.events) = c["output"] + c["input"] + c["resize"] + c["lifecycle"]
      BY <1>1, <2>1, CountedUp
    <2> HIDE DEF c
    <2> QED
      BY <2>2, <2>3
  <1> QED
    BY <1>1, <1>2, <1>3, <1>5 DEF r, Lesser

-----------------------------------------------------------------------------
(* What a dogfood replay keeps.                                            *)

(* A replay of a faithful recording shows what the events so far show, and *)
(* the second compares with what the first one ended on; what does not     *)
(* match is no such recording.                                             *)
ReplayFollows ==
    LET r == dogfood.recording IN
    /\ dogfoodStage = "load" => replayPass = 1 /\ nextEvent = 1 /\ paneMetrics = NoReport
    /\ dogfoodStage \in {"replay", "replayed", "mismatch"} => DogfoodLoads(r)
    /\ dogfoodStage = "rejected" /\ paneMetrics = NoReport => ~DogfoodLoads(r)
    /\ dogfoodStage = "replay" /\ Faithful(dogfood) =>
         /\ dogfoodPane = ShownAfter(r, nextEvent - 1)
         /\ replayPass = 2 => firstShown = Snapshot(ShownAfter(r, Len(r.events)))
    /\ dogfoodStage = "mismatch" => ~Faithful(dogfood)

DogfoodInv == dogfood \in Recordings /\ DogfoodTypeOK /\ ReplayFollows

LEMMA DogfoodStarts == DogfoodInit => DogfoodInv
  <1> SUFFICES ASSUME DogfoodInit PROVE DogfoodInv
    OBVIOUS
  <1>1. Len(dogfood.recording.events) \in Nat
    BY DogfoodConstants DEF DogfoodInit, OfSession
  <1>2. nextEvent \in 1..Len(dogfood.recording.events) + 1
    BY <1>1 DEF DogfoodInit
  <1> QED
    BY <1>2 DEF DogfoodInit, DogfoodInv, DogfoodTypeOK, ReplayFollows

LEMMA DogfoodKept == DogfoodInv /\ [DogfoodNext]_dogfoodVars => DogfoodInv'
  <1> SUFFICES ASSUME DogfoodInv, [DogfoodNext]_dogfoodVars
               PROVE  DogfoodInv'
    OBVIOUS
  <1> DEFINE r == dogfood.recording
             n == Len(r.events)
             faithful == Faithful(dogfood)
             loads == DogfoodLoads(r)
             showsAt(k) == ShownAfter(r, k)
  <1>1. n \in Nat /\ dogfood \in Recordings
    BY DogfoodConstants DEF DogfoodInv, OfSession
  <1>2. faithful =>
          /\ r.final = FinalSnapshot(showsAt(n)) /\ showsAt(0) = OpenTerminal(r.size)
          /\ \A k \in 1..n : showsAt(k) = ReplayHappening(showsAt(k - 1), r.events[k])
    BY <1>1, FaithfulRecording
  <1>3. DogfoodTypeOK /\ ReplayFollows
    BY DEF DogfoodInv
  <1>4. CASE LoadDogfood
    <2>1. dogfood' = dogfood
      BY <1>4 DEF LoadDogfood
    <2>2. DogfoodTypeOK'
      BY <1>1, <1>3, <1>4 DEF LoadDogfood, DogfoodTypeOK
    <2>3. dogfoodPane' = OpenTerminal(r.size) /\ nextEvent' - 1 = 0 /\ replayPass' = 1
      BY <1>3, <1>4 DEF LoadDogfood, ReplayFollows
    <2>4. faithful => dogfoodPane' = showsAt(nextEvent' - 1)
      BY <1>2, <2>3
    <2>5. ReplayFollows'
      BY <1>3, <1>4, <2>1, <2>3, <2>4 DEF LoadDogfood, ReplayFollows
    <2> QED
      BY <1>1, <2>1, <2>2, <2>5 DEF DogfoodInv
  <1>5. CASE ReplayEventOfDogfood
    <2>1. /\ dogfood' = dogfood /\ dogfoodStage = "replay" /\ dogfoodStage' = "replay"
          /\ nextEvent <= n /\ nextEvent' = nextEvent + 1
          /\ UNCHANGED <<paneMetrics, replayPass, firstShown>>
          /\ dogfoodPane' = ReplayHappening(dogfoodPane, r.events[nextEvent])
      BY <1>5 DEF ReplayEventOfDogfood
    <2>2. nextEvent \in 1..n /\ nextEvent' - 1 = nextEvent /\ nextEvent' \in 1..n + 1
      BY <1>1, <1>3, <2>1 DEF DogfoodTypeOK
    <2>3. DogfoodTypeOK'
      BY <1>3, <2>1, <2>2 DEF DogfoodTypeOK
    <2>4. faithful => dogfoodPane' = showsAt(nextEvent' - 1)
      BY <1>2, <1>3, <2>1, <2>2 DEF ReplayFollows
    <2>5. ReplayFollows'
      BY <1>3, <2>1, <2>4 DEF ReplayFollows
    <2> QED
      BY <1>1, <2>1, <2>3, <2>5 DEF DogfoodInv
  <1>6. CASE CompareDogfood
    <2>1. dogfood' = dogfood /\ paneMetrics' = paneMetrics /\ dogfoodStage = "replay"
          /\ nextEvent > n
      BY <1>6 DEF CompareDogfood
    <2>2. nextEvent - 1 = n
      BY <1>1, <1>3, <2>1 DEF DogfoodTypeOK
    <2>3. faithful => dogfoodPane = showsAt(n) /\ FinalSnapshot(dogfoodPane) = r.final
      BY <1>2, <1>3, <2>1, <2>2 DEF ReplayFollows
    <2>4. faithful /\ replayPass = 2 => firstShown = Snapshot(showsAt(n))
      BY <1>3, <2>1 DEF ReplayFollows
    <2>5. loads
      BY <1>3, <2>1 DEF ReplayFollows
    <2>6. CASE /\ replayPass = 1 /\ FinalSnapshot(dogfoodPane) = r.final
               /\ dogfoodStage' # "oversized"
      <3>1. /\ replayPass' = 2 /\ nextEvent' = 1 /\ firstShown' = Snapshot(dogfoodPane)
            /\ dogfoodPane' = OpenTerminal(r.size) /\ dogfoodStage' = "replay"
        BY <1>6, <2>1, <2>6 DEF CompareDogfood
      <3>2. DogfoodTypeOK'
        BY <1>1, <1>3, <2>1, <3>1 DEF DogfoodTypeOK
      <3>3. faithful => /\ dogfoodPane' = showsAt(nextEvent' - 1)
                        /\ firstShown' = Snapshot(showsAt(n))
        <4>1. nextEvent' - 1 = 0
          BY <3>1
        <4> QED
          BY <1>2, <2>3, <3>1, <4>1
      <3>4. ReplayFollows'
        BY <2>1, <2>5, <3>1, <3>3 DEF ReplayFollows
      <3> QED
        BY <1>1, <2>1, <3>2, <3>4 DEF DogfoodInv
    <2>7. CASE /\ replayPass = 1 /\ FinalSnapshot(dogfoodPane) # r.final
               /\ dogfoodStage' # "oversized"
      <3>1. /\ dogfoodStage' = "mismatch"
            /\ UNCHANGED <<replayPass, nextEvent, dogfoodPane, firstShown>>
        BY <1>6, <2>7 DEF CompareDogfood
      <3>2. DogfoodTypeOK'
        BY <1>3, <2>1, <3>1 DEF DogfoodTypeOK
      <3>3. ReplayFollows'
        BY <2>1, <2>3, <2>5, <2>7, <3>1 DEF ReplayFollows
      <3> QED
        BY <1>1, <2>1, <3>2, <3>3 DEF DogfoodInv
    <2>8. CASE replayPass = 2
      <3>1. /\ dogfoodStage' = IF Snapshot(dogfoodPane) = firstShown THEN "replayed"
                               ELSE "mismatch"
            /\ UNCHANGED <<replayPass, nextEvent, dogfoodPane, firstShown>>
        BY <1>6, <2>8 DEF CompareDogfood
      <3>2. DogfoodTypeOK'
        BY <1>3, <2>1, <3>1 DEF DogfoodTypeOK
      <3>3. faithful => dogfoodStage' = "replayed"
        BY <2>3, <2>4, <2>8, <3>1
      <3>4. ReplayFollows'
        BY <2>1, <2>5, <3>1, <3>3 DEF ReplayFollows
      <3> QED
        BY <1>1, <2>1, <3>2, <3>4 DEF DogfoodInv
    <2>9. CASE replayPass = 1 /\ dogfoodStage' = "oversized"
      <3>1. UNCHANGED <<replayPass, nextEvent, dogfoodPane, firstShown>>
        BY <1>6, <2>1, <2>9 DEF CompareDogfood
      <3>2. DogfoodTypeOK'
        BY <1>3, <2>1, <2>9, <3>1 DEF DogfoodTypeOK
      <3>3. ReplayFollows'
        BY <2>1, <2>9, <3>1 DEF ReplayFollows
      <3> QED
        BY <1>1, <2>1, <3>2, <3>3 DEF DogfoodInv
    <2>10. replayPass = 1 \/ replayPass = 2
      BY <1>3 DEF DogfoodTypeOK
    <2> QED
      BY <2>6, <2>7, <2>8, <2>9, <2>10
  <1>7. CASE LoadMetrics
    <2>1. /\ dogfood' = dogfood /\ paneMetrics' \in MetricsReports
          /\ dogfoodStage' \in {"accepted", "rejected"}
          /\ UNCHANGED <<replayPass, nextEvent, dogfoodPane, firstShown>>
      BY <1>7 DEF LoadMetrics
    <2>2. DogfoodTypeOK'
      BY <1>3, <2>1 DEF DogfoodTypeOK
    <2>3. ReplayFollows'
      BY <2>1, DogfoodConstants DEF ReplayFollows
    <2> QED
      BY <1>1, <2>1, <2>2, <2>3 DEF DogfoodInv
  <1>8. CASE UNCHANGED dogfoodVars
    BY <1>3, <1>1, <1>8 DEF dogfoodVars, DogfoodInv, DogfoodTypeOK, ReplayFollows
  <1> QED
    BY <1>4, <1>5, <1>6, <1>7, <1>8 DEF DogfoodNext

(* Whatever the host recorded and however its file was edited, the replay  *)
(* shows what the events it has read show (DogfoodInv), from any session.  *)
THEOREM DogfoodInvariant == DogfoodSpec => []DogfoodInv
  BY DogfoodStarts, DogfoodKept, PTL DEF DogfoodSpec

(* Replays and reports of dogfood keep to their files and stages: a replay *)
(* never reads past the events of its recording, and the report is one the *)
(* host wrote or none.                                                     *)
THEOREM DogfoodTypeCorrect == DogfoodSpec => []DogfoodTypeOK
  <1>1. DogfoodInv => DogfoodTypeOK
    BY DEF DogfoodInv
  <1> QED
    BY <1>1, DogfoodInvariant, PTL

(* Whatever the host records within its budgets loads and replays to the   *)
(* screen it saw, whatever the sizes, the bytes and where they are cut,    *)
(* unless that screen has another height than the terminal, a stale        *)
(* alternate one; and a recording that replays as good holds each event of *)
(* the session and each byte of its output up to the budget                *)
(* (M3DogfoodRecording::validate and replay).                              *)
THEOREM DogfoodAlwaysWhole == DogfoodSpec => []DogfoodIsWhole
  <1>1. DogfoodInv => DogfoodIsWhole
    <2> SUFFICES ASSUME DogfoodInv PROVE DogfoodIsWhole
      OBVIOUS
    <2>1. ReplayFollows /\ dogfood \in Recordings
      BY DEF DogfoodInv
    <2>2. ASSUME dogfoodStage \in {"mismatch", "rejected"}, paneMetrics = NoReport
          PROVE  \/ ~dogfood.honest \/ dogfood.recording.truncated
                 \/ Len(dogfood.session) > MaxDogfoodEvents
                 \/ ~FinalLoads(dogfood.recording.final)
      <3>1. CASE ~Faithful(dogfood)
        BY <3>1 DEF Faithful
      <3>2. CASE Faithful(dogfood)
        <4>1. dogfoodStage = "rejected" /\ ~DogfoodLoads(dogfood.recording)
          BY <2>1, <2>2, <3>2 DEF ReplayFollows
        <4>2. /\ Len(dogfood.session) <= MaxDogfoodEvents
              /\ FinalLoads(dogfood.recording.final)
              => DogfoodLoads(dogfood.recording)
          BY <2>1, <3>2, FaithfulRecording
        <4>3. Len(dogfood.session) \in Nat /\ MaxDogfoodEvents \in Nat
          BY <2>1, DogfoodConstants DEF OfSession
        <4> QED
          BY <4>1, <4>2, <4>3
      <3> QED
        BY <3>1, <3>2
    <2>3. ASSUME dogfoodStage = "replayed"
          PROVE  /\ Len(dogfood.recording.events) = Len(dogfood.session)
                 /\ Len(OutputIn(dogfood.recording.events)) =
                      IF Len(OutputIn(dogfood.session)) < MaxDogfoodBytes
                      THEN Len(OutputIn(dogfood.session)) ELSE MaxDogfoodBytes
      <3>1. DogfoodLoads(dogfood.recording)
        BY <2>1, <2>3 DEF ReplayFollows
      <3> QED
        BY <2>1, <3>1, LoadedRecording
    <2> QED
      BY <2>2, <2>3 DEF DogfoodIsWhole
  <1> QED
    BY <1>1, DogfoodInvariant, PTL

-----------------------------------------------------------------------------
(* The program as a whole.                                                 *)

LEMMA PartsBegin ==
    CliInit => /\ Init /\ FixtureInit /\ ReplayInit /\ PerformanceInit /\ DogfoodInit
               /\ HostInit /\ ReleaseInit /\ part \in Parts
  BY DEF CliInit

(* A step is one of the part it is about, and no other part moves.         *)
LEMMA PartsStep ==
    ASSUME [CliNext]_cliVars
    PROVE  /\ [Next]_vars /\ [FixtureNext]_fixtureVars /\ [PublicNext]_replayVars
           /\ [PerformanceNext]_performanceVars /\ [DogfoodNext]_dogfoodVars
           /\ [HostNext]_hostVars /\ [ReleaseNext]_releaseVars /\ part' = part
  <1>1. CASE RunStep
    BY <1>1 DEF RunStep
  <1>2. CASE FixtureStep
    BY <1>2 DEF FixtureStep
  <1>3. CASE ReplayStep
    BY <1>3 DEF ReplayStep
  <1>4. CASE PerformanceStep
    BY <1>4 DEF PerformanceStep
  <1>5. CASE DogfoodStep
    BY <1>5 DEF DogfoodStep
  <1>6. CASE HostStep
    BY <1>6 DEF HostStep
  <1>7. CASE ReleaseStep
    BY <1>7 DEF ReleaseStep
  <1>8. CASE Ended
    BY <1>8 DEF Ended, cliVars
  <1>9. CASE UNCHANGED cliVars
    BY <1>9 DEF cliVars
  <1> QED
    BY <1>1, <1>2, <1>3, <1>4, <1>5, <1>6, <1>7, <1>8, <1>9 DEF CliNext

(* The program implements the specification of each of its parts: whatever *)
(* command main.rs dispatches to, the others are not disturbed.            *)
THEOREM CliImplementsParts ==
    CliSpec => /\ Spec /\ FixtureSpec /\ PublicSpec /\ PerformanceSpec /\ DogfoodSpec
               /\ HostSpec /\ ReleaseSpec
  <1>1. CliSpec => Spec
    BY PartsBegin, PartsStep, PTL DEF CliSpec, Spec
  <1>2. CliSpec => FixtureSpec
    BY PartsBegin, PartsStep, PTL DEF CliSpec, FixtureSpec
  <1>3. CliSpec => PublicSpec
    BY PartsBegin, PartsStep, PTL DEF CliSpec, PublicSpec
  <1>4. CliSpec => PerformanceSpec
    BY PartsBegin, PartsStep, PTL DEF CliSpec, PerformanceSpec
  <1>5. CliSpec => DogfoodSpec
    BY PartsBegin, PartsStep, PTL DEF CliSpec, DogfoodSpec
  <1>6. CliSpec => HostSpec
    BY PartsBegin, PartsStep, PTL DEF CliSpec, HostSpec
  <1>7. CliSpec => ReleaseSpec
    BY PartsBegin, PartsStep, PTL DEF CliSpec, ReleaseSpec
  <1> QED
    BY <1>1, <1>2, <1>3, <1>4, <1>5, <1>6, <1>7, PTL

(* Every variable of the part the program runs has its type, for all       *)
(* inputs, sizes and limits.                                               *)
THEOREM CliTyped == CliSpec => []CliTypeOK
  <1>1. CliSpec => [](part \in Parts)
    <2>1. part \in Parts /\ [CliNext]_cliVars => (part \in Parts)'
      BY PartsStep
    <2> QED
      BY <2>1, PartsBegin, PTL DEF CliSpec
  <1>2. /\ part \in Parts
        /\ TypeOK /\ FixtureTypeOK /\ ReplayTypeOK /\ PerformanceTypeOK /\ DogfoodTypeOK
        /\ HostTypeOK /\ ReleaseTypeOK
        => CliTypeOK
    BY DEF CliTypeOK, Parts
  <1>3. CliSpec => []TypeOK
    BY CliImplementsParts, RunTyped, PTL
  <1>4. CliSpec => []FixtureTypeOK
    BY CliImplementsParts, FixtureTypeCorrect, PTL
  <1>5. CliSpec => []ReplayTypeOK
    BY CliImplementsParts, ReplayTyped, PTL
  <1>6. CliSpec => []PerformanceTypeOK
    BY CliImplementsParts, PerformanceTyped, PTL
  <1>7. CliSpec => []DogfoodTypeOK
    BY CliImplementsParts, DogfoodTypeCorrect, PTL
  <1>8. CliSpec => []HostTypeOK
    BY CliImplementsParts, HostTypeCorrect, PTL
  <1>9. CliSpec => []ReleaseTypeOK
    BY CliImplementsParts, ReleaseTypeCorrect, PTL
  <1> QED
    BY <1>1, <1>2, <1>3, <1>4, <1>5, <1>6, <1>7, <1>8, <1>9, PTL

(* What the parts are proved to keep, the program keeps: recorded sessions *)
(* and their reports, the public replays and their summaries, performance, *)
(* dogfood, host and release evidence.                                     *)
THEOREM CliKeepsItsPromises ==
    CliSpec =>
      /\ []SplitInvariant /\ []BufferAccounts /\ []SavedReplays /\ []QueriesAnswered
      /\ []BridgeAgrees /\ []RecordsStream
      /\ []BudgetIsSpent /\ []DiscardsAreReal /\ []SummaryIsWhole /\ []PassIsMeasured
      /\ []DogfoodIsWhole /\ []PassIsObserved /\ []BoundToDigests
      /\ []TestsSeeEvidence /\ []NoFailureHidden
      /\ RowsMeasuredThere /\ OutcomesAreRecorded
  <1>1. Spec => /\ []SplitInvariant /\ []BufferAccounts /\ []SavedReplays /\ []QueriesAnswered
                /\ []BridgeAgrees /\ []RecordsStream
    BY SplitAlwaysWhole, BufferAlwaysAccounts, SavedAlwaysReplays, QueriesAlwaysAnswered,
       BridgeAlwaysAgrees, StreamAlwaysRecorded, PTL
  <1>2. PublicSpec => []BudgetIsSpent /\ []DiscardsAreReal /\ []SummaryIsWhole
    BY BudgetSpent, DiscardsReal, SummaryWhole, PTL
  <1>3. PerformanceSpec => []PassIsMeasured
    BY PassMeasuredAlways
  <1>4. DogfoodSpec => []DogfoodIsWhole
    BY DogfoodAlwaysWhole
  <1>5. HostSpec => []PassIsObserved /\ []BoundToDigests
    BY PassesAreObserved, CountedAreDigested, PTL
  <1>6. ReleaseSpec => []TestsSeeEvidence /\ []NoFailureHidden
    BY TestsFindEvidence, FailuresShown, PTL
  <1>7. ReleaseSpec => RowsMeasuredThere /\ OutcomesAreRecorded
    BY RowsMeasured, RefusalsExplained, PTL
  <1> QED
    BY CliImplementsParts, <1>1, <1>2, <1>3, <1>4, <1>5, <1>6, <1>7, PTL

=============================================================================
