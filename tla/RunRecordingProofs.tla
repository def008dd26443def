------------------------- MODULE RunRecordingProofs -------------------------
(***************************************************************************)
(* What holds in every run of `terminal-cli run`, for all requests, chunks,*)
(* sizes and limits: RunRecording's invariants.                            *)
(***************************************************************************)
EXTENDS RunRecording, TerminalParserProofs, TLAPS

-----------------------------------------------------------------------------
(* Opening and resizing a terminal.                                        *)

LEMMA ResizeType ==
    ASSUME NEW Z, NEW size \in Z
    PROVE  Dispatch("Resize", size, <<>>, Payload(NoBuilder)) \in Applied(Z)
  <1>1. Payload(NoBuilder) \in Payloads /\ <<>> \in Seq(Byte)
    BY BuilderTypes
  <1> QED
    BY <1>1 DEF Dispatch, Applied, Resizes

LEMMA ResizeKeeps ==
    ASSUME NEW Z, NEW w \in Terminals(Z), Accounted(w), NEW size \in Z
    PROVE  /\ Open(ResizeTerminal(w, size), Z, size)
           /\ ResizeTerminal(w, size).pending_escape = w.pending_escape
           /\ ResizeTerminal(w, size).string_control = w.string_control
  <1> DEFINE a == Dispatch("Resize", size, <<>>, Payload(NoBuilder))
             u == ResizeTerminal(w, size)
             more == Append(w.applied, a)
  <1>1. a \in Applied(Z) /\ a.kind = "Resize" /\ a.final = size
    BY ResizeType DEF Dispatch
  <1>2. u = [w EXCEPT !.applied = more]
    BY DEF ResizeTerminal
  <1>3. more \in Seq(Applied(Z))
    BY <1>1, TerminalParts
  <1>4. ~Generates(a)
    BY <1>1 DEF Generates
  <1> HIDE DEF a, u
  <1>5. /\ u \in Terminals(Z) /\ u.applied = more
        /\ u.pending_escape = w.pending_escape /\ u.string_control = w.string_control
        /\ u.actions = w.actions /\ u.dropped = w.dropped
    <2> HIDE DEF more
    <2> QED
      BY <1>2, <1>3 DEF Terminals
  <1>6. /\ LastResize(u, size)
        /\ Cardinality(Handled(u)) = Cardinality(Handled(w))
        /\ Cardinality(Answered(u)) = Cardinality(Answered(w))
    BY <1>1, <1>4, <1>5, AppliedMore
  <1>7. Accounted(u)
    BY <1>5, <1>6 DEF Accounted
  <1> QED
    BY <1>5, <1>6, <1>7 DEF Open, u

LEMMA NewReady ==
    ASSUME NEW Z
    PROVE  NewTerminal \in Terminals(Z) /\ Accounted(NewTerminal) /\ ~NewTerminal.pending_escape
  <1> DEFINE no == FALSE
             w == NewTerminal
  <1>1. NoBuilder \in Builders /\ "ground" \in VteStates /\ <<>> \in Seq(Byte)
        /\ <<>> \in Seq(Dispatched) /\ <<>> \in Seq(Applied(Z)) /\ no \in BOOLEAN
    BY BuilderTypes DEF VteStates
  <1>2. w = [pending_escape |-> no, string_control |-> NoBuilder, dcs |-> NoBuilder,
             suppress |-> no, vte |-> "ground", params |-> <<>>, osc |-> NoBuilder,
             actions |-> <<>>, dropped |-> 0, applied |-> <<>>]
    BY DEF NewTerminal
  <1> HIDE DEF no, w
  <1>3. w \in Terminals(Z)
    BY <1>1, <1>2 DEF Terminals
  <1>4. w.applied = <<>> /\ w.actions = <<>> /\ w.dropped = 0 /\ w.pending_escape = no
    BY <1>2
  <1>5. Handled(w) = {} /\ Answered(w) = {}
    BY <1>4 DEF Handled, Answered
  <1>6. Accounted(w)
    BY <1>4, <1>5, FS_EmptySet, ParserAssumption DEF Accounted
  <1> QED
    BY <1>3, <1>4, <1>6 DEF no, w

LEMMA OpenReady ==
    ASSUME NEW Z, NEW size \in Z
    PROVE  OpenTerminal(size) \in Ready(Z, size) /\ ~OpenTerminal(size).pending_escape
  <1> DEFINE w == NewTerminal
             u == ResizeTerminal(w, size)
  <1>1. w \in Terminals(Z) /\ Accounted(w) /\ ~w.pending_escape
    BY NewReady
  <1>2. OpenTerminal(size) = u
    BY DEF OpenTerminal
  <1> HIDE DEF w
  <1>3. Open(u, Z, size) /\ u.pending_escape = w.pending_escape
    BY <1>1, ResizeKeeps
  <1> HIDE DEF u
  <1> QED
    BY <1>1, <1>2, <1>3 DEF Ready, Open

LEMMA ResizeReady ==
    ASSUME NEW Z, NEW old, NEW w \in Ready(Z, old), NEW size \in Z
    PROVE  /\ ResizeTerminal(w, size) \in Ready(Z, size)
           /\ ResizeTerminal(w, size).pending_escape = w.pending_escape
  <1> DEFINE u == ResizeTerminal(w, size)
  <1>1. w \in Terminals(Z) /\ Accounted(w) /\ (w.pending_escape => ~InsideControl(w))
    BY DEF Ready, Open
  <1>2. /\ Open(u, Z, size) /\ u.pending_escape = w.pending_escape
        /\ u.string_control = w.string_control
    BY <1>1, ResizeKeeps
  <1> HIDE DEF u
  <1>3. u \in Ready(Z, size)
    BY <1>1, <1>2 DEF Ready, Open, InsideControl
  <1> QED
    BY <1>2, <1>3 DEF u

(* CoreRunSink::current_size reads the size back.                          *)
LEMMA SizeRead ==
    ASSUME NEW Z, NEW size, NEW w \in Terminals(Z), LastResize(w, size)
    PROVE  TerminalSize(w) = size
  <1> DEFINE n == Len(w.applied)
             I == {i \in 1..n : w.applied[i].kind = "Resize"}
             last == SelectLastInSeq(w.applied, LAMBDA action : action.kind = "Resize")
  <1>1. n \in Nat /\ DOMAIN w.applied = 1..n
    BY TerminalParts
  <1>2. PICK i \in I : w.applied[i].final = size /\ \A j \in I : j <= i
    BY <1>1 DEF LastResize
  <1>3. last = IF I # {} THEN Max(I) ELSE 0
    BY DEF SelectLastInSeq
  <1>4. Max(I) \in I /\ \A j \in I : Max(I) >= j
    BY <1>1, <1>2, MaxIn
  <1>5. last = Max(I) /\ i \in I
    BY <1>2, <1>3
  <1>6. TerminalSize(w) = w.applied[last].final
    BY DEF TerminalSize
  <1> HIDE DEF last
  <1>7. Max(I) = i
    <2> DEFINE m == Max(I)
    <2>1. m \in I /\ m >= i /\ m <= i
      BY <1>2, <1>4
    <2> HIDE DEF m
    <2>2. m \in Int /\ i \in Int
      BY <1>1, <2>1
    <2> QED
      BY <2>1, <2>2 DEF m
  <1> QED
    BY <1>2, <1>5, <1>6, <1>7

-----------------------------------------------------------------------------
(* The recording and the tail.                                             *)

Events == [kind : {"Output", "Resize", "Input", "Eof", "Exit"}, bytes : Seq(Byte),
           what : TerminalSizes \cup {"file", "response", "none"}]
SessionRecordings == [enabled : BOOLEAN, events : Seq(Events), output_bytes : 0..OutputBudget,
               truncated : BOOLEAN]

LEMMA EventTypes ==
    /\ \A size \in TerminalSizes : Event("Resize", size) \in Events
    /\ Event("Input", "file") \in Events /\ Event("Input", "response") \in Events
    /\ Event("Eof", "none") \in Events /\ Event("Exit", "none") \in Events
    /\ \A bytes \in Seq(Byte) : BytesEvent("Output", bytes) \in Events
  <1>1. \A kind \in {"Resize", "Input", "Eof", "Exit"},
           what \in TerminalSizes \cup {"file", "response", "none"} : Event(kind, what) \in Events
    <2>1. <<>> \in Seq(Byte)
      OBVIOUS
    <2> QED
      BY <2>1 DEF Event, Events
  <1>2. \A bytes \in Seq(Byte) : BytesEvent("Output", bytes) \in Events
    BY DEF BytesEvent, Events
  <1> QED
    BY <1>1, <1>2

LEMMA RecordingParts ==
    ASSUME NEW r \in SessionRecordings
    PROVE  /\ r.enabled \in BOOLEAN /\ r.truncated \in BOOLEAN
           /\ r.events \in Seq(Events) /\ r.output_bytes \in 0..OutputBudget
  BY DEF SessionRecordings

LEMMA PushEffect ==
    ASSUME NEW r \in SessionRecordings, NEW event \in Events, NEW q, q = Push(r, event)
    PROVE  /\ q \in SessionRecordings
           /\ q.enabled = r.enabled /\ q.truncated = r.truncated
           /\ q.output_bytes = r.output_bytes
           /\ r.enabled => q.events = Append(r.events, event)
           /\ ~r.enabled => q = r
  <1> DEFINE more == Append(r.events, event)
  <1>1. more \in Seq(Events)
    BY RecordingParts
  <1> HIDE DEF more
  <1>2. q = IF r.enabled THEN [r EXCEPT !.events = more] ELSE r
    BY DEF Push, more
  <1>3. CASE r.enabled
    <2>1. q = [r EXCEPT !.events = more]
      BY <1>2, <1>3
    <2> QED
      BY <1>1, <1>3, <2>1 DEF SessionRecordings, more
  <1>4. CASE ~r.enabled
    BY <1>2, <1>4
  <1> QED
    BY <1>3, <1>4

(* push_output, while it records: the first k bytes are kept.              *)
Keeps(r, bytes, q, k) ==
    /\ k = IF Len(bytes) < OutputBudget - r.output_bytes THEN Len(bytes)
           ELSE OutputBudget - r.output_bytes
    /\ q.output_bytes = r.output_bytes + k
    /\ q.truncated <=> k < Len(bytes)
    /\ q.events = IF k = 0 THEN r.events
                  ELSE Append(r.events, BytesEvent("Output", SubSeq(bytes, 1, k)))

LEMMA PushOutputEffect ==
    ASSUME NEW r \in SessionRecordings, NEW bytes \in Seq(Byte), bytes # <<>>,
           NEW q, q = PushOutput(r, bytes)
    PROVE  /\ q \in SessionRecordings /\ q.enabled = r.enabled
           /\ ~r.enabled \/ r.truncated => q = r
           /\ r.enabled /\ ~r.truncated => \E k \in 0..Len(bytes) : Keeps(r, bytes, q, k)
  <1> DEFINE k == IF Len(bytes) < OutputBudget - r.output_bytes THEN Len(bytes)
                  ELSE OutputBudget - r.output_bytes
             retained == SubSeq(bytes, 1, k)
             kept == IF retained = <<>> THEN r ELSE Push(r, BytesEvent("Output", retained))
             n == kept.output_bytes + Len(retained)
             cut == Len(retained) < Len(bytes)
  <1>1. CASE ~r.enabled \/ r.truncated
    BY <1>1 DEF PushOutput
  <1>2. CASE r.enabled /\ ~r.truncated
    <2>1. r.output_bytes \in 0..OutputBudget /\ OutputBudget \in Nat
      BY RecordingParts, RunAssumption
    <2>2. k \in 0..Len(bytes) /\ retained \in Seq(Byte) /\ Len(retained) = k
          /\ r.output_bytes + k \in 0..OutputBudget
      BY <2>1
    <2>3. Retained(r, bytes) = retained
      BY DEF Retained
    <2>4. q = [kept EXCEPT !.output_bytes = n, !.truncated = cut]
      BY <1>2, <2>3 DEF PushOutput
    <2>5. BytesEvent("Output", retained) \in Events
      BY <2>2, EventTypes
    <2>6. retained = <<>> <=> k = 0
      BY <2>2
    <2>7. /\ kept \in SessionRecordings /\ kept.enabled = r.enabled
          /\ kept.output_bytes = r.output_bytes
          /\ kept.events = IF k = 0 THEN r.events ELSE Append(r.events, BytesEvent("Output", retained))
      <3> DEFINE event == BytesEvent("Output", retained)
      <3>1. event \in Events
        BY <2>5
      <3> HIDE DEF k, retained, event
      <3>2. CASE k = 0
        BY <2>6, <3>2
      <3>3. CASE k # 0
        <4>1. kept = Push(r, event)
          BY <2>6, <3>3 DEF event
        <4> HIDE DEF kept
        <4>2. kept \in SessionRecordings /\ kept.enabled = r.enabled
              /\ kept.output_bytes = r.output_bytes /\ kept.events = Append(r.events, event)
          BY <1>2, <3>1, <4>1, PushEffect
        <4> QED
          BY <3>3, <4>2 DEF event
      <3> QED
        BY <3>2, <3>3
    <2>8. n = r.output_bytes + k /\ cut \in BOOLEAN /\ (cut <=> k < Len(bytes))
      BY <2>2, <2>7
    <2> HIDE DEF kept, n, cut
    <2>9. /\ q \in SessionRecordings /\ q.enabled = kept.enabled /\ q.output_bytes = n
          /\ q.truncated = cut /\ q.events = kept.events
      BY <2>2, <2>4, <2>7, <2>8 DEF SessionRecordings
    <2>10. k = (IF Len(bytes) < OutputBudget - r.output_bytes THEN Len(bytes)
                           ELSE OutputBudget - r.output_bytes)
      OBVIOUS
    <2> HIDE DEF k
    <2>11. Keeps(r, bytes, q, k)
      BY <2>7, <2>8, <2>9, <2>10 DEF Keeps
    <2> QED
      BY <1>2, <2>2, <2>7, <2>9, <2>11
  <1>3. r.enabled \in BOOLEAN /\ r.truncated \in BOOLEAN
    BY RecordingParts
  <1> QED
    BY <1>1, <1>2, <1>3

LEMMA ChunkIsBytes ==
    ASSUME NEW chunk \in Chunks
    PROVE  chunk \in Seq(Byte) /\ chunk # <<>>
  BY RunAssumption

LEMMA NextTailType ==
    ASSUME NEW bytes \in Seq(Byte)
    PROVE  NextTail(bytes) \in Seq(Byte) /\ Len(NextTail(bytes)) < Len(Query)
  <1> DEFINE first == IF Len(bytes) < 3 THEN 1 ELSE Len(bytes) - 3 + 1
  <1>1. Len(Query) = 4
    BY DEF Query
  <1>2. NextTail(bytes) = SubSeq(bytes, first, Len(bytes))
    <2>1. NextTail(bytes) = LastBytes(bytes, 3)
      BY <1>1 DEF NextTail
    <2> QED
      BY <2>1 DEF LastBytes
  <1>3. first \in 1..(Len(bytes) + 1) /\ Len(bytes) \in Nat /\ Len(bytes) - first + 1 <= 3
    OBVIOUS
  <1> HIDE DEF first
  <1>4. SubSeq(bytes, first, Len(bytes)) \in Seq(Byte)
        /\ Len(SubSeq(bytes, first, Len(bytes))) <= 3
    BY <1>3
  <1> QED
    BY <1>1, <1>2, <1>4

-----------------------------------------------------------------------------
(* The types of the variables.                                             *)

Typed ==
    /\ TypeOK
    /\ tail \in Seq(Byte)
    /\ recording \in SessionRecordings

(* The terminal is new, or open at the size of the PTY.                    *)
Sized ==
    \/ phase \in {"start", "done"} /\ pty_size = "none" /\ t = NewTerminal
    \/ pty_size \in TerminalSizes /\ t \in Ready(TerminalSizes, pty_size)

LEMMA RequestParts ==
    ASSUME NEW r \in Requests
    PROVE  /\ r.record \in BOOLEAN /\ Len(r.script) \in Nat /\ DOMAIN r.script = 1..Len(r.script)
           /\ r.script \in Seq(Range(r.script))
  BY RunAssumption

LEMMA RecordChunkEffect ==
    ASSUME NEW chunk \in Chunks, NEW answered \in BOOLEAN, recording \in SessionRecordings
    PROVE  /\ RecordChunk(chunk, answered) \in SessionRecordings
           /\ RecordChunk(chunk, answered).enabled = recording.enabled
  <1> DEFINE q == PushOutput(recording, chunk)
  <1>1. q \in SessionRecordings /\ q.enabled = recording.enabled
    BY ChunkIsBytes, PushOutputEffect
  <1>2. RecordChunk(chunk, answered) = IF answered THEN Push(q, Event("Input", "response")) ELSE q
    BY DEF RecordChunk
  <1> HIDE DEF q
  <1>3. /\ Push(q, Event("Input", "response")) \in SessionRecordings
        /\ Push(q, Event("Input", "response")).enabled = q.enabled
    BY <1>1, EventTypes, PushEffect
  <1> QED
    BY <1>1, <1>2, <1>3

LEMMA InitTyped == Init => Typed /\ Sized
  <1> SUFFICES ASSUME Init PROVE Typed /\ Sized
    OBVIOUS
  <1>1. request \in Requests /\ Len(request.script) \in Nat /\ request.record \in BOOLEAN
    BY RequestParts DEF Init
  <1>2. OutputBudget \in Nat /\ MaxChunks \in Nat
    BY RunAssumption
  <1>3. recording \in SessionRecordings /\ recording.enabled = request.record
    <2> DEFINE no == FALSE
    <2>1. recording = [enabled |-> request.record, events |-> <<>>, output_bytes |-> 0,
                       truncated |-> no]
      BY DEF Init, NewRecording
    <2>2. <<>> \in Seq(Events) /\ no \in BOOLEAN
      OBVIOUS
    <2> HIDE DEF no
    <2> QED
      BY <1>1, <1>2, <2>1, <2>2 DEF SessionRecordings
  <1>4. TypeOK
    <2>1. Len(tail) < Len(Query)
      BY DEF Init, Query
    <2>2. recording.output_bytes \in 0..OutputBudget
      BY <1>3, RecordingParts
    <2>3. delivered \in Seq(Chunks) /\ Len(delivered) <= MaxChunks
      BY <1>2 DEF Init
    <2>4. eof \in BOOLEAN /\ emitted \in BOOLEAN
      BY DEF Init
    <2>5. /\ phase \in {"start", "setup", "running", "emit", "save", "done"}
          /\ resizes \in 0..Len(request.script)
          /\ pty_size \in TerminalSizes \cup {"none"}
          /\ input \in {"open", "closed"}
          /\ exit \in ExitCodes \cup {NotYet}
          /\ code \in Nat \cup {NotYet}
      BY <1>1 DEF Init
    <2> QED
      BY <1>1, <1>3, <2>1, <2>2, <2>3, <2>4, <2>5 DEF TypeOK
  <1>5. Sized
    BY DEF Init, Sized
  <1> QED
    BY <1>3, <1>4, <1>5 DEF Typed, Init

LEMMA CurrentSize ==
    ASSUME NEW size, t \in Ready(TerminalSizes, size)
    PROVE  TerminalSize(t) = size
  <1>1. t \in Terminals(TerminalSizes) /\ LastResize(t, size)
    BY DEF Ready, Open
  <1> QED
    BY <1>1, SizeRead

LEMMA PushTyped ==
    ASSUME Typed, NEW event \in Events
    PROVE  /\ Push(recording, event) \in SessionRecordings
           /\ Push(recording, event).enabled = request.record
           /\ Push(recording, event).output_bytes \in 0..OutputBudget
  <1> DEFINE q == Push(recording, event)
  <1>1. q \in SessionRecordings /\ q.enabled = recording.enabled
    BY PushEffect DEF Typed
  <1> HIDE DEF q
  <1>2. q.output_bytes \in 0..OutputBudget /\ q.enabled = request.record
    BY <1>1, RecordingParts DEF Typed, TypeOK
  <1> QED
    BY <1>1, <1>2 DEF q

LEMMA TypedStep == Typed /\ Sized /\ [Next]_vars => Typed' /\ Sized'
  <1> SUFFICES ASSUME Typed, Sized, [Next]_vars
               PROVE  Typed' /\ Sized'
    OBVIOUS
  <1> USE DEF StreamSame, ResultSame
  <1>0. /\ TypeOK /\ tail \in Seq(Byte) /\ recording \in SessionRecordings
        /\ request \in Requests /\ Len(request.script) \in Nat /\ request.record \in BOOLEAN
    BY RequestParts DEF Typed, TypeOK
  <1>1. CASE RefuseRequest
    BY <1>0, <1>1 DEF RefuseRequest, Typed, TypeOK, Sized
  <1>2. CASE StartRun
    <2>1. SizeLoads(request.size) => OpenTerminal(request.size) \in Ready(TerminalSizes, request.size)
      BY OpenReady DEF SizeLoads
    <2>2. Sized'
      BY <1>2, <2>1 DEF StartRun, Sized, Fail, SizeLoads
    <2>3. Typed'
      BY <1>0, <1>2 DEF StartRun, Typed, TypeOK, Fail, SizeLoads
    <2> QED
      BY <2>2, <2>3
  <1>3. CASE ResizeSession
    <2> DEFINE size == request.script[resizes + 1]
    <2>1. pty_size \in TerminalSizes /\ t \in Ready(TerminalSizes, pty_size)
      BY <1>3 DEF ResizeSession, Sized
    <2>2. TerminalSize(t) = pty_size
      BY <2>1, CurrentSize
    <2>3. CASE /\ SizeLoads(size)
               /\ t' = ResizeTerminal(t, size)
               /\ pty_size' = size
               /\ resizes' = resizes + 1
               /\ recording' = Push(recording, Event("Resize", size))
               /\ UNCHANGED <<phase, code>>
      <3>1. size \in TerminalSizes
        BY <2>3 DEF SizeLoads
      <3> HIDE DEF size
      <3>2. Event("Resize", size) \in Events
        BY <3>1, EventTypes
      <3>3. /\ recording' \in SessionRecordings /\ recording'.enabled = request.record
            /\ recording'.output_bytes \in 0..OutputBudget
        BY <2>3, <3>2, PushTyped
      <3>4. ResizeTerminal(t, size) \in Ready(TerminalSizes, size)
        BY <2>1, <3>1, ResizeReady
      <3>5. Sized'
        BY <2>3, <3>1, <3>4 DEF Sized
      <3>6. resizes' \in 0..Len(request.script)
        BY <1>0, <1>3, <2>3 DEF ResizeSession, TypeOK
      <3>7. Typed'
        BY <1>0, <1>3, <2>3, <3>1, <3>3, <3>6 DEF ResizeSession, Typed, TypeOK
      <3> QED
        BY <3>5, <3>7
    <2>4. CASE /\ SizeLoads(size)
               /\ t' = RolledBack(size, TerminalSize(t))
               /\ Fail
               /\ UNCHANGED <<pty_size, resizes, recording>>
      <3>1. size \in TerminalSizes
        BY <2>4 DEF SizeLoads
      <3> HIDE DEF size
      <3>2. ResizeTerminal(t, size) \in Ready(TerminalSizes, size)
        BY <2>1, <3>1, ResizeReady
      <3>3. ResizeTerminal(ResizeTerminal(t, size), pty_size) \in Ready(TerminalSizes, pty_size)
        BY <2>1, <3>2, ResizeReady
      <3>4. Sized'
        BY <2>1, <2>2, <2>4, <3>3 DEF Sized, RolledBack
      <3>5. Typed'
        BY <1>0, <1>3, <2>4 DEF ResizeSession, Typed, TypeOK, Fail
      <3> QED
        BY <3>4, <3>5
    <2>5. CASE ~SizeLoads(size) /\ Fail /\ UNCHANGED <<t, pty_size, resizes, recording>>
      <3> HIDE DEF size
      <3> QED
        BY <1>0, <1>3, <2>1, <2>5 DEF ResizeSession, Typed, TypeOK, Fail, Sized
    <2> HIDE DEF size
    <2> QED
      BY <1>3, <2>3, <2>4, <2>5 DEF ResizeSession, size
  <1>4. CASE ProvideInput
    <2> DEFINE event == Event("Input", "file")
    <2>1. /\ Push(recording, event) \in SessionRecordings
          /\ Push(recording, event).enabled = request.record
          /\ Push(recording, event).output_bytes \in 0..OutputBudget
      BY EventTypes, PushTyped
    <2>2. UNCHANGED <<t, pty_size>> /\ phase' \in {"running", "done"} /\ phase = "setup"
      BY <1>4 DEF ProvideInput, Fail
    <2>3. Sized'
      BY <2>2 DEF Sized
    <2>4. /\ recording' \in SessionRecordings /\ recording'.enabled = request.record
          /\ recording'.output_bytes \in 0..OutputBudget
      <3>1. recording' = Push(recording, event) \/ recording' = recording
        BY <1>4 DEF ProvideInput
      <3> HIDE DEF event
      <3> QED
        BY <1>0, <2>1, <3>1 DEF TypeOK
    <2>5. Typed'
      BY <1>0, <1>4, <2>2, <2>4 DEF ProvideInput, Typed, TypeOK, Fail
    <2> QED
      BY <2>3, <2>5
  <1>5. ASSUME NEW chunk \in Chunks, Output(chunk)
        PROVE  Typed' /\ Sized'
    <2> DEFINE answered == Completes(tail \o chunk)
    <2>1. chunk \in Seq(Byte)
      BY ChunkIsBytes
    <2>2. answered \in BOOLEAN
      BY DEF Completes
    <2>3. /\ recording' \in SessionRecordings /\ recording'.enabled = request.record
          /\ recording'.output_bytes \in 0..OutputBudget
      <3>1. recording' = RecordChunk(chunk, answered)
        BY <1>5 DEF Output
      <3> HIDE DEF answered
      <3>2. recording' \in SessionRecordings /\ recording'.enabled = recording.enabled
        BY <1>0, <2>2, <3>1, RecordChunkEffect
      <3> QED
        BY <1>0, <3>2, RecordingParts DEF TypeOK
    <2>4. tail' \in Seq(Byte) /\ Len(tail') < Len(Query)
      <3>1. tail' = NextTail(tail \o chunk) /\ tail \o chunk \in Seq(Byte)
        BY <1>0, <1>5, <2>1 DEF Output
      <3> QED
        BY <3>1, NextTailType
    <2>5. pty_size \in TerminalSizes /\ t \in Ready(TerminalSizes, pty_size)
      BY <1>5 DEF Output, Running, Sized
    <2>6. Advance(t, chunk) \in Ready(TerminalSizes, pty_size)
      BY <2>1, <2>5, AdvanceScans
    <2>7. Sized'
      BY <1>5, <2>5, <2>6 DEF Output, Sized
    <2>8. delivered' \in Seq(Chunks) /\ Len(delivered') <= MaxChunks
      BY <1>0, <1>5, RunAssumption DEF Output, TypeOK
    <2>9. phase' \in {"running", "done"} /\ code' \in Nat \cup {NotYet}
      BY <1>0, <1>5 DEF Output, Fail, Running, TypeOK
    <2>10. UNCHANGED <<request, resizes, pty_size, input, exit, eof, emitted>>
      BY <1>5 DEF Output
    <2>11. Typed'
      BY <1>0, <2>3, <2>4, <2>8, <2>9, <2>10 DEF Typed, TypeOK
    <2> QED
      BY <2>7, <2>11
  <1>6. CASE Eof
    <2>1. /\ recording' \in SessionRecordings /\ recording'.enabled = request.record
          /\ recording'.output_bytes \in 0..OutputBudget
      BY <1>6, EventTypes, PushTyped DEF Eof
    <2>2. eof' \in BOOLEAN
      BY <1>6 DEF Eof
    <2> QED
      BY <1>0, <1>6, <2>1, <2>2 DEF Eof, Typed, TypeOK, Sized
  <1>7. CASE Exit
    <2>1. /\ recording' \in SessionRecordings /\ recording'.enabled = request.record
          /\ recording'.output_bytes \in 0..OutputBudget
      BY <1>7, EventTypes, PushTyped DEF Exit
    <2> QED
      BY <1>0, <1>7, <2>1 DEF Exit, Typed, TypeOK, Sized
  <1>8. CASE Complete
    BY <1>0, <1>8 DEF Complete, Running, Fail, Typed, TypeOK, Sized
  <1>9. CASE Emit
    <2>1. emitted' \in BOOLEAN
      BY <1>0, <1>9 DEF Emit, TypeOK
    <2> QED
      BY <1>0, <1>9, <2>1 DEF Emit, Fail, Typed, TypeOK, Sized
  <1>10. CASE Save
    <2>1. code' \in Nat \cup {NotYet}
      <3>1. ChildExitCode(exit) \in Nat \cup {NotYet}
        BY <1>0, RunAssumption DEF TypeOK, ChildExitCode
      <3> QED
        BY <1>10, <3>1 DEF Save
    <2> QED
      BY <1>0, <1>10, <2>1 DEF Save, Typed, TypeOK, Sized
  <1>11. CASE UNCHANGED vars
    BY <1>0, <1>11 DEF vars, Typed, TypeOK, Sized
  <1>12. ASSUME NEW chunk \in Chunks, Panic(chunk)
         PROVE  Typed' /\ Sized'
    BY <1>0, <1>12 DEF Panic, PanicCode, Running, Typed, TypeOK, Sized
  <1> QED
    BY <1>1, <1>2, <1>3, <1>4, <1>5, <1>6, <1>7, <1>8, <1>9, <1>10, <1>11, <1>12 DEF Next, Done

(* Every variable of a run has its type (RunOptions, CoreRunSink,          *)
(* RecordingState, TerminalQueryResponder).                                *)
THEOREM RunTyped == Spec => []TypeOK
  <1>1. Init => Typed /\ Sized
    BY InitTyped
  <1>2. Typed /\ Sized /\ [Next]_vars => Typed' /\ Sized'
    BY TypedStep
  <1>3. Typed => TypeOK
    BY DEF Typed
  <1> QED
    BY <1>1, <1>2, <1>3, PTL DEF Spec

LEMMA AlwaysSized == Spec => [](Typed /\ Sized)
  BY InitTyped, TypedStep, PTL DEF Spec

(* The terminal and the PTY have the same size after every resize, the one *)
(* the PTY refused included (PtyBridge::resize_session).                   *)
THEOREM BridgeAlwaysAgrees == Spec => []BridgeAgrees
  <1>1. Typed /\ Sized => BridgeAgrees
    BY CurrentSize DEF Sized, BridgeAgrees
  <1> QED
    BY <1>1, AlwaysSized, PTL

(* The action buffer keeps its limit and accounts for every action applied *)
(* and generated (record_action), for any bytes in any chunks.             *)
THEOREM BufferAlwaysAccounts == Spec => []BufferAccounts
  <1>1. Typed /\ Sized => Accounted(t)
    <2>1. t = NewTerminal => Accounted(t)
      BY NewReady
    <2>2. t \in Ready(TerminalSizes, pty_size) => Accounted(t)
      BY DEF Ready, Open
    <2> QED
      BY <2>1, <2>2 DEF Sized
  <1>2. Accounted(t) => BufferAccounts
    BY DEF Accounted, BufferAccounts, Handled, Answered
  <1> QED
    BY <1>1, <1>2, AlwaysSized, PTL

-----------------------------------------------------------------------------
(* The terminal that was given all the sizes.                              *)

Counted(Z) == {w \in Terminals(Z) : Accounted(w)}
Resized(w, sizes) == FoldLeft(ResizeTerminal, w, sizes)
ResizeOp(Z) == [p \in Counted(Z) \X Z |-> ResizeTerminal(p[1], p[2])]

LEMMA ResizeOpType ==
    ASSUME NEW Z
    PROVE  /\ ResizeOp(Z) \in [Counted(Z) \X Z -> Counted(Z)]
           /\ \A w \in Counted(Z), size \in Z : ResizeOp(Z)[<<w, size>>] = ResizeTerminal(w, size)
  <1>1. \A w \in Counted(Z), size \in Z : ResizeTerminal(w, size) \in Counted(Z)
    BY ResizeKeeps DEF Counted, Open
  <1> QED
    BY <1>1 DEF ResizeOp

LEMMA ResizeFold ==
    ASSUME NEW Z, NEW w \in Counted(Z), NEW sizes \in Seq(Z)
    PROVE  FoldsTo(Counted(Z), Z, ResizeOp(Z), w, sizes, Resized(w, sizes))
  <1> DEFINE A == Counted(Z)
             op == ResizeOp(Z)
             F(g) == [r \in SUBSET (DOMAIN sizes) |->
                        IF r = {} THEN w ELSE ResizeTerminal(g[r \ {Max(r)}], sizes[Max(r)])]
             it == CHOOSE g : g = F(g)
  <1>1. op \in [A \X Z -> A] /\ \A a \in A, e \in Z : op[<<a, e>>] = ResizeTerminal(a, e)
    BY ResizeOpType
  <1>2. Resized(w, sizes) = it[DOMAIN sizes]
    BY DEF Resized, FoldLeft, MapThenFoldSet
  <1> HIDE DEF A, op
  <1>3. Foldable(A, Z, op, w, sizes)
    BY <1>1 DEF Foldable, A
  <1>4. PICK g : IterationOnA(g, A, Z, op, w, sizes)
    BY <1>3, IterationOnAExists
  <1>5. g = F(g)
    BY <1>1, <1>4 DEF IterationOnA
  <1>6. it = F(it)
    BY <1>5
  <1> HIDE DEF it
  <1>7. Folds(it, A, Z, op, w, sizes)
    BY <1>1, <1>3, <1>4, <1>6 DEF Folds, IterationOnA
  <1>8. FoldsTo(A, Z, op, w, sizes, it[DOMAIN sizes])
    BY <1>7, FoldsToResult
  <1> QED
    BY <1>2, <1>8 DEF A, op

LEMMA ResizedParts ==
    ASSUME NEW Z, NEW w \in Counted(Z)
    PROVE  /\ Resized(w, <<>>) = w
           /\ \A sizes \in Seq(Z), size \in Z :
                 Resized(w, Append(sizes, size)) = ResizeTerminal(Resized(w, sizes), size)
  <1> DEFINE A == Counted(Z)
             op == ResizeOp(Z)
             To(sizes, u) == FoldsTo(A, Z, op, w, sizes, u)
  <1>1. op \in [A \X Z -> A] /\ \A a \in A, e \in Z : op[<<a, e>>] = ResizeTerminal(a, e)
    BY ResizeOpType
  <1>2. \A sizes \in Seq(Z) : To(sizes, Resized(w, sizes))
    BY ResizeFold
  <1>3. \A sizes, p, q : To(sizes, p) /\ To(sizes, q) => p = q
    BY FoldUnique
  <1>4. To(<<>>, w)
    BY <1>1, FoldOfEmpty
  <1>5. \A sizes, p : To(sizes, p) => p \in A
    BY FoldResult
  <1>6. \A sizes, p : \A e \in Z : To(sizes, p) => To(Append(sizes, e), op[<<p, e>>])
    BY FoldOfAppend
  <1> HIDE DEF A, op, To
  <1>7. Resized(w, <<>>) = w
    <2>1. <<>> \in Seq(Z)
      OBVIOUS
    <2> QED
      BY <1>2, <1>3, <1>4, <2>1
  <1>8. ASSUME NEW sizes \in Seq(Z), NEW size \in Z
        PROVE  Resized(w, Append(sizes, size)) = ResizeTerminal(Resized(w, sizes), size)
    <2>1. Append(sizes, size) \in Seq(Z)
      OBVIOUS
    <2>2. To(Append(sizes, size), op[<<Resized(w, sizes), size>>])
      BY <1>2, <1>6
    <2>3. To(Append(sizes, size), Resized(w, Append(sizes, size)))
      BY <1>2, <2>1
    <2>4. Resized(w, sizes) \in A
      BY <1>2, <1>5
    <2> QED
      BY <1>1, <1>3, <2>2, <2>3, <2>4
  <1> QED
    BY <1>7, <1>8

LEMMA SizedTerminalIs ==
    ASSUME request.size \in TerminalSizes, request.script \in Seq(Range(request.script)),
           NEW n \in Nat, n <= Len(request.script),
           \A i \in 1..n : request.script[i] \in TerminalSizes
    PROVE  /\ SizedTerminal(0) = OpenTerminal(request.size)
           /\ n > 0 => SizedTerminal(n) = ResizeTerminal(SizedTerminal(n - 1), request.script[n])
  <1> DEFINE script == request.script
             w == OpenTerminal(request.size)
  <1>1. w \in Counted(TerminalSizes)
    BY OpenReady DEF Ready, Open, Counted
  <1>2. \A m : SizedTerminal(m) = Resized(w, SubSeq(script, 1, m))
    BY DEF SizedTerminal, Resized
  <1> HIDE DEF w
  <1>3. SubSeq(script, 1, 0) = <<>>
    OBVIOUS
  <1>4. SizedTerminal(0) = w
    BY <1>1, <1>2, <1>3, ResizedParts
  <1>5. ASSUME n > 0
        PROVE  SizedTerminal(n) = ResizeTerminal(SizedTerminal(n - 1), script[n])
    <2> DEFINE front == SubSeq(script, 1, n - 1)
    <2>1. front \in Seq(TerminalSizes) /\ script[n] \in TerminalSizes
          /\ SubSeq(script, 1, n) = Append(front, script[n])
      BY <1>5
    <2> HIDE DEF front
    <2>2. Resized(w, Append(front, script[n])) = ResizeTerminal(Resized(w, front), script[n])
      BY <1>1, <2>1, ResizedParts
    <2> QED
      BY <1>2, <2>1, <2>2 DEF front
  <1> QED
    BY <1>4, <1>5 DEF w

-----------------------------------------------------------------------------
(* The stream of the chunks, and the terminal that gets it whole.          *)

LEMMA StreamMore ==
    ASSUME NEW chunks \in Seq(Chunks), NEW chunk \in Chunks
    PROVE  /\ FlattenSeq(chunks) \in Seq(Byte)
           /\ chunks = <<>> => FlattenSeq(chunks) = <<>>
           /\ FlattenSeq(Append(chunks, chunk)) = FlattenSeq(chunks) \o chunk
  <1>1. chunks \in Seq(Seq(Byte)) /\ chunk \in Seq(Byte)
    <2>1. Chunks \subseteq Seq(Byte)
      BY ChunkIsBytes
    <2> QED
      BY <2>1
  <1> QED
    BY <1>1, FlattenType, FlattenAppend

LEMMA StreamEnd ==
    ASSUME NEW chunks \in Seq(Chunks), chunks # <<>>
    PROVE  /\ FlattenSeq(chunks) \in Seq(Byte) /\ FlattenSeq(chunks) # <<>>
           /\ FlattenSeq(chunks)[Len(FlattenSeq(chunks))]
                = chunks[Len(chunks)][Len(chunks[Len(chunks)])]
  <1>1. PICK front \in Seq(Chunks), last \in Chunks : chunks = Append(front, last)
    BY SequenceEmptyOrAppend
  <1>2. chunks[Len(chunks)] = last
    BY <1>1
  <1> DEFINE f == FlattenSeq(front)
  <1>3. f \in Seq(Byte) /\ FlattenSeq(chunks) = f \o last
    BY <1>1, StreamMore
  <1>4. last \in Seq(Byte) /\ last # <<>>
    BY ChunkIsBytes
  <1> HIDE DEF f
  <1>5. /\ f \o last \in Seq(Byte) /\ f \o last # <<>>
        /\ (f \o last)[Len(f \o last)] = last[Len(last)]
    BY <1>3, <1>4
  <1> QED
    BY <1>2, <1>3, <1>5

(* The sizes were accepted and the chunks may come, or came.               *)
Begun == phase \notin {"start", "done"} \/ delivered # <<>>

Split ==
    /\ phase \in {"start", "setup"} => delivered = <<>>
    /\ phase = "start" => resizes = 0
    /\ Begun =>
         /\ request.size \in TerminalSizes
         /\ \A i \in 1..resizes : request.script[i] \in TerminalSizes
         /\ SizedTerminal(resizes) \in Ready(TerminalSizes, pty_size)
         /\ ~SizedTerminal(resizes).pending_escape
         /\ delivered = <<>> => t = SizedTerminal(resizes)
    /\ SplitInvariant

LEMMA InitSplit == Init => Split
  BY DEF Init, Split, Begun, SplitInvariant

(* A step that neither resizes nor outputs.                                *)
LEMMA SplitSame ==
    ASSUME Split, UNCHANGED <<request, resizes, t, pty_size, delivered>>,
           phase' \in {"start", "setup"} => phase' = phase,
           phase = "start" => phase' \in {"start", "done"},
           phase = "done" => phase' = "done"
    PROVE  Split'
  <1>1. SizedTerminal(resizes)' = SizedTerminal(resizes)
    BY DEF SizedTerminal
  <1>2. SplitInvariant'
    BY <1>1 DEF Split, SplitInvariant, WholeTerminal, PartsEscapes
  <1>3. Begun' => Begun
    BY DEF Begun
  <1>4. Begun' =>
         /\ request'.size \in TerminalSizes
         /\ \A i \in 1..resizes' : request'.script[i] \in TerminalSizes
         /\ SizedTerminal(resizes)' \in Ready(TerminalSizes, pty_size')
         /\ ~(SizedTerminal(resizes)').pending_escape
         /\ delivered' = <<>> => t' = SizedTerminal(resizes)'
    BY <1>1, <1>3 DEF Split
  <1> QED
    BY <1>2, <1>4 DEF Split

LEMMA SplitOutput ==
    ASSUME Typed, Sized, Split, NEW chunk \in Chunks, Output(chunk)
    PROVE  Split'
  <1> DEFINE w == SizedTerminal(resizes)
             a == FlattenSeq(delivered)
             n == Len(delivered)
  <1>1. /\ Begun /\ UNCHANGED <<request, resizes, pty_size>>
        /\ t' = Advance(t, chunk) /\ delivered' = Append(delivered, chunk)
        /\ phase' \in {"running", "done"}
    BY DEF Output, Running, Begun, Fail
  <1>2. SizedTerminal(resizes)' = w
    BY <1>1 DEF SizedTerminal
  <1>3. /\ w \in Ready(TerminalSizes, pty_size) /\ ~w.pending_escape
        /\ (delivered = <<>> => t = w)
    BY <1>1 DEF Split
  <1>4. /\ delivered \in Seq(Chunks) /\ n \in Nat /\ delivered' # <<>>
        /\ Len(delivered') = n + 1 /\ delivered'[n + 1] = chunk
        /\ \A i \in 1..n : delivered'[i] = delivered[i]
    BY <1>1 DEF Typed, TypeOK
  <1>5. chunk \in Seq(Byte) /\ chunk # <<>> /\ Head(chunk) = chunk[1]
    BY ChunkIsBytes
  <1>6. a \in Seq(Byte) /\ FlattenSeq(delivered)' = a \o chunk /\ (delivered = <<>> => a = <<>>)
    BY <1>1, <1>4, StreamMore
  <1>7. WholeTerminal' = Advance(w, a \o chunk)
    BY <1>2, <1>6 DEF WholeTerminal
  <1>8. SplitInvariant'
    <2> SUFFICES ASSUME \A i \in 1..n : ~PartsEscapes(i)'
                 PROVE  t' = Advance(w, a \o chunk)
      <3>1. Len(delivered') - 1 = n
        BY <1>4
      <3> QED
        BY <1>7, <3>1 DEF SplitInvariant
    <2>1. CASE delivered = <<>>
      <3>1. a \o chunk = chunk
        BY <1>5, <1>6, <2>1
      <3> QED
        BY <1>1, <1>3, <2>1, <3>1
    <2>2. CASE delivered # <<>>
      <3>1. n \in 1..n
        BY <1>4, <2>2
      <3>2. ~(delivered[n][Len(delivered[n])] = Esc /\ chunk[1] = Esc)
        BY <1>4, <3>1 DEF PartsEscapes
      <3>3. a # <<>> /\ a[Len(a)] = delivered[n][Len(delivered[n])]
        BY <1>4, <2>2, StreamEnd
      <3>4. \A i \in 1..(n - 1) : ~PartsEscapes(i)
        <4> TAKE i \in 1..(n - 1)
        <4>1. i \in 1..n /\ i + 1 \in 1..n
          BY <1>4
        <4>2. ~PartsEscapes(i)'
          BY <4>1
        <4>3. delivered'[i] = delivered[i] /\ delivered'[i + 1] = delivered[i + 1]
          BY <1>4, <4>1
        <4> QED
          BY <4>2, <4>3 DEF PartsEscapes
      <3>5. t = Advance(w, a)
        BY <2>2, <3>4 DEF Split, SplitInvariant, WholeTerminal
      <3> HIDE DEF w, a
      <3>6. Advance(Advance(w, a), chunk) = Advance(w, a \o chunk)
        BY <1>3, <1>5, <1>6, <3>2, <3>3, SplitAdvance
      <3> QED
        BY <1>1, <3>5, <3>6
    <2> QED
      BY <2>1, <2>2
  <1>9. /\ request'.size \in TerminalSizes
        /\ \A i \in 1..resizes' : request'.script[i] \in TerminalSizes
        /\ SizedTerminal(resizes)' \in Ready(TerminalSizes, pty_size')
        /\ ~(SizedTerminal(resizes)').pending_escape
    BY <1>1, <1>2, <1>3 DEF Split
  <1> QED
    BY <1>1, <1>4, <1>8, <1>9 DEF Split

LEMMA SplitStart ==
    ASSUME Typed, Split, StartRun
    PROVE  Split'
  <1>1. delivered = <<>> /\ delivered' = <<>> /\ resizes = 0 /\ UNCHANGED <<request, resizes>>
    BY DEF StartRun, StreamSame, Split
  <1>2. CASE phase' = "done"
    BY <1>1, <1>2 DEF Split, Begun, SplitInvariant
  <1>3. CASE phase' # "done"
    <2>1. /\ request.size \in TerminalSizes /\ t' = OpenTerminal(request.size)
          /\ pty_size' = request.size /\ phase' = "setup"
      BY <1>3 DEF StartRun, Fail, SizeLoads
    <2>2. SizedTerminal(0) = OpenTerminal(request.size)
      <3>1. request.script \in Seq(Range(request.script)) /\ 0 <= Len(request.script)
        BY RequestParts DEF Typed, TypeOK
      <3> QED
        BY <2>1, <3>1, SizedTerminalIs
    <2>3. SizedTerminal(resizes)' = SizedTerminal(0)
      BY <1>1 DEF SizedTerminal
    <2>4. OpenTerminal(request.size) \in Ready(TerminalSizes, request.size)
          /\ ~OpenTerminal(request.size).pending_escape
      BY <2>1, OpenReady
    <2>5. SplitInvariant'
      BY <1>1 DEF SplitInvariant
    <2>6. \A i \in 1..resizes' : request'.script[i] \in TerminalSizes
      BY <1>1
    <2> QED
      BY <1>1, <2>1, <2>2, <2>3, <2>4, <2>5, <2>6 DEF Split
  <1> QED
    BY <1>2, <1>3

LEMMA SplitResize ==
    ASSUME Typed, Sized, Split, ResizeSession
    PROVE  Split'
  <1> DEFINE size == request.script[resizes + 1]
             w == SizedTerminal(resizes)
  <1>1. delivered = <<>> /\ delivered' = <<>> /\ UNCHANGED request /\ phase = "setup" /\ Begun
    BY DEF ResizeSession, StreamSame, Split, Begun
  <1>2. SplitInvariant'
    BY <1>1 DEF SplitInvariant
  <1>3. CASE phase' = "done"
    BY <1>1, <1>2, <1>3 DEF Split, Begun
  <1>4. CASE phase' # "done"
    <2>1. /\ size \in TerminalSizes /\ t' = ResizeTerminal(t, size) /\ pty_size' = size
          /\ resizes' = resizes + 1 /\ phase' = "setup"
      BY <1>1, <1>4 DEF ResizeSession, Fail, SizeLoads
    <2>2. /\ w \in Ready(TerminalSizes, pty_size) /\ ~w.pending_escape /\ t = w
          /\ request.size \in TerminalSizes
          /\ \A i \in 1..resizes : request.script[i] \in TerminalSizes
      BY <1>1 DEF Split
    <2>3. /\ resizes \in Nat /\ resizes + 1 <= Len(request.script)
          /\ request.script \in Seq(Range(request.script))
      BY RequestParts DEF Typed, TypeOK, ResizeSession
    <2>4. \A i \in 1..(resizes + 1) : request.script[i] \in TerminalSizes
      <3> TAKE i \in 1..(resizes + 1)
      <3>1. i \in 1..resizes \/ i = resizes + 1
        BY <2>3
      <3> QED
        BY <2>1, <2>2, <3>1
    <2>5. SizedTerminal(resizes + 1) = ResizeTerminal(w, size)
      <3> DEFINE n == resizes + 1
      <3>1. n \in Nat /\ n > 0 /\ n <= Len(request.script) /\ n - 1 = resizes
        BY <2>3
      <3> HIDE DEF n
      <3>2. \A i \in 1..n : request.script[i] \in TerminalSizes
        BY <2>4 DEF n
      <3>3. SizedTerminal(n) = ResizeTerminal(SizedTerminal(n - 1), request.script[n])
        BY <2>2, <2>3, <3>1, <3>2, SizedTerminalIs
      <3> QED
        BY <3>1, <3>3 DEF n
    <2>6. SizedTerminal(resizes)' = SizedTerminal(resizes + 1)
      BY <1>1, <2>1 DEF SizedTerminal
    <2> HIDE DEF w, size
    <2>7. /\ ResizeTerminal(w, size) \in Ready(TerminalSizes, size)
          /\ ~ResizeTerminal(w, size).pending_escape
      BY <2>1, <2>2, ResizeReady
    <2> QED
      BY <1>1, <1>2, <2>1, <2>2, <2>4, <2>5, <2>6, <2>7 DEF Split
  <1> QED
    BY <1>3, <1>4

LEMMA SplitStep == Typed /\ Sized /\ Split /\ [Next]_vars => Split'
  <1> SUFFICES ASSUME Typed, Sized, Split, [Next]_vars
               PROVE  Split'
    OBVIOUS
  <1> USE DEF StreamSame, ResultSame
  <1>1. CASE RefuseRequest
    BY <1>1, SplitSame DEF RefuseRequest
  <1>2. CASE StartRun
    BY <1>2, SplitStart
  <1>3. CASE ResizeSession
    BY <1>3, SplitResize
  <1>4. CASE ProvideInput
    BY <1>4, SplitSame DEF ProvideInput, Fail
  <1>5. ASSUME NEW chunk \in Chunks, Output(chunk)
        PROVE  Split'
    BY <1>5, SplitOutput
  <1>6. CASE Eof
    BY <1>6, SplitSame DEF Eof, Running
  <1>7. CASE Exit
    BY <1>7, SplitSame DEF Exit, Running
  <1>8. CASE Complete
    BY <1>8, SplitSame DEF Complete, Running, Fail
  <1>9. CASE Emit
    BY <1>9, SplitSame DEF Emit, Fail
  <1>10. CASE Save
    BY <1>10, SplitSame DEF Save
  <1>11. CASE UNCHANGED vars
    BY <1>11, SplitSame DEF vars
  <1>12. ASSUME NEW chunk \in Chunks, Panic(chunk)
         PROVE  Split'
    BY <1>12, SplitSame DEF Panic, Running
  <1> QED
    BY <1>1, <1>2, <1>3, <1>4, <1>5, <1>6, <1>7, <1>8, <1>9, <1>10, <1>11, <1>12 DEF Next, Done

LEMMA AlwaysSplit == Spec => [](Typed /\ Sized /\ Split)
  BY InitTyped, TypedStep, InitSplit, SplitStep, PTL DEF Spec

(* Output that comes in any chunks leaves the terminal the whole output    *)
(* leaves, unless a boundary parts two escape bytes (VteAdapter::advance). *)
THEOREM SplitAlwaysWhole == Spec => []SplitInvariant
  <1>1. Split => SplitInvariant
    BY DEF Split
  <1> QED
    BY <1>1, AlwaysSplit, PTL

-----------------------------------------------------------------------------
(* What a snapshot reports.                                                *)

SnapshotEvent == {EventOf(a) : a \in Dispatched} \cup {LimitEvent(a) : a \in Dispatched}

LEMMA EventsOfAction ==
    ASSUME NEW a \in Dispatched
    PROVE  /\ EventsOf(a) \in Seq(SnapshotEvent)
           /\ \/ Len(EventsOf(a)) <= 1
              \/ Len(EventsOf(a)) = 2 /\ EventsOf(a)[2].kind = "PayloadLimitExceeded"
  <1> DEFINE x == EventOf(a)
             y == LimitEvent(a)
  <1>1. x \in SnapshotEvent /\ y \in SnapshotEvent /\ y.kind = "PayloadLimitExceeded"
    BY DEF SnapshotEvent, LimitEvent
  <1>2. EventsOf(a) = IF a.kind \notin Reported THEN <<>>
                      ELSE IF a.payload.status = "Complete" THEN <<x>> ELSE <<x, y>>
    BY DEF EventsOf
  <1> HIDE DEF x, y
  <1>3. <<>> \in Seq(SnapshotEvent) /\ <<x>> \in Seq(SnapshotEvent) /\ <<x, y>> \in Seq(SnapshotEvent)
    BY <1>1
  <1> QED
    BY <1>1, <1>2, <1>3

(* A snapshot that reports no truncated payload reports no more events     *)
(* than the action buffer holds actions.                                   *)
LEMMA SnapshotShort ==
    ASSUME NEW actions \in Seq(Dispatched),
           \A k \in DOMAIN SnapshotEvents(actions) :
              SnapshotEvents(actions)[k].kind # "PayloadLimitExceeded"
    PROVE  Len(SnapshotEvents(actions)) <= Len(actions)
  <1> DEFINE seqs == [i \in DOMAIN actions |-> EventsOf(actions[i])]
             n == Len(actions)
  <1>1. n \in Nat /\ DOMAIN actions = 1..n /\ \A i \in 1..n : actions[i] \in Dispatched
    OBVIOUS
  <1>2. SnapshotEvents(actions) = FlattenSeq(seqs)
    BY DEF SnapshotEvents
  <1>3. \A i \in 1..n : seqs[i] = EventsOf(actions[i])
    BY <1>1
  <1>4. seqs \in Seq(Seq(SnapshotEvent)) /\ Len(seqs) = n
    <2>1. \A i \in 1..n : EventsOf(actions[i]) \in Seq(SnapshotEvent)
      BY <1>1, EventsOfAction
    <2>2. seqs = [i \in 1..n |-> EventsOf(actions[i])]
      BY <1>1
    <2> HIDE DEF seqs, n
    <2> QED
      BY <1>1, <2>1, <2>2
  <1> HIDE DEF seqs
  <1>5. ASSUME NEW i \in 1..n
        PROVE  Len(seqs[i]) <= 1
    <2> SUFFICES ASSUME ~(Len(seqs[i]) <= 1) PROVE FALSE
      OBVIOUS
    <2>1. seqs[i] = EventsOf(actions[i]) /\ actions[i] \in Dispatched
      BY <1>1, <1>3
    <2>2. Len(seqs[i]) = 2 /\ seqs[i][2].kind = "PayloadLimitExceeded"
      BY <2>1, EventsOfAction
    <2>3. 2 \in 1..Len(seqs[i]) /\ i \in 1..Len(seqs)
      BY <1>4, <2>2
    <2>4. \E k \in DOMAIN FlattenSeq(seqs) : FlattenSeq(seqs)[k] = seqs[i][2]
      BY <1>4, <2>3, FlattenHolds
    <2> QED
      BY <1>2, <2>2, <2>4
  <1>6. Len(FlattenSeq(seqs)) <= Len(seqs)
    BY <1>4, <1>5, FlattenShort
  <1> QED
    BY <1>2, <1>4, <1>6

-----------------------------------------------------------------------------
(* Replaying a recording.                                                  *)

Loadable ==
    {e \in Events : /\ e.kind = "Output" => e.bytes # <<>>
                    /\ e.kind = "Resize" => e.what \in TerminalSizes}
Opened == {w \in Terminals(TerminalSizes) : \E size \in TerminalSizes : w \in Ready(TerminalSizes, size)}

Replayed(w, events) == FoldLeft(ReplayEvent, w, events)
ReplayOp == [p \in Opened \X Loadable |-> ReplayEvent(p[1], p[2])]

LEMMA ReplayOpType ==
    /\ ReplayOp \in [Opened \X Loadable -> Opened]
    /\ \A w \in Opened, e \in Loadable : ReplayOp[<<w, e>>] = ReplayEvent(w, e)
  <1>1. ASSUME NEW w \in Opened, NEW e \in Loadable
        PROVE  ReplayEvent(w, e) \in Opened
    <2>1. PICK size \in TerminalSizes : w \in Ready(TerminalSizes, size)
      BY DEF Opened
    <2>2. CASE e.kind = "Output"
      <3>1. e.bytes \in Seq(Byte)
        BY DEF Loadable, Events
      <3>2. Advance(w, e.bytes) \in Ready(TerminalSizes, size)
        BY <2>1, <3>1, AdvanceScans
      <3> QED
        BY <2>2, <3>2 DEF ReplayEvent, Opened, Ready
    <2>3. CASE e.kind = "Resize"
      <3>1. e.what \in TerminalSizes
        BY <2>3 DEF Loadable
      <3>2. ResizeTerminal(w, e.what) \in Ready(TerminalSizes, e.what)
        BY <2>1, <3>1, ResizeReady
      <3> QED
        BY <2>3, <3>1, <3>2 DEF ReplayEvent, Opened, Ready
    <2>4. CASE e.kind # "Output" /\ e.kind # "Resize"
      BY <2>4 DEF ReplayEvent
    <2> QED
      BY <2>2, <2>3, <2>4
  <1> QED
    BY <1>1 DEF ReplayOp

LEMMA ReplayFold ==
    ASSUME NEW w \in Opened, NEW events \in Seq(Loadable)
    PROVE  FoldsTo(Opened, Loadable, ReplayOp, w, events, Replayed(w, events))
  <1> DEFINE F(g) == [r \in SUBSET (DOMAIN events) |->
                        IF r = {} THEN w ELSE ReplayEvent(g[r \ {Max(r)}], events[Max(r)])]
             it == CHOOSE g : g = F(g)
  <1>1. /\ ReplayOp \in [Opened \X Loadable -> Opened]
        /\ \A a \in Opened, e \in Loadable : ReplayOp[<<a, e>>] = ReplayEvent(a, e)
    BY ReplayOpType
  <1>2. Replayed(w, events) = it[DOMAIN events]
    BY DEF Replayed, FoldLeft, MapThenFoldSet
  <1>3. Foldable(Opened, Loadable, ReplayOp, w, events)
    BY <1>1 DEF Foldable
  <1>4. PICK g : IterationOnA(g, Opened, Loadable, ReplayOp, w, events)
    BY <1>3, IterationOnAExists
  <1>5. g = F(g)
    BY <1>1, <1>4 DEF IterationOnA
  <1>6. it = F(it)
    BY <1>5
  <1> HIDE DEF it
  <1>7. Folds(it, Opened, Loadable, ReplayOp, w, events)
    BY <1>1, <1>3, <1>4, <1>6 DEF Folds, IterationOnA
  <1>8. FoldsTo(Opened, Loadable, ReplayOp, w, events, it[DOMAIN events])
    BY <1>7, FoldsToResult
  <1> QED
    BY <1>2, <1>8

LEMMA ReplayedParts ==
    ASSUME NEW w \in Opened
    PROVE  /\ Replayed(w, <<>>) = w
           /\ \A events \in Seq(Loadable), e \in Loadable :
                 Replayed(w, Append(events, e)) = ReplayEvent(Replayed(w, events), e)
  <1> DEFINE To(events, u) == FoldsTo(Opened, Loadable, ReplayOp, w, events, u)
  <1>1. /\ ReplayOp \in [Opened \X Loadable -> Opened]
        /\ \A a \in Opened, e \in Loadable : ReplayOp[<<a, e>>] = ReplayEvent(a, e)
    BY ReplayOpType
  <1>2. \A events \in Seq(Loadable) : To(events, Replayed(w, events))
    BY ReplayFold
  <1>3. \A events, p, q : To(events, p) /\ To(events, q) => p = q
    BY FoldUnique
  <1>4. To(<<>>, w)
    BY <1>1, FoldOfEmpty
  <1>5. \A events, p : To(events, p) => p \in Opened
    BY FoldResult
  <1>6. \A events, p : \A e \in Loadable : To(events, p) => To(Append(events, e), ReplayOp[<<p, e>>])
    BY FoldOfAppend
  <1> HIDE DEF To
  <1>7. Replayed(w, <<>>) = w
    <2>1. <<>> \in Seq(Loadable)
      OBVIOUS
    <2> QED
      BY <1>2, <1>3, <1>4, <2>1
  <1>8. ASSUME NEW events \in Seq(Loadable), NEW e \in Loadable
        PROVE  Replayed(w, Append(events, e)) = ReplayEvent(Replayed(w, events), e)
    <2>1. Append(events, e) \in Seq(Loadable)
      OBVIOUS
    <2>2. To(Append(events, e), ReplayOp[<<Replayed(w, events), e>>])
      BY <1>2, <1>6
    <2>3. To(Append(events, e), Replayed(w, Append(events, e)))
      BY <1>2, <2>1
    <2>4. Replayed(w, events) \in Opened
      BY <1>2, <1>5
    <2> QED
      BY <1>1, <1>3, <2>2, <2>3, <2>4
  <1> QED
    BY <1>7, <1>8

-----------------------------------------------------------------------------
(* The output a recording holds.                                           *)

LEMMA LoadableEvents ==
    /\ \A size \in TerminalSizes : Event("Resize", size) \in Loadable
    /\ Event("Input", "file") \in Loadable /\ Event("Input", "response") \in Loadable
    /\ Event("Eof", "none") \in Loadable /\ Event("Exit", "none") \in Loadable
    /\ \A bytes \in Seq(Byte) : bytes # <<>> => BytesEvent("Output", bytes) \in Loadable
  <1>1. \A bytes \in Seq(Byte) : bytes # <<>> => BytesEvent("Output", bytes) \in Loadable
    BY EventTypes DEF Loadable, BytesEvent
  <1>2. \A size \in TerminalSizes : Event("Resize", size) \in Loadable
    BY EventTypes DEF Loadable, Event
  <1>3. /\ Event("Input", "file") \in Loadable /\ Event("Input", "response") \in Loadable
        /\ Event("Eof", "none") \in Loadable /\ Event("Exit", "none") \in Loadable
    BY EventTypes DEF Loadable, Event
  <1> QED
    BY <1>1, <1>2, <1>3

Shown(e) == IF e.kind = "Output" THEN e.bytes ELSE <<>>

LEMMA OutputOfMore ==
    ASSUME NEW events \in Seq(Loadable), NEW e \in Loadable
    PROVE  /\ OutputOf(<<>>) = <<>>
           /\ OutputOf(events) \in Seq(Byte)
           /\ OutputOf(Append(events, e)) = OutputOf(events) \o Shown(e)
           /\ Shown(e) \in Seq(Byte)
  <1> DEFINE Of(s) == [i \in DOMAIN s |-> Shown(s[i])]
             more == Append(events, e)
             n == Len(events)
  <1>1. \A s : OutputOf(s) = FlattenSeq(Of(s))
    BY DEF OutputOf, Shown
  <1>2. \A x \in Loadable : Shown(x) \in Seq(Byte)
    <2> TAKE x \in Loadable
    <2>1. x.bytes \in Seq(Byte) /\ <<>> \in Seq(Byte)
      BY DEF Loadable, Events
    <2> QED
      BY <2>1 DEF Shown
  <1>3. /\ n \in Nat /\ DOMAIN events = 1..n /\ DOMAIN more = 1..(n + 1) /\ more[n + 1] = e
        /\ \A i \in 1..n : more[i] = events[i] /\ events[i] \in Loadable
    OBVIOUS
  <1>4. Of(events) = [i \in 1..n |-> Shown(events[i])]
    BY <1>3
  <1>5. \A i \in 1..n : Shown(events[i]) \in Seq(Byte)
    BY <1>2, <1>3
  <1>6. Of(events) \in Seq(Seq(Byte)) /\ Len(Of(events)) = n
    BY <1>3, <1>4, <1>5
  <1>7. Of(more) = Append(Of(events), Shown(e))
    <2>1. Of(more) = [i \in 1..(n + 1) |-> Shown(more[i])]
      BY <1>3
    <2>2. \A i \in 1..(n + 1) : Shown(more[i]) = IF i = n + 1 THEN Shown(e) ELSE Shown(events[i])
      BY <1>3
    <2> DEFINE own == Of(events)
               x == Shown(e)
    <2>3. \A i \in 1..n : own[i] = Shown(events[i])
      BY <1>3
    <2>3a. own \in Seq(Seq(Byte)) /\ Len(own) = n /\ x \in Seq(Byte)
      BY <1>2, <1>6
    <2> HIDE DEF own, x, Of, more, n
    <2>4. Append(own, x) = [i \in 1..(n + 1) |-> IF i = n + 1 THEN x ELSE own[i]]
      <3> DEFINE m == Append(own, x)
      <3>1. m \in Seq(Seq(Byte)) /\ Len(m) = n + 1
            /\ \A i \in 1..(n + 1) : m[i] = IF i = n + 1 THEN x ELSE own[i]
        BY <1>3, <2>3a, AppendProperties
      <3> HIDE DEF m
      <3>2. m = [i \in 1..(n + 1) |-> m[i]]
        BY <3>1
      <3>3. m = [i \in 1..(n + 1) |-> IF i = n + 1 THEN x ELSE own[i]]
        BY <3>1, <3>2
      <3> QED
        BY <3>3 DEF m
    <2>5. \A i \in 1..(n + 1) : Shown(more[i]) = IF i = n + 1 THEN x ELSE own[i]
      BY <1>3, <2>2, <2>3 DEF x
    <2> QED
      BY <2>1, <2>4, <2>5 DEF own, x
  <1>8. Of(<<>>) = <<>> /\ <<>> \in Seq(Seq(Byte))
    OBVIOUS
  <1> HIDE DEF Of
  <1>9. FlattenSeq(<<>>) = <<>>
    BY FlattenType, <1>8
  <1> QED
    BY <1>1, <1>2, <1>6, <1>7, <1>8, <1>9, FlattenType, FlattenAppend

(* A recording whose events load and whose output is counted.              *)
Whole(r) ==
    /\ r \in SessionRecordings /\ r.events \in Seq(Loadable)
    /\ r.output_bytes = Len(OutputOf(r.events))

LEMMA PushWhole ==
    ASSUME NEW r, Whole(r), NEW e \in Loadable, e.kind # "Output", NEW q, q = Push(r, e)
    PROVE  /\ Whole(q) /\ OutputOf(q.events) = OutputOf(r.events)
           /\ q.enabled = r.enabled /\ q.truncated = r.truncated
           /\ r.enabled => q.events = Append(r.events, e)
           /\ ~r.enabled => q = r
  <1>1. r \in SessionRecordings /\ e \in Events /\ r.events \in Seq(Loadable)
    BY DEF Whole, Loadable
  <1>2. /\ q \in SessionRecordings /\ q.enabled = r.enabled /\ q.truncated = r.truncated
        /\ q.output_bytes = r.output_bytes
        /\ r.enabled => q.events = Append(r.events, e)
        /\ ~r.enabled => q = r
    BY <1>1, PushEffect
  <1>3. CASE r.enabled
    <2> DEFINE f == OutputOf(r.events)
               more == Append(r.events, e)
    <2>1. OutputOf(more) = f \o <<>> /\ f \in Seq(Byte) /\ more \in Seq(Loadable)
      BY <1>1, OutputOfMore DEF Shown
    <2>1a. q.events = more
      BY <1>2, <1>3
    <2> HIDE DEF f, more
    <2>1b. f \o <<>> = f
      BY <2>1
    <2>2. OutputOf(q.events) = OutputOf(r.events) /\ q.events \in Seq(Loadable)
      BY <2>1, <2>1a, <2>1b DEF f
    <2> QED
      BY <1>2, <1>3, <2>2 DEF Whole
  <1>4. CASE ~r.enabled
    BY <1>2, <1>4
  <1> QED
    BY <1>3, <1>4

LEMMA PushOutputWhole ==
    ASSUME NEW r, Whole(r), NEW bytes \in Seq(Byte), bytes # <<>>,
           NEW q, q = PushOutput(r, bytes)
    PROVE  /\ Whole(q) /\ q.enabled = r.enabled
           /\ ~r.enabled \/ r.truncated => q = r
           /\ r.enabled /\ ~r.truncated =>
                \E k \in 0..Len(bytes) :
                   /\ Keeps(r, bytes, q, k)
                   /\ OutputOf(q.events) = OutputOf(r.events) \o SubSeq(bytes, 1, k)
  <1>1. r \in SessionRecordings /\ r.events \in Seq(Loadable) /\ r.output_bytes = Len(OutputOf(r.events))
    BY DEF Whole
  <1>2. /\ q \in SessionRecordings /\ q.enabled = r.enabled
        /\ ~r.enabled \/ r.truncated => q = r
    BY <1>1, PushOutputEffect
  <1>3. CASE r.enabled /\ ~r.truncated
    <2>1. PICK k \in 0..Len(bytes) : Keeps(r, bytes, q, k)
      BY <1>1, <1>3, PushOutputEffect
    <2> DEFINE front == SubSeq(bytes, 1, k)
               e == BytesEvent("Output", front)
               f == OutputOf(r.events)
    <2>2. front \in Seq(Byte) /\ Len(front) = k /\ (k = 0 => front = <<>>) /\ (k # 0 => front # <<>>)
      OBVIOUS
    <2>3. f \in Seq(Byte) /\ (k # 0 => e \in Loadable /\ OutputOf(Append(r.events, e)) = f \o front)
      <3>1. k # 0 => e \in Loadable
        BY <2>2, LoadableEvents
      <3>2. Shown(e) = front
        BY DEF Shown, BytesEvent
      <3>3. Event("Eof", "none") \in Loadable
        BY LoadableEvents
      <3> HIDE DEF e, front, f
      <3>4. f \in Seq(Byte)
        BY <1>1, <3>3, OutputOfMore DEF f
      <3> QED
        BY <1>1, <3>1, <3>2, <3>4, OutputOfMore DEF f
    <2>4. /\ q.events = IF k = 0 THEN r.events ELSE Append(r.events, e)
          /\ q.output_bytes = r.output_bytes + k
      BY <2>1 DEF Keeps
    <2> HIDE DEF front, e, f
    <2>5. OutputOf(q.events) = f \o front /\ q.events \in Seq(Loadable)
      <3>1. CASE k = 0
        <4>1. f \o front = f /\ q.events = r.events
          BY <2>2, <2>3, <2>4, <3>1
        <4> QED
          BY <1>1, <4>1 DEF f
      <3>2. CASE k # 0
        BY <1>1, <2>3, <2>4, <3>2
      <3> QED
        BY <3>1, <3>2
    <2>5a. f \in Seq(Byte) /\ front \in Seq(Byte) /\ Len(front) = k
      BY <2>2, <2>3
    <2>6. Len(f \o front) = Len(f) + k
      BY <2>5a
    <2>7. Whole(q)
      BY <1>1, <1>2, <2>4, <2>5, <2>6 DEF Whole, f
    <2> QED
      BY <1>2, <1>3, <2>1, <2>5, <2>7 DEF front, f
  <1>4. CASE ~r.enabled \/ r.truncated
    BY <1>2, <1>4
  <1>5. r.enabled \in BOOLEAN /\ r.truncated \in BOOLEAN
    BY <1>1, RecordingParts
  <1> QED
    BY <1>3, <1>4, <1>5

-----------------------------------------------------------------------------
(* What is saved loads and replays.                                        *)

HasExit(events) == \E i \in DOMAIN events : events[i].kind = "Exit"
Started == phase \notin {"start", "done"}

(* A recording that is whole so far replays to the terminal.               *)
Replays == recording.enabled /\ ~recording.truncated /\ Started =>
             Replayed(OpenTerminal(request.size), recording.events) = t

Kept ==
    /\ Whole(recording)
    /\ phase = "start" => recording.events = <<>>
    /\ recording.enabled /\ exit # NotYet => HasExit(recording.events)
    /\ phase \in {"emit", "save"} => exit # NotYet
    /\ phase \in {"running", "emit", "save"} => resizes = Len(request.script)
    /\ Replays
    /\ SavedReplays

LEMMA OpenedSize ==
    ASSUME NEW size \in TerminalSizes
    PROVE  OpenTerminal(size) \in Opened
  BY OpenReady DEF Opened, Ready

LEMMA InitKept == Init => Kept
  <1> SUFFICES ASSUME Init PROVE Kept
    OBVIOUS
  <1>1. recording \in SessionRecordings
    BY InitTyped DEF Typed
  <1>2. recording.events = <<>> /\ recording.output_bytes = 0
    BY DEF Init, NewRecording
  <1>3. <<>> \in Seq(Loadable) /\ OutputOf(<<>>) = <<>>
    <2>1. <<>> \in Seq(Loadable)
      OBVIOUS
    <2>2. Event("Eof", "none") \in Loadable
      BY LoadableEvents
    <2> QED
      BY <2>1, <2>2, OutputOfMore
  <1>4. Whole(recording)
    BY <1>1, <1>2, <1>3 DEF Whole
  <1> QED
    BY <1>2, <1>4 DEF Init, Kept, Replays, Started, SavedReplays

(* An event that is no output is pushed.                                   *)
LEMMA KeptPush ==
    ASSUME Kept, NEW e \in Loadable, e.kind # "Output", recording' = Push(recording, e)
    PROVE  /\ Whole(recording')
           /\ recording'.enabled = recording.enabled /\ recording'.truncated = recording.truncated
           /\ recording.enabled /\ HasExit(recording.events) => HasExit(recording'.events)
           /\ recording.enabled /\ e.kind = "Exit" => HasExit(recording'.events)
           /\ \A w \in Opened : recording.enabled =>
                 Replayed(w, recording'.events) = ReplayEvent(Replayed(w, recording.events), e)
  <1> DEFINE r == recording
             q == recording'
  <1>1. Whole(r) /\ r.events \in Seq(Loadable)
    BY DEF Kept, Whole
  <1>2. /\ Whole(q) /\ q.enabled = r.enabled /\ q.truncated = r.truncated
        /\ r.enabled => q.events = Append(r.events, e)
    BY <1>1, PushWhole
  <1> HIDE DEF r, q
  <1>3. ASSUME r.enabled
        PROVE  /\ HasExit(r.events) => HasExit(q.events)
               /\ e.kind = "Exit" => HasExit(q.events)
    <2> DEFINE events == r.events
               more == Append(events, e)
    <2>1. events \in Seq(Loadable) /\ q.events = more
      BY <1>1, <1>2, <1>3
    <2> HIDE DEF events
    <2>2. /\ DOMAIN events \subseteq DOMAIN more /\ Len(events) + 1 \in DOMAIN more
          /\ more[Len(events) + 1] = e
          /\ \A i \in DOMAIN events : more[i] = events[i]
      BY <2>1
    <2> HIDE DEF more
    <2>3. /\ HasExit(events) => HasExit(more)
          /\ e.kind = "Exit" => HasExit(more)
      BY <2>2 DEF HasExit
    <2> QED
      BY <2>1, <2>3 DEF events
  <1>4. ASSUME NEW w \in Opened, r.enabled
        PROVE  Replayed(w, q.events) = ReplayEvent(Replayed(w, r.events), e)
    BY <1>1, <1>2, <1>4, ReplayedParts
  <1> QED
    BY <1>2, <1>3, <1>4 DEF r, q

(* A step that neither records nor saves.                                  *)
LEMMA KeptSame ==
    ASSUME Kept, UNCHANGED <<request, resizes, t, recording, exit, saved>>,
           phase = "start" => phase' \in {"start", "done"},
           phase = "done" => phase' = "done",
           phase' = "start" => phase = "start",
           phase' \in {"emit", "save"} => exit # NotYet,
           phase' \in {"running", "emit", "save"} => resizes = Len(request.script)
    PROVE  Kept'
  <1>1. Started' => Started
    BY DEF Started
  <1>2. Replays'
    BY <1>1 DEF Kept, Replays
  <1>3. SavedReplays'
    BY DEF Kept, SavedReplays
  <1> QED
    BY <1>2, <1>3 DEF Kept

LEMMA KeptStart ==
    ASSUME Typed, Kept, StartRun
    PROVE  Kept'
  <1> USE DEF StreamSame, ResultSame
  <1>1. UNCHANGED <<request, resizes, recording, exit, saved>> /\ phase = "start"
        /\ recording.events = <<>>
    BY DEF StartRun, Kept
  <1>2. SavedReplays'
    BY <1>1 DEF Kept, SavedReplays
  <1>3. Replays'
    <2>1. CASE phase' = "done"
      BY <2>1 DEF Replays, Started
    <2>2. CASE phase' # "done"
      <3>1. request.size \in TerminalSizes /\ t' = OpenTerminal(request.size)
        BY <2>2 DEF StartRun, Fail, SizeLoads
      <3>2. Replayed(OpenTerminal(request.size), <<>>) = OpenTerminal(request.size)
        BY <3>1, OpenedSize, ReplayedParts
      <3> QED
        BY <1>1, <3>1, <3>2 DEF Replays
    <2> QED
      BY <2>1, <2>2
  <1>4. phase' \in {"setup", "done"}
    BY DEF StartRun, Fail
  <1> QED
    BY <1>1, <1>2, <1>3, <1>4 DEF Kept

LEMMA KeptResize ==
    ASSUME Typed, Split, Kept, ResizeSession
    PROVE  Kept'
  <1> DEFINE size == request.script[resizes + 1]
             e == Event("Resize", size)
             w == OpenTerminal(request.size)
  <1> USE DEF StreamSame, ResultSame
  <1>1. UNCHANGED <<request, exit, saved>> /\ phase = "setup" /\ phase' \in {"setup", "done"}
    BY DEF ResizeSession, Fail
  <1>2. SavedReplays'
    BY <1>1 DEF Kept, SavedReplays
  <1>3. CASE phase' = "done"
    <2>1. recording' = recording
      BY <1>1, <1>3 DEF ResizeSession, Fail
    <2>2. Replays'
      BY <1>3 DEF Replays, Started
    <2> QED
      BY <1>1, <1>2, <1>3, <2>1, <2>2 DEF Kept
  <1>4. CASE phase' # "done"
    <2>1. size \in TerminalSizes /\ t' = ResizeTerminal(t, size) /\ recording' = Push(recording, e)
      BY <1>1, <1>4 DEF ResizeSession, Fail, SizeLoads
    <2>2. w \in Opened
      BY <1>1, OpenedSize DEF Split, Begun
    <2>3. e \in Loadable /\ e.kind = "Resize" /\ e.what = size
      BY <2>1, LoadableEvents DEF Event
    <2> HIDE DEF e, size, w
    <2>4. /\ Whole(recording')
          /\ recording'.enabled = recording.enabled /\ recording'.truncated = recording.truncated
          /\ recording.enabled /\ HasExit(recording.events) => HasExit(recording'.events)
          /\ recording.enabled =>
                Replayed(w, recording'.events) = ReplayEvent(Replayed(w, recording.events), e)
      BY <2>1, <2>2, <2>3, KeptPush
    <2>5. ReplayEvent(t, e) = ResizeTerminal(t, size)
      BY <2>3 DEF ReplayEvent
    <2>6. Replays'
      BY <1>1, <2>1, <2>4, <2>5 DEF Kept, Replays, Started, w
    <2> QED
      BY <1>1, <1>2, <1>4, <2>4, <2>6 DEF Kept
  <1> QED
    BY <1>3, <1>4

(* A step that pushes an event which replays to nothing.                   *)
LEMMA KeptEvent ==
    ASSUME Typed, Split, Kept, NEW e \in Loadable, e.kind \in {"Input", "Eof", "Exit"},
           recording' = Push(recording, e), UNCHANGED <<request, resizes, t, saved>>,
           phase \notin {"start", "done"}, phase' \in {"running", "done"},
           exit' = exit \/ e.kind = "Exit", phase' = "running" => resizes = Len(request.script)
    PROVE  Kept'
  <1> DEFINE w == OpenTerminal(request.size)
  <1>1. e.kind # "Output" /\ w \in Opened /\ w' = w
    <2>1. request.size \in TerminalSizes
      BY DEF Split, Begun
    <2> QED
      BY <2>1, OpenedSize
  <1>2. ReplayEvent(t, e) = t
    BY DEF ReplayEvent
  <1> HIDE DEF w
  <1>3. /\ Whole(recording')
        /\ recording'.enabled = recording.enabled /\ recording'.truncated = recording.truncated
        /\ recording.enabled /\ HasExit(recording.events) => HasExit(recording'.events)
        /\ recording.enabled /\ e.kind = "Exit" => HasExit(recording'.events)
        /\ recording.enabled =>
              Replayed(w, recording'.events) = ReplayEvent(Replayed(w, recording.events), e)
    BY <1>1, KeptPush
  <1>4. Replays'
    BY <1>2, <1>3 DEF Kept, Replays, Started, w
  <1>5. recording'.enabled /\ exit' # NotYet => HasExit(recording'.events)
    BY <1>3 DEF Kept
  <1>6. SavedReplays'
    BY DEF Kept, SavedReplays
  <1> QED
    BY <1>3, <1>4, <1>5, <1>6 DEF Kept

LEMMA HasExitMore ==
    ASSUME NEW events \in Seq(Loadable), NEW e \in Loadable, HasExit(events)
    PROVE  HasExit(Append(events, e))
  <1>1. PICK i \in DOMAIN events : events[i].kind = "Exit"
    BY DEF HasExit
  <1>2. i \in DOMAIN Append(events, e) /\ Append(events, e)[i] = events[i]
    OBVIOUS
  <1> QED
    BY <1>1, <1>2 DEF HasExit

(* What recording a chunk does to a whole recording.                       *)
LEMMA ChunkWhole ==
    ASSUME Whole(recording), NEW chunk \in Chunks, NEW answered \in BOOLEAN,
           NEW q, q = RecordChunk(chunk, answered), NEW w \in Opened
    PROVE  /\ Whole(q) /\ q.enabled = recording.enabled
           /\ HasExit(recording.events) => HasExit(q.events)
           /\ q.enabled /\ ~q.truncated =>
                /\ ~recording.truncated
                /\ Replayed(w, q.events) = Advance(Replayed(w, recording.events), chunk)
  <1> DEFINE r == recording
             p == PushOutput(r, chunk)
             a == Event("Input", "response")
  <1>0. chunk \in Seq(Byte) /\ chunk # <<>> /\ r.events \in Seq(Loadable)
        /\ r.enabled \in BOOLEAN /\ r.truncated \in BOOLEAN
    BY ChunkIsBytes, RecordingParts DEF Whole
  <1>1. a \in Loadable /\ a.kind = "Input"
    BY LoadableEvents DEF Event
  <1>2. q = IF answered THEN Push(p, a) ELSE p
    BY DEF RecordChunk
  <1>3. /\ Whole(p) /\ p.enabled = r.enabled
        /\ ~r.enabled \/ r.truncated => p = r
        /\ r.enabled /\ ~r.truncated => \E k \in 0..Len(chunk) : Keeps(r, chunk, p, k)
    BY <1>0, PushOutputWhole
  <1>4. Whole(r)
    OBVIOUS
  <1> HIDE DEF r, p, a
  <1>5. /\ HasExit(r.events) => HasExit(p.events)
        /\ p.enabled /\ ~p.truncated =>
             /\ ~r.truncated
             /\ Replayed(w, p.events) = Advance(Replayed(w, r.events), chunk)
    <2>1. CASE ~r.enabled \/ r.truncated
      BY <1>3, <2>1
    <2>2. CASE r.enabled /\ ~r.truncated
      <3>1. PICK k \in 0..Len(chunk) : Keeps(r, chunk, p, k)
        BY <1>3, <2>2
      <3> DEFINE front == SubSeq(chunk, 1, k)
                 e == BytesEvent("Output", front)
      <3>2. front \in Seq(Byte) /\ (k # 0 => front # <<>>) /\ (k = Len(chunk) => front = chunk)
            /\ (k = Len(chunk) => k # 0)
        BY <1>0
      <3>3. /\ p.truncated <=> k < Len(chunk)
            /\ p.events = IF k = 0 THEN r.events ELSE Append(r.events, e)
        BY <3>1 DEF Keeps
      <3>4. k # 0 => e \in Loadable
        BY <3>2, LoadableEvents
      <3>5. ReplayEvent(Replayed(w, r.events), e) = Advance(Replayed(w, r.events), front)
        BY DEF ReplayEvent, BytesEvent
      <3> HIDE DEF front, e
      <3>6. HasExit(r.events) => HasExit(p.events)
        BY <1>0, <3>3, <3>4, HasExitMore
      <3>7. ASSUME ~p.truncated
            PROVE  Replayed(w, p.events) = Advance(Replayed(w, r.events), chunk)
        <4>1. k = Len(chunk)
          BY <3>3, <3>7
        <4>2. p.events = Append(r.events, e) /\ e \in Loadable /\ front = chunk
          BY <3>2, <3>3, <3>4, <4>1
        <4>3. Replayed(w, Append(r.events, e)) = ReplayEvent(Replayed(w, r.events), e)
          BY <1>0, <4>2, ReplayedParts
        <4> QED
          BY <3>5, <4>2, <4>3
      <3> QED
        BY <2>2, <3>6, <3>7
    <2> QED
      BY <1>0, <2>1, <2>2
  <1>6. CASE ~answered
    BY <1>2, <1>3, <1>5, <1>6 DEF r
  <1>7. CASE answered
    <2>1. /\ Whole(q) /\ q.enabled = p.enabled /\ q.truncated = p.truncated
          /\ p.enabled => q.events = Append(p.events, a)
          /\ ~p.enabled => q = p
      BY <1>1, <1>2, <1>3, <1>7, PushWhole
    <2>2. p.events \in Seq(Loadable) /\ p.enabled \in BOOLEAN
      BY <1>0, <1>3 DEF Whole
    <2>3. HasExit(p.events) => HasExit(q.events)
      BY <1>1, <2>1, <2>2, HasExitMore
    <2>4. ASSUME p.enabled
          PROVE  Replayed(w, q.events) = Replayed(w, p.events)
      <3>1. q.events = Append(p.events, a)
        BY <2>1, <2>4
      <3>2. Replayed(w, Append(p.events, a)) = ReplayEvent(Replayed(w, p.events), a)
        BY <1>1, <2>2, ReplayedParts
      <3> QED
        BY <1>1, <3>1, <3>2 DEF ReplayEvent
    <2> QED
      BY <1>3, <1>5, <2>1, <2>3, <2>4 DEF r
  <1> QED
    BY <1>6, <1>7

LEMMA KeptOutput ==
    ASSUME Typed, Split, Kept, NEW chunk \in Chunks, Output(chunk)
    PROVE  Kept'
  <1> DEFINE w == OpenTerminal(request.size)
             answered == Completes(tail \o chunk)
  <1>1. /\ UNCHANGED <<request, resizes, exit, saved>> /\ t' = Advance(t, chunk)
        /\ phase = "running" /\ phase' \in {"running", "done"}
        /\ recording' = RecordChunk(chunk, answered)
    BY DEF Output, Running, Fail, ResultSame
  <1>2. w \in Opened
    <2>1. request.size \in TerminalSizes
      BY <1>1 DEF Split, Begun
    <2> QED
      BY <2>1, OpenedSize
  <1>3. answered \in BOOLEAN /\ Whole(recording)
    BY DEF Completes, Kept
  <1> HIDE DEF w, answered
  <1>4. /\ Whole(recording') /\ recording'.enabled = recording.enabled
        /\ HasExit(recording.events) => HasExit(recording'.events)
        /\ recording'.enabled /\ ~recording'.truncated =>
             /\ ~recording.truncated
             /\ Replayed(w, recording'.events) = Advance(Replayed(w, recording.events), chunk)
    BY <1>1, <1>2, <1>3, ChunkWhole
  <1>5. Replays'
    BY <1>1, <1>4 DEF Kept, Replays, Started, w
  <1>6. SavedReplays'
    BY <1>1 DEF Kept, SavedReplays
  <1> QED
    BY <1>1, <1>4, <1>5, <1>6 DEF Kept

(* What write_recording saves.                                             *)
LEMMA KeptSave ==
    ASSUME Typed, Sized, Split, Kept, Save
    PROVE  Kept'
  <1> DEFINE r == recording
             w == OpenTerminal(request.size)
             told == SnapshotEvents(t.actions)
             Cut(a) == \E i \in DOMAIN a.final_snapshot.events :
                          a.final_snapshot.events[i].kind = "PayloadLimitExceeded"
             Good(a) == /\ /\ WithinLimits(a) /\ ~Cut(a) /\ ~Stale(a.final_snapshot.state)
                           => Loads(a)
                        /\ ~a.recording.truncated => ~Differ(a.final_snapshot, Replay(a))
  <1>1. phase = "save" /\ phase' = "done" /\ UNCHANGED <<request, resizes, t, recording, exit>>
    BY DEF Save, StreamSame
  <1>2. /\ request.size \in TerminalSizes
        /\ \A i \in 1..Len(request.script) : request.script[i] \in TerminalSizes
        /\ DOMAIN request.script = 1..Len(request.script)
    BY <1>1, RequestParts DEF Split, Begun, Kept, Typed, TypeOK
  <1>3. t.actions \in Seq(Dispatched) /\ Len(t.actions) <= ActionLimit
    BY <1>1, TerminalParts DEF Sized, Ready, Open, Accounted
  <1>4. ASSUME request.record, NEW oversized \in BOOLEAN, NEW artifact,
               artifact = Artifact(oversized)
        PROVE  Good(artifact)
    <2>1. /\ artifact.size = request.size /\ artifact.script = request.script
          /\ artifact.recording = r /\ artifact.final_snapshot = Snapshot(t)
          /\ Snapshot(t).events = told
      BY <1>4 DEF Artifact, Snapshot
    <2>2. r.enabled
      BY <1>4 DEF Typed, TypeOK
    <2>3. ASSUME WithinLimits(artifact), ~Cut(artifact), ~Stale(artifact.final_snapshot.state)
          PROVE  Loads(artifact)
      <3>1. Len(told) <= MaxSnapshotEvents
        <4>1. \A k \in DOMAIN told : told[k].kind # "PayloadLimitExceeded"
          BY <2>1, <2>3
        <4>2. Len(told) <= Len(t.actions)
          BY <1>3, <4>1, SnapshotShort
        <4>3. told \in Seq(SnapshotEvent)
          <5> DEFINE own == [i \in DOMAIN t.actions |-> EventsOf(t.actions[i])]
          <5>1. own \in Seq(Seq(SnapshotEvent))
            <6> DEFINE actions == t.actions
            <6>1. actions \in Seq(Dispatched)
              BY <1>3
            <6> HIDE DEF actions
            <6>2. \A i \in 1..Len(actions) : EventsOf(actions[i]) \in Seq(SnapshotEvent)
              BY <6>1, EventsOfAction
            <6>3. [i \in 1..Len(actions) |-> EventsOf(actions[i])] \in Seq(Seq(SnapshotEvent))
              BY <6>1, <6>2
            <6>4. DOMAIN actions = 1..Len(actions)
              BY <6>1
            <6> QED
              BY <6>3, <6>4 DEF actions
          <5>2. told = FlattenSeq(own)
            BY DEF SnapshotEvents
          <5> HIDE DEF own
          <5> QED
            BY <5>1, <5>2, FlattenType
        <4> HIDE DEF told
        <4>4. MaxSnapshotEvents = ActionLimit /\ ActionLimit \in Nat
          BY RunAssumption, ParserAssumption
        <4>5. Len(told) \in Nat /\ Len(t.actions) \in Nat
          BY <1>3, <4>3
        <4> QED
          BY <1>3, <4>2, <4>4, <4>5
      <3>2. /\ r.events \in Seq(Loadable) /\ r.output_bytes = Len(OutputOf(r.events))
            /\ r.output_bytes \in 0..OutputBudget
        BY RecordingParts DEF Kept, Whole
      <3>3. \A i \in DOMAIN r.events :
              /\ r.events[i].kind = "Output" => r.events[i].bytes # <<>>
              /\ r.events[i].kind = "Resize" => SizeLoads(r.events[i].what)
        <4> DEFINE events == r.events
        <4>1. events \in Seq(Loadable)
          BY <3>2
        <4> HIDE DEF events
        <4>2. \A i \in DOMAIN events : events[i] \in Loadable
          BY <4>1
        <4> QED
          BY <4>2 DEF events, Loadable, SizeLoads
      <3>4. \E i \in DOMAIN r.events : r.events[i].kind = "Exit"
        BY <1>1, <2>2 DEF Kept, HasExit
      <3>5. SnapshotLoads(artifact.final_snapshot)
        BY <2>1, <2>3, <3>1 DEF SnapshotLoads
      <3>6. Len(OutputOf(r.events)) <= OutputBudget
        BY <3>2, RunAssumption
      <3>7. SizeLoads(artifact.size)
            /\ \A i \in DOMAIN artifact.script : SizeLoads(artifact.script[i])
        BY <1>2, <2>1 DEF SizeLoads
      <3>8. ~artifact.oversized /\ Len(r.events) <= MaxEvents
        BY <2>1, <2>3 DEF WithinLimits
      <3> HIDE DEF r, Cut
      <3> QED
        BY <2>1, <3>2, <3>3, <3>4, <3>5, <3>6, <3>7, <3>8 DEF Loads
    <2>4. ASSUME ~r.truncated
          PROVE  ~Differ(artifact.final_snapshot, Replay(artifact))
      <3>1. Replayed(w, r.events) = t
        BY <1>1, <2>2, <2>4 DEF Kept, Replays, Started
      <3>2. Replay(artifact) = Snapshot(Replayed(w, r.events))
        BY <2>1 DEF Replay, Replayed
      <3>3. artifact.final_snapshot = Replay(artifact)
        BY <2>1, <3>1, <3>2
      <3> QED
        BY <3>3 DEF Differ, SameState
    <2> HIDE DEF Cut
    <2> QED
      BY <2>1, <2>3, <2>4
  <1>5. \/ saved' = saved \/ saved' = {}
        \/ request.record /\ \E oversized \in BOOLEAN : saved' = {Artifact(oversized)}
    BY DEF Save
  <1>6. SavedReplays <=> \A a \in saved : Good(a)
    BY DEF SavedReplays
  <1>7. \A a \in saved' : Good(a)
    <2> HIDE DEF Good
    <2> QED
      BY <1>4, <1>5, <1>6 DEF Kept
  <1>8. SavedReplays'
    BY <1>7 DEF SavedReplays
  <1>9. Replays'
    BY <1>1 DEF Replays, Started
  <1> QED
    BY <1>1, <1>8, <1>9 DEF Kept

LEMMA KeptStep == Typed /\ Sized /\ Split /\ Kept /\ [Next]_vars => Kept'
  <1> SUFFICES ASSUME Typed, Sized, Split, Kept, [Next]_vars
               PROVE  Kept'
    OBVIOUS
  <1> USE DEF StreamSame, ResultSame
  <1>1. CASE RefuseRequest
    BY <1>1, KeptSame DEF RefuseRequest
  <1>2. CASE StartRun
    BY <1>2, KeptStart
  <1>3. CASE ResizeSession
    BY <1>3, KeptResize
  <1>4. CASE ProvideInput
    <2> DEFINE e == Event("Input", "file")
    <2>1. e \in Loadable /\ e.kind = "Input"
      BY LoadableEvents DEF Event
    <2>2. CASE recording' = Push(recording, e)
      <3> HIDE DEF e
      <3> QED
        BY <1>4, <2>1, <2>2, KeptEvent DEF ProvideInput, Fail
    <2>3. CASE recording' = recording
      BY <1>4, <2>3, KeptSame DEF ProvideInput, Fail
    <2> QED
      BY <1>4, <2>2, <2>3 DEF ProvideInput
  <1>5. ASSUME NEW chunk \in Chunks, Output(chunk)
        PROVE  Kept'
    BY <1>5, KeptOutput
  <1>6. CASE Eof
    <2> DEFINE e == Event("Eof", "none")
    <2>1. e \in Loadable /\ e.kind = "Eof"
      BY LoadableEvents DEF Event
    <2>2. /\ recording' = Push(recording, e) /\ UNCHANGED <<request, resizes, t, saved, exit, phase>>
          /\ phase = "running" /\ resizes = Len(request.script)
      BY <1>6 DEF Eof, Running, Kept
    <2> HIDE DEF e
    <2> QED
      BY <2>1, <2>2, KeptEvent
  <1>7. CASE Exit
    <2> DEFINE e == Event("Exit", "none")
    <2>1. e \in Loadable /\ e.kind = "Exit"
      BY LoadableEvents DEF Event
    <2>2. /\ recording' = Push(recording, e) /\ UNCHANGED <<request, resizes, t, saved, phase>>
          /\ phase = "running" /\ resizes = Len(request.script)
      BY <1>7 DEF Exit, Running, Kept
    <2> HIDE DEF e
    <2> QED
      BY <2>1, <2>2, KeptEvent
  <1>8. CASE Complete
    <2>1. /\ UNCHANGED <<request, resizes, t, recording, exit, saved>> /\ phase = "running"
          /\ \/ phase' = "emit" /\ exit # NotYet
             \/ phase' = "done"
          /\ resizes = Len(request.script)
      BY <1>8 DEF Complete, Running, Fail, Kept
    <2> QED
      BY <2>1, KeptSame
  <1>9. CASE Emit
    <2>1. UNCHANGED <<request, resizes, t, recording, exit, saved>> /\ phase = "emit"
          /\ phase' \in {"save", "done"} /\ exit # NotYet /\ resizes = Len(request.script)
      BY <1>9 DEF Emit, Fail, Kept
    <2> QED
      BY <2>1, KeptSame
  <1>10. CASE Save
    BY <1>10, KeptSave
  <1>11. CASE UNCHANGED vars
    BY <1>11, KeptSame DEF vars, Kept
  <1>12. ASSUME NEW chunk \in Chunks, Panic(chunk)
         PROVE  Kept'
    <2>1. UNCHANGED <<request, resizes, t, recording, exit, saved>> /\ phase = "running"
          /\ phase' = "done" /\ resizes = Len(request.script)
      BY <1>12 DEF Panic, Running, Kept
    <2> QED
      BY <2>1, KeptSame
  <1> QED
    BY <1>1, <1>2, <1>3, <1>4, <1>5, <1>6, <1>7, <1>8, <1>9, <1>10, <1>11, <1>12 DEF Next, Done

LEMMA AlwaysKept == Spec => [](Typed /\ Sized /\ Split /\ Kept)
  BY InitTyped, TypedStep, InitSplit, SplitStep, InitKept, KeptStep, PTL DEF Spec

(* A saved recording within its limits loads, unless a payload was cut or  *)
(* the screen is a stale alternate one, and replays to the snapshot saved  *)
(* with it (PtyRecording::validate, replay).                               *)
THEOREM SavedAlwaysReplays == Spec => []SavedReplays
  <1>1. Kept => SavedReplays
    BY DEF Kept
  <1> QED
    BY <1>1, AlwaysKept, PTL

-----------------------------------------------------------------------------
(* What a recording holds of the stream, and where it shows responses.     *)

OutputsBefore(events, i) == Cardinality({j \in 1..i : events[j].kind = "Output"})
Outputs(events)     == OutputsBefore(events, Len(events))
Responses(events)   == {i \in DOMAIN events : events[i].what = "response"}
ResponsesAt(events) == {OutputsBefore(events, i) : i \in Responses(events)}
Capped(n) == IF n < OutputBudget THEN n ELSE OutputBudget

LEMMA OutputsMore ==
    ASSUME NEW events \in Seq(Loadable), NEW e \in Loadable, NEW more, more = Append(events, e)
    PROVE  /\ Outputs(events) \in Nat
           /\ Outputs(more) = Outputs(events) + (IF e.kind = "Output" THEN 1 ELSE 0)
           /\ ResponsesAt(more) = ResponsesAt(events)
                \cup (IF e.what = "response" THEN {Outputs(more)} ELSE {})
  <1> DEFINE n == Len(events)
             P == {j \in 1..n : events[j].kind = "Output"}
             Q == {j \in 1..(n + 1) : more[j].kind = "Output"}
  <1>1. /\ n \in Nat /\ DOMAIN events = 1..n /\ DOMAIN more = 1..(n + 1) /\ Len(more) = n + 1
        /\ more[n + 1] = e /\ \A i \in 1..n : more[i] = events[i]
    OBVIOUS
  <1> HIDE DEF n
  <1>2. P \in SUBSET (1..n)
    OBVIOUS
  <1>3. Cardinality(P) \in Nat /\ Cardinality(P \cup {n + 1}) = Cardinality(P) + 1
    <2> HIDE DEF P
    <2> QED
      BY <1>1, <1>2, CountMore
  <1>4. Q = IF e.kind = "Output" THEN P \cup {n + 1} ELSE P
    <2>1. \A j : j \in 1..(n + 1) <=> j \in 1..n \/ j = n + 1
      BY <1>1
    <2> QED
      BY <1>1, <2>1
  <1>5. Outputs(events) = Cardinality(P) /\ Outputs(more) = Cardinality(Q)
    BY <1>1 DEF Outputs, OutputsBefore, n
  <1>6. Outputs(events) \in Nat
        /\ Outputs(more) = Outputs(events) + (IF e.kind = "Output" THEN 1 ELSE 0)
    <2> HIDE DEF P, Q
    <2> QED
      BY <1>3, <1>4, <1>5
  <1>7. \A i \in 1..n : OutputsBefore(more, i) = OutputsBefore(events, i)
    <2> TAKE i \in 1..n
    <2>1. \A j \in 1..i : more[j] = events[j]
      BY <1>1
    <2>2. {j \in 1..i : more[j].kind = "Output"} = {j \in 1..i : events[j].kind = "Output"}
      BY <2>1
    <2> QED
      BY <2>2 DEF OutputsBefore
  <1>8. Responses(more) = Responses(events) \cup (IF e.what = "response" THEN {n + 1} ELSE {})
    <2>1. \A j : j \in 1..(n + 1) <=> j \in 1..n \/ j = n + 1
      BY <1>1
    <2> QED
      BY <1>1, <2>1 DEF Responses
  <1>9. Responses(events) \subseteq 1..n
    BY <1>1 DEF Responses
  <1>10. Outputs(more) = OutputsBefore(more, n + 1)
    BY <1>1 DEF Outputs
  <1>11. ResponsesAt(more) = ResponsesAt(events)
                \cup (IF e.what = "response" THEN {OutputsBefore(more, n + 1)} ELSE {})
    <2>1. \A i \in Responses(events) : OutputsBefore(more, i) = OutputsBefore(events, i)
      BY <1>7, <1>9
    <2> QED
      BY <1>8, <2>1 DEF ResponsesAt
  <1> QED
    BY <1>6, <1>10, <1>11

LEMMA RangeMore ==
    ASSUME NEW S, NEW s \in Seq(S), NEW x \in S
    PROVE  Range(Append(s, x)) = Range(s) \cup {x}
  <1>1. /\ DOMAIN Append(s, x) = 1..(Len(s) + 1) /\ DOMAIN s = 1..Len(s) /\ Len(s) \in Nat
        /\ Append(s, x)[Len(s) + 1] = x /\ \A i \in 1..Len(s) : Append(s, x)[i] = s[i]
    OBVIOUS
  <1> DEFINE n == Len(s)
             more == Append(s, x)
  <1>2. \A j : j \in 1..(n + 1) <=> j \in 1..n \/ j = n + 1
    BY <1>1
  <1> HIDE DEF n, more
  <1>3. {more[i] : i \in 1..(n + 1)} = {s[i] : i \in 1..n} \cup {x}
    BY <1>1, <1>2 DEF n, more
  <1> QED
    BY <1>1, <1>3 DEF Range, n, more

(* What the budget leaves of the stream, when a chunk comes.               *)
LEMMA CappedMore ==
    ASSUME NEW seen \in Seq(Byte), NEW chunk \in Seq(Byte), OutputBudget \in Nat
    PROVE  /\ Len(seen) > OutputBudget =>
                /\ Len(seen \o chunk) > OutputBudget
                /\ SubSeq(seen \o chunk, 1, Capped(Len(seen \o chunk)))
                     = SubSeq(seen, 1, Capped(Len(seen)))
           /\ \A k \in 0..Len(chunk) :
                /\ ~(Len(seen) > OutputBudget)
                /\ k = IF Len(chunk) < OutputBudget - Len(seen) THEN Len(chunk)
                       ELSE OutputBudget - Len(seen)
                => /\ Len(seen \o chunk) > OutputBudget <=> k < Len(chunk)
                   /\ SubSeq(seen \o chunk, 1, Capped(Len(seen \o chunk)))
                        = seen \o SubSeq(chunk, 1, k)
  <1> DEFINE all == seen \o chunk
             m == Len(seen)
             n == Len(chunk)
  <1>1. /\ m \in Nat /\ n \in Nat /\ all \in Seq(Byte) /\ Len(all) = m + n
        /\ \A i \in 1..m : all[i] = seen[i]
        /\ \A i \in (m + 1)..(m + n) : all[i] = chunk[i - m]
    OBVIOUS
  <1>2. ASSUME m > OutputBudget
        PROVE  /\ Len(all) > OutputBudget
               /\ SubSeq(all, 1, Capped(Len(all))) = SubSeq(seen, 1, Capped(m))
    <2>1. Capped(m) = OutputBudget /\ Capped(Len(all)) = OutputBudget /\ Len(all) > OutputBudget
      BY <1>1, <1>2 DEF Capped
    <2>2. SubSeq(all, 1, OutputBudget) = SubSeq(seen, 1, OutputBudget)
      <3>1. \A i \in 1..OutputBudget : all[i] = seen[i]
        BY <1>1, <1>2
      <3> HIDE DEF all
      <3> QED
        BY <1>1, <1>2, <3>1
    <2> QED
      BY <2>1, <2>2
  <1>3. ASSUME NEW k \in 0..n, m <= OutputBudget,
               k = IF n < OutputBudget - m THEN n ELSE OutputBudget - m
        PROVE  /\ Len(all) > OutputBudget <=> k < n
               /\ SubSeq(all, 1, Capped(Len(all))) = seen \o SubSeq(chunk, 1, k)
    <2>1. (Len(all) > OutputBudget <=> k < n) /\ Capped(Len(all)) = m + k
      <3> DEFINE l == Len(all)
      <3>1. l = m + n /\ m \in Nat /\ n \in Nat
        BY <1>1
      <3>2. m <= OutputBudget /\ k = IF n < OutputBudget - m THEN n ELSE OutputBudget - m
        BY <1>3
      <3> HIDE DEF all, l, m, n
      <3>3. CASE n < OutputBudget - m
        <4>1. k = n /\ l < OutputBudget
          BY <3>1, <3>2, <3>3
        <4> QED
          BY <3>1, <4>1 DEF Capped, l
      <3>4. CASE ~(n < OutputBudget - m)
        <4>1. /\ k = OutputBudget - m /\ k <= n /\ l >= OutputBudget
              /\ l > OutputBudget <=> k < n
          BY <3>1, <3>2, <3>4
        <4>2. Capped(l) = OutputBudget
          BY <3>1, <4>1 DEF Capped
        <4>3. OutputBudget = m + k
          BY <3>1, <4>1
        <4> QED
          BY <4>1, <4>2, <4>3 DEF l
      <3> QED
        BY <3>3, <3>4
    <2> DEFINE front == SubSeq(chunk, 1, k)
    <2>2. /\ front \in Seq(Byte) /\ Len(front) = k /\ \A i \in 1..k : front[i] = chunk[i]
      OBVIOUS
    <2>3. SubSeq(all, 1, m + k) = seen \o front
      <3> DEFINE u == SubSeq(all, 1, m + k)
                 v == seen \o front
      <3>1. u \in Seq(Byte) /\ Len(u) = m + k /\ \A i \in 1..(m + k) : u[i] = all[i]
        <4> HIDE DEF all
        <4> QED
          BY <1>1
      <3>2. /\ v \in Seq(Byte) /\ Len(v) = m + k /\ \A i \in 1..m : v[i] = seen[i]
            /\ \A i \in (m + 1)..(m + k) : v[i] = front[i - m]
        <4> HIDE DEF front
        <4> QED
          BY <2>2
      <3>3. \A i \in 1..(m + k) : u[i] = v[i]
        <4> TAKE i \in 1..(m + k)
        <4> HIDE DEF all, front, u, v
        <4>1. CASE i <= m
          BY <1>1, <3>1, <3>2, <4>1
        <4>2. CASE i > m
          <5>1. i \in (m + 1)..(m + k) /\ i \in (m + 1)..(m + n) /\ i - m \in 1..k
            BY <1>1, <4>2
          <5>2. front[i - m] = chunk[i - m]
            BY <2>2, <5>1
          <5>3. v[i] = front[i - m]
            BY <3>2, <5>1
          <5>4. u[i] = all[i]
            BY <3>1
          <5>5. all[i] = chunk[i - m]
            BY <1>1, <5>1
          <5> QED
            BY <5>2, <5>3, <5>4, <5>5
        <4> QED
          BY <1>1, <4>1, <4>2
      <3> HIDE DEF u, v
      <3>4. u = v
        BY <1>1, <3>1, <3>2, <3>3, SeqEqual
      <3> QED
        BY <3>4 DEF u, v
    <2> QED
      BY <2>1, <2>3
  <1> HIDE DEF all, m, n
  <1>4. /\ ~(m > OutputBudget) <=> m <= OutputBudget
    BY <1>1
  <1> QED
    BY <1>2, <1>3, <1>4 DEF all, m, n

(* The recording holds what the budget allows of the stream, and shows the *)
(* responses behind the output they answer.                                *)
Shows(r, seen, n, told) ==
    /\ OutputOf(r.events) = SubSeq(seen, 1, Capped(Len(seen)))
    /\ r.truncated <=> Len(seen) > OutputBudget
    /\ ~r.truncated => Outputs(r.events) = n
    /\ ~r.truncated => ResponsesAt(r.events) = told

Streams ==
    /\ answers \in Seq(Nat)
    /\ recording.enabled =>
         \E told : /\ Shows(recording, FlattenSeq(delivered), Len(delivered), told)
                   /\ phase # "done" => told = Range(answers)

LEMMA InitStreams == Init => Streams
  <1> SUFFICES ASSUME Init PROVE Streams
    OBVIOUS
  <1>1. recording.events = <<>> /\ ~recording.truncated /\ delivered = <<>> /\ answers = <<>>
    BY DEF Init, NewRecording
  <1>2. OutputOf(<<>>) = <<>>
    BY LoadableEvents, OutputOfMore, EmptySeq
  <1>3. FlattenSeq(<<>>) = <<>>
    BY EmptySeq, StreamMore DEF FlattenSeq
  <1>4. OutputBudget \in Nat
    BY RunAssumption
  <1>5. SubSeq(<<>>, 1, Capped(Len(<<>>))) = <<>> /\ ~(Len(<<>>) > OutputBudget)
    BY <1>4 DEF Capped
  <1>6. Outputs(<<>>) = 0
    <2>1. {j \in 1..0 : <<>>[j].kind = "Output"} = {}
      OBVIOUS
    <2> QED
      BY <2>1, FS_EmptySet DEF Outputs, OutputsBefore
  <1>7. ResponsesAt(<<>>) = {} /\ Range(<<>>) = {}
    BY DEF ResponsesAt, Responses, Range
  <1>8. Shows(recording, FlattenSeq(delivered), Len(delivered), {})
    BY <1>1, <1>2, <1>3, <1>5, <1>6, <1>7 DEF Shows
  <1>9. answers \in Seq(Nat) /\ Range(answers) = {}
    BY <1>1, <1>7
  <1> QED
    BY <1>8, <1>9 DEF Streams

LEMMA StreamsSame ==
    ASSUME Streams, UNCHANGED <<answers, recording, delivered>>,
           phase' # "done" => phase # "done"
    PROVE  Streams'
  BY DEF Streams

(* An event that is neither output nor a response.                         *)
LEMMA StreamsEvent ==
    ASSUME Kept, Streams, NEW e \in Loadable, e.kind # "Output", e.what # "response",
           recording' = Push(recording, e), UNCHANGED <<answers, delivered>>,
           phase' # "done" => phase # "done"
    PROVE  Streams'
  <1> DEFINE r == recording
             q == recording'
  <1>1. Whole(r) /\ r.events \in Seq(Loadable)
    BY DEF Kept, Whole
  <1>2. /\ OutputOf(q.events) = OutputOf(r.events)
        /\ q.enabled = r.enabled /\ q.truncated = r.truncated
        /\ r.enabled => q.events = Append(r.events, e)
        /\ ~r.enabled => q = r
    BY <1>1, PushWhole
  <1> HIDE DEF r, q
  <1>3. ASSUME r.enabled, NEW seen, NEW n, NEW told, Shows(r, seen, n, told)
        PROVE  Shows(q, seen, n, told)
    <2>1. q.events = Append(r.events, e)
      BY <1>2, <1>3
    <2>2. /\ Outputs(r.events) \in Nat
          /\ Outputs(q.events) = Outputs(r.events) + 0
          /\ ResponsesAt(q.events) = ResponsesAt(r.events)
      BY <1>1, <2>1, OutputsMore
    <2>3. Outputs(q.events) = Outputs(r.events)
      BY <2>2
    <2> QED
      BY <1>2, <1>3, <2>2, <2>3 DEF Shows
  <1> QED
    BY <1>2, <1>3 DEF Streams, r, q

LEMMA ShowsChunk ==
    ASSUME NEW r, Whole(r), r.enabled, NEW seen \in Seq(Byte), NEW n \in Nat, NEW told,
           Shows(r, seen, n, told), NEW chunk \in Chunks, NEW q, q = PushOutput(r, chunk)
    PROVE  Shows(q, seen \o chunk, n + 1, told)
  <1>0. /\ chunk \in Seq(Byte) /\ chunk # <<>> /\ r.events \in Seq(Loadable)
        /\ r.truncated \in BOOLEAN /\ r.output_bytes = Len(OutputOf(r.events))
        /\ OutputBudget \in Nat
    BY ChunkIsBytes, RecordingParts, RunAssumption DEF Whole
  <1>1. CASE r.truncated
    <2>1. q = r
      BY <1>0, <1>1, PushOutputWhole
    <2>2. Len(seen) > OutputBudget
      BY <1>1 DEF Shows
    <2> HIDE DEF Shows
    <2>3. /\ Len(seen \o chunk) > OutputBudget
          /\ SubSeq(seen \o chunk, 1, Capped(Len(seen \o chunk))) = SubSeq(seen, 1, Capped(Len(seen)))
      BY <1>0, <2>2, CappedMore
    <2> QED
      BY <1>1, <2>1, <2>3 DEF Shows
  <1>2. CASE ~r.truncated
    <2>1. PICK k \in 0..Len(chunk) :
            /\ Keeps(r, chunk, q, k)
            /\ OutputOf(q.events) = OutputOf(r.events) \o SubSeq(chunk, 1, k)
      BY <1>0, <1>2, PushOutputWhole
    <2> DEFINE front == SubSeq(chunk, 1, k)
               e == BytesEvent("Output", front)
               m == Len(seen)
    <2>2. /\ ~(m > OutputBudget) /\ OutputOf(r.events) = SubSeq(seen, 1, Capped(m))
          /\ Outputs(r.events) = n /\ ResponsesAt(r.events) = told
      BY <1>2 DEF Shows
    <2>3. OutputOf(r.events) = seen /\ r.output_bytes = m
      <3>1. SubSeq(seen, 1, Capped(m)) = seen
        BY <1>0, <2>2 DEF Capped
      <3> QED
        BY <1>0, <2>2, <3>1
    <2>4. /\ k = IF Len(chunk) < OutputBudget - m THEN Len(chunk) ELSE OutputBudget - m
          /\ q.truncated <=> k < Len(chunk)
          /\ q.events = IF k = 0 THEN r.events ELSE Append(r.events, e)
      BY <2>1, <2>3 DEF Keeps
    <2>5. /\ Len(seen \o chunk) > OutputBudget <=> k < Len(chunk)
          /\ SubSeq(seen \o chunk, 1, Capped(Len(seen \o chunk))) = seen \o front
      <3> DEFINE all == seen \o chunk
      <3>1. /\ ~(m > OutputBudget)
            /\ k = IF Len(chunk) < OutputBudget - m THEN Len(chunk) ELSE OutputBudget - m
        BY <2>2, <2>4
      <3> QED
        BY <1>0, <3>1, CappedMore
    <2>6. ASSUME ~q.truncated
          PROVE  Outputs(q.events) = n + 1 /\ ResponsesAt(q.events) = told
      <3>0. k = Len(chunk)
        <4>1. ~(k < Len(chunk))
          BY <2>4, <2>6
        <4> QED
          BY <1>0, <4>1
      <3>1. k = Len(chunk) /\ k # 0 /\ front = chunk
        BY <1>0, <3>0
      <3>2. q.events = Append(r.events, e) /\ e \in Loadable
            /\ e.kind = "Output" /\ e.what # "response"
        BY <1>0, <2>4, <3>1, LoadableEvents DEF BytesEvent
      <3> HIDE DEF e
      <3>3. /\ Outputs(q.events) = Outputs(r.events) + 1
            /\ ResponsesAt(q.events) = ResponsesAt(r.events) \cup {}
        BY <1>0, <3>2, OutputsMore
      <3> QED
        BY <2>2, <3>3
    <2>7. OutputOf(q.events) = seen \o front
      BY <2>1, <2>3
    <2> HIDE DEF front, e, m
    <2> QED
      BY <2>4, <2>5, <2>6, <2>7 DEF Shows
  <1> QED
    BY <1>0, <1>1, <1>2

LEMMA ShowsResponse ==
    ASSUME NEW r, Whole(r), r.enabled, NEW seen, NEW n, NEW told, Shows(r, seen, n, told),
           NEW q, q = Push(r, Event("Input", "response"))
    PROVE  Shows(q, seen, n, told \cup {n})
  <1> DEFINE e == Event("Input", "response")
  <1>1. e \in Loadable /\ e.kind = "Input" /\ e.what = "response"
    BY LoadableEvents DEF Event
  <1>2. r.events \in Seq(Loadable) /\ q = Push(r, e)
    BY DEF Whole
  <1> HIDE DEF e
  <1>3. /\ OutputOf(q.events) = OutputOf(r.events) /\ q.truncated = r.truncated
        /\ q.events = Append(r.events, e)
    BY <1>1, <1>2, PushWhole
  <1>4. /\ Outputs(r.events) \in Nat /\ Outputs(q.events) = Outputs(r.events) + 0
        /\ ResponsesAt(q.events) = ResponsesAt(r.events) \cup {Outputs(q.events)}
    BY <1>1, <1>2, <1>3, OutputsMore
  <1>5. Outputs(q.events) = Outputs(r.events)
    BY <1>4
  <1> QED
    BY <1>3, <1>4, <1>5 DEF Shows

LEMMA StreamsOutput ==
    ASSUME Typed, Kept, Streams, NEW chunk \in Chunks, Output(chunk)
    PROVE  Streams'
  <1> DEFINE r == recording
             p == PushOutput(r, chunk)
             q == recording'
             seen == FlattenSeq(delivered)
             n == Len(delivered)
             answered == Completes(tail \o chunk)
  <1>1. /\ phase = "running" /\ delivered' = Append(delivered, chunk)
        /\ q = RecordChunk(chunk, answered)
        /\ \/ answers' = Append(answers, n + 1) /\ answered
           \/ answers' = answers /\ ~answered
           \/ answers' = answers /\ answered /\ phase' = "done"
    BY DEF Output, Running, Fail
  <1>2. delivered \in Seq(Chunks) /\ n \in Nat
    BY DEF Typed, TypeOK
  <1>3. seen \in Seq(Byte) /\ FlattenSeq(delivered)' = seen \o chunk /\ Len(delivered') = n + 1
    BY <1>1, <1>2, StreamMore
  <1>4. q = IF answered THEN Push(p, Event("Input", "response")) ELSE p
    BY <1>1 DEF RecordChunk
  <1>5. Whole(r) /\ chunk \in Seq(Byte) /\ chunk # <<>>
    BY ChunkIsBytes DEF Kept
  <1>6. Whole(p) /\ p.enabled = r.enabled
    BY <1>5, PushOutputWhole
  <1>7. answers' \in Seq(Nat)
    <2>1. answers' = Append(answers, n + 1) \/ answers' = answers
      BY <1>1
    <2>2. answers \in Seq(Nat) /\ n + 1 \in Nat
      BY <1>2 DEF Streams
    <2> HIDE DEF n
    <2> QED
      BY <2>1, <2>2
  <1>8. answers' = Append(answers, n + 1) => Range(answers)' = Range(answers) \cup {n + 1}
    <2> DEFINE x == n + 1
    <2>1. answers \in Seq(Nat) /\ x \in Nat
      BY <1>2 DEF Streams
    <2> HIDE DEF n, x
    <2>2. Range(Append(answers, x)) = Range(answers) \cup {x}
      BY <2>1, RangeMore
    <2> QED
      BY <2>2 DEF x
  <1>9. q.enabled => r.enabled
    <2>1. Push(p, Event("Input", "response")).enabled = p.enabled
      BY <1>6, EventTypes, PushEffect DEF Whole
    <2> HIDE DEF p, q, r
    <2> QED
      BY <1>4, <1>6, <2>1
  <1>10. answered \in BOOLEAN
    BY DEF Completes
  <1> HIDE DEF p, q, seen, answered
  <1>11. ASSUME r.enabled
         PROVE  \E told : /\ Shows(q, seen \o chunk, n + 1, told)
                          /\ phase' # "done" => told = Range(answers)'
    <2>1. PICK told : Shows(r, seen, n, told) /\ told = Range(answers)
      BY <1>1, <1>11 DEF Streams, seen
    <2>2. Shows(p, seen \o chunk, n + 1, told)
      BY <1>2, <1>3, <1>5, <1>11, <2>1, ShowsChunk DEF p
    <2>3. CASE answered
      <3>1. Shows(q, seen \o chunk, n + 1, told \cup {n + 1})
        BY <1>4, <1>6, <1>11, <2>2, <2>3, ShowsResponse
      <3>2. phase' # "done" => Range(answers)' = told \cup {n + 1}
        BY <1>1, <1>8, <2>1, <2>3
      <3> QED
        BY <3>1, <3>2
    <2>4. CASE ~answered
      <3>1. q = p /\ answers' = answers
        BY <1>1, <1>4, <2>4
      <3> QED
        BY <2>1, <2>2, <3>1
    <2> QED
      BY <1>10, <2>3, <2>4
  <1> QED
    BY <1>3, <1>7, <1>9, <1>11 DEF Streams, q

LEMMA StreamsStep == Typed /\ Split /\ Kept /\ Streams /\ [Next]_vars => Streams'
  <1> SUFFICES ASSUME Typed, Split, Kept, Streams, [Next]_vars
               PROVE  Streams'
    OBVIOUS
  <1> USE DEF StreamSame, ResultSame
  <1>1. CASE RefuseRequest
    BY <1>1, StreamsSame DEF RefuseRequest
  <1>2. CASE StartRun
    <2>1. UNCHANGED <<answers, recording, delivered>> /\ phase = "start"
      BY <1>2 DEF StartRun
    <2> QED
      BY <2>1, StreamsSame
  <1>3. CASE ResizeSession
    <2> DEFINE size == request.script[resizes + 1]
               e == Event("Resize", size)
    <2>1. UNCHANGED <<answers, delivered>> /\ phase = "setup"
      BY <1>3 DEF ResizeSession
    <2>2. CASE recording' = recording
      BY <2>1, <2>2, StreamsSame
    <2>3. CASE SizeLoads(size) /\ recording' = Push(recording, e)
      <3>1. size \in TerminalSizes /\ size # "response"
        BY <2>3, RunAssumption DEF SizeLoads
      <3>2. e \in Loadable /\ e.kind # "Output" /\ e.what # "response"
        BY <3>1, LoadableEvents DEF Event
      <3> HIDE DEF e, size
      <3> QED
        BY <2>1, <2>3, <3>2, StreamsEvent
    <2> QED
      BY <1>3, <2>2, <2>3 DEF ResizeSession
  <1>4. CASE ProvideInput
    <2> DEFINE e == Event("Input", "file")
    <2>1. UNCHANGED <<answers, delivered>> /\ phase = "setup"
          /\ (recording' = recording \/ recording' = Push(recording, e))
      BY <1>4 DEF ProvideInput
    <2>2. e \in Loadable /\ e.kind # "Output" /\ e.what # "response"
      BY LoadableEvents DEF Event
    <2> HIDE DEF e
    <2> QED
      BY <2>1, <2>2, StreamsEvent, StreamsSame
  <1>5. ASSUME NEW chunk \in Chunks, Output(chunk)
        PROVE  Streams'
    BY <1>5, StreamsOutput
  <1>6. CASE Eof
    <2> DEFINE e == Event("Eof", "none")
    <2>1. UNCHANGED <<answers, delivered, phase>> /\ recording' = Push(recording, e)
      BY <1>6 DEF Eof
    <2>2. e \in Loadable /\ e.kind # "Output" /\ e.what # "response"
      BY LoadableEvents DEF Event
    <2> HIDE DEF e
    <2> QED
      BY <2>1, <2>2, StreamsEvent
  <1>7. CASE Exit
    <2> DEFINE e == Event("Exit", "none")
    <2>1. UNCHANGED <<answers, delivered, phase>> /\ recording' = Push(recording, e)
      BY <1>7 DEF Exit
    <2>2. e \in Loadable /\ e.kind # "Output" /\ e.what # "response"
      BY LoadableEvents DEF Event
    <2> HIDE DEF e
    <2> QED
      BY <2>1, <2>2, StreamsEvent
  <1>8. CASE Complete
    BY <1>8, StreamsSame DEF Complete, Running
  <1>9. CASE Emit
    BY <1>9, StreamsSame DEF Emit
  <1>10. CASE Save
    BY <1>10, StreamsSame DEF Save
  <1>11. CASE UNCHANGED vars
    BY <1>11, StreamsSame DEF vars
  <1>12. ASSUME NEW chunk \in Chunks, Panic(chunk)
         PROVE  Streams'
    BY <1>12, StreamsSame DEF Panic, Running
  <1> QED
    BY <1>1, <1>2, <1>3, <1>4, <1>5, <1>6, <1>7, <1>8, <1>9, <1>10, <1>11, <1>12 DEF Next, Done

LEMMA AlwaysStreams == Spec => [](Typed /\ Kept /\ Streams)
  <1>1. Init => Streams
    BY InitStreams
  <1>2. Typed /\ Split /\ Kept /\ Streams /\ [Next]_vars => Streams'
    BY StreamsStep
  <1> QED
    BY <1>1, <1>2, AlwaysKept, PTL DEF Spec

(* A recording holds what its budget allows of the output, says whether it *)
(* is truncated, and shows each response behind the output it answers      *)
(* (push_output, push_pty_event).                                          *)
THEOREM StreamAlwaysRecorded == Spec => []RecordsStream
  <1>1. Typed /\ Kept /\ Streams => RecordsStream
    <2> SUFFICES ASSUME Typed, Kept, Streams, recording.enabled
                 PROVE  RecordsStream
      BY DEF RecordsStream
    <2> DEFINE seen == FlattenSeq(delivered)
               n == Len(delivered)
               events == recording.events
               kept == OutputOf(events)
    <2>1. PICK told : /\ Shows(recording, seen, n, told)
                      /\ phase # "done" => told = Range(answers)
      BY DEF Streams
    <2>2. /\ delivered \in Seq(Chunks) /\ OutputBudget \in Nat
          /\ recording.output_bytes = Len(kept)
      BY RunAssumption DEF Typed, TypeOK, Kept, Whole
    <2>3. seen \in Seq(Byte)
      <3>1. CASE delivered = <<>>
        BY <3>1 DEF FlattenSeq
      <3>2. CASE delivered # <<>>
        BY <2>2, <3>2, StreamEnd
      <3> QED
        BY <3>1, <3>2
    <2>4. kept = SubSeq(seen, 1, Capped(Len(seen))) /\ (recording.truncated <=> Len(seen) > OutputBudget)
      BY <2>1 DEF Shows
    <2> HIDE DEF seen, kept
    <2>5. /\ IsPrefix(kept, seen)
          /\ Len(kept) = IF Len(seen) < OutputBudget THEN Len(seen) ELSE OutputBudget
      <3> DEFINE m == Capped(Len(seen))
      <3>1. m \in 0..Len(seen) /\ m = IF Len(seen) < OutputBudget THEN Len(seen) ELSE OutputBudget
        BY <2>2, <2>3 DEF Capped
      <3> HIDE DEF m
      <3>2. kept = SubSeq(seen, 1, m)
        BY <2>4 DEF m
      <3>3. kept \in Seq(Byte) /\ Len(kept) = m /\ SubSeq(kept, 1, m) = kept
        BY <2>3, <3>1, <3>2
      <3> QED
        BY <2>3, <3>1, <3>2, <3>3 DEF IsPrefix
    <2>6. Running /\ ~recording.truncated => ResponsesAt(events) = Range(answers)
      BY <2>1 DEF Shows, Running
    <2>7. ResponsesAt(events)
            = {Cardinality({j \in 1..i : events[j].kind = "Output"}) :
                  i \in {i \in DOMAIN events : events[i].what = "response"}}
      BY DEF ResponsesAt, Responses, OutputsBefore
    <2> QED
      BY <2>2, <2>4, <2>5, <2>6, <2>7 DEF RecordsStream, seen, kept
  <1> QED
    BY <1>1, AlwaysStreams, PTL

-----------------------------------------------------------------------------
(* Queries in the stream.                                                  *)

LEMMA AtEndIs ==
    ASSUME NEW bytes \in Seq(Byte), NEW p \in 4..Len(bytes)
    PROVE  AtEnd(bytes, p) <=> \A j \in 1..4 : bytes[p - 4 + j] = Query[j]
  <1> DEFINE part == SubSeq(bytes, p - 4 + 1, p)
  <1>1. Query \in Seq(Byte) /\ Len(Query) = 4
    <2>1. Esc \in Byte /\ "[" \in Byte /\ Digit \in Byte /\ "n" \in Byte
      BY BytesAre DEF Byte, Finals
    <2> QED
      BY <2>1 DEF Query
  <1>2. AtEnd(bytes, p) <=> part = Query
    BY <1>1 DEF AtEnd
  <1>3. part \in Seq(Byte) /\ Len(part) = 4
    OBVIOUS
  <1>4. \A j \in 1..4 : part[j] = bytes[p - 4 + j]
    <2> TAKE j \in 1..4
    <2>1. j \in 1..(p - (p - 4 + 1) + 1) /\ p - 4 + 1 + j - 1 = p - 4 + j
      OBVIOUS
    <2> QED
      BY <2>1
  <1> HIDE DEF part
  <1>5. part = Query <=> \A j \in 1..4 : part[j] = Query[j]
    BY <1>1, <1>3, SeqEqual
  <1> QED
    BY <1>2, <1>4, <1>5

Ends(stream) == {p \in 4..Len(stream) : AtEnd(stream, p)}

(* The tail of the stream and the next chunk tell whether a query ends in  *)
(* the chunk (response_for_output).                                        *)
LEMMA EndsMore ==
    ASSUME NEW seen \in Seq(Byte), NEW chunk \in Seq(Byte), NEW last, last = LastBytes(seen, 3)
    PROVE  /\ Ends(seen) = {p \in Ends(seen \o chunk) : p <= Len(seen)}
           /\ Completes(last \o chunk) <=> \E p \in Ends(seen \o chunk) : p > Len(seen)
           /\ NextTail(last \o chunk) = LastBytes(seen \o chunk, 3)
  <1> DEFINE m == Len(seen)
             n == Len(chunk)
             all == seen \o chunk
             first == IF m < 3 THEN 1 ELSE m - 3 + 1
             d == first - 1
             l == m - d
             near == last \o chunk
  <1>1. m \in Nat /\ n \in Nat /\ first \in 1..(m + 1) /\ d \in 0..m /\ l \in 0..3
        /\ (l < 3 => d = 0) /\ m = d + l
    <2>1. m \in Nat /\ n \in Nat
      OBVIOUS
    <2> HIDE DEF m, n
    <2> QED
      BY <2>1
  <1>2. last = SubSeq(seen, first, m)
    BY DEF LastBytes
  <1> HIDE DEF m, n, first, d, l
  <1>3. /\ all \in Seq(Byte) /\ Len(all) = m + n
        /\ \A i \in 1..m : all[i] = seen[i]
        /\ \A i \in (m + 1)..(m + n) : all[i] = chunk[i - m]
    BY DEF m, n
  <1>4. /\ last \in Seq(Byte) /\ Len(last) = l
        /\ \A i \in 1..l : last[i] = seen[i + d]
    <2>1. m = Len(seen) /\ first = d + 1
      BY <1>1 DEF m, d
    <2>2. /\ last \in Seq(Byte) /\ Len(last) = m - first + 1
          /\ \A i \in 1..(m - first + 1) : last[i] = seen[first + i - 1]
      <3>1. first \in 1..(Len(seen) + 1) /\ m \in (first - 1)..Len(seen)
        BY <1>1, <2>1
      <3> DEFINE x == SubSeq(seen, first, m)
      <3>2. /\ x \in Seq(Byte)
            /\ Len(x) = IF first <= m THEN m - first + 1 ELSE 0
            /\ \A i \in 1..(m - first + 1) : x[i] = seen[first + i - 1]
        BY <3>1, SubSeqProperties
      <3> HIDE DEF x
      <3>3. Len(x) = m - first + 1
        BY <1>1, <3>1, <3>2
      <3> QED
        BY <1>2, <3>2, <3>3 DEF x
    <2>4. m - first + 1 = l /\ \A i \in 1..l : first + i - 1 = i + d
      BY <1>1, <2>1
    <2> QED
      BY <2>2, <2>4
  <1>5. /\ near \in Seq(Byte) /\ Len(near) = l + n
        /\ \A i \in 1..l : near[i] = last[i]
        /\ \A i \in (l + 1)..(l + n) : near[i] = chunk[i - l]
    BY <1>1, <1>4 DEF n
  <1> HIDE DEF all, near
  <1>6. \A i \in 1..(l + n) : near[i] = all[i + d]
    <2> TAKE i \in 1..(l + n)
    <2>1. CASE i <= l
      <3>1. i \in 1..l /\ i + d \in 1..m
        BY <1>1, <2>1
      <3> QED
        BY <1>3, <1>4, <1>5, <3>1
    <2>2. CASE i > l
      <3>1. i \in (l + 1)..(l + n) /\ i + d \in (m + 1)..(m + n) /\ i - l = (i + d) - m
        BY <1>1, <2>2
      <3>2. near[i] = chunk[i - l] /\ all[i + d] = chunk[(i + d) - m]
        BY <1>3, <1>5, <3>1
      <3> QED
        BY <3>1, <3>2
    <2> QED
      BY <1>1, <2>1, <2>2
  <1>7. \A q \in 4..(l + n) : AtEnd(near, q) <=> AtEnd(all, q + d)
    <2> TAKE q \in 4..(l + n)
    <2> DEFINE r == q + d
    <2>1. q \in 4..Len(near) /\ r \in 4..Len(all)
      BY <1>1, <1>3, <1>5
    <2>2. \A j \in 1..4 : q - 4 + j \in 1..(l + n) /\ q - 4 + j + d = r - 4 + j
      BY <1>1
    <2> HIDE DEF r
    <2>3. \A j \in 1..4 : near[q - 4 + j] = all[r - 4 + j]
      <3> TAKE j \in 1..4
      <3> DEFINE i == q - 4 + j
      <3>1. i \in 1..(l + n) /\ i + d = r - 4 + j
        BY <2>2
      <3> HIDE DEF i
      <3>2. near[i] = all[r - 4 + j]
        BY <1>6, <3>1
      <3> QED
        BY <3>2 DEF i
    <2>4. AtEnd(near, q) <=> AtEnd(all, r)
      BY <1>3, <1>5, <2>1, <2>3, AtEndIs
    <2> QED
      BY <2>4 DEF r
  <1>8. Completes(near) <=> \E p \in Ends(all) : p > m
    <2>1. Completes(near) <=> \E q \in 4..(l + n) : AtEnd(near, q)
      <3>1. Len(Query) = 4
        BY DEF Query
      <3> QED
        BY <1>5, <3>1 DEF Completes
    <2>2. ASSUME NEW q \in 4..(l + n), AtEnd(near, q)
          PROVE  \E p \in Ends(all) : p > m
      <3>1. q + d \in 4..Len(all) /\ q + d > m
        BY <1>1, <1>3
      <3>2. q + d \in Ends(all)
        BY <1>7, <2>2, <3>1 DEF Ends
      <3> QED
        BY <3>1, <3>2
    <2>3. ASSUME NEW p \in Ends(all), p > m
          PROVE  \E q \in 4..(l + n) : AtEnd(near, q)
      <3>1. p \in 4..(m + n) /\ AtEnd(all, p)
        BY <1>3 DEF Ends
      <3>2. p - d \in 4..(l + n) /\ (p - d) + d = p
        BY <1>1, <2>3, <3>1
      <3> QED
        BY <1>7, <3>1, <3>2
    <2> QED
      BY <2>1, <2>2, <2>3
  <1>9. Ends(seen) = {p \in Ends(all) : p <= m}
    <2>1. ASSUME NEW p \in 4..m
          PROVE  AtEnd(seen, p) <=> AtEnd(all, p)
      <3>1. p \in 4..Len(seen) /\ p \in 4..Len(all)
        BY <1>1, <1>3 DEF m
      <3>2. \A j \in 1..4 : seen[p - 4 + j] = all[p - 4 + j]
        <4> TAKE j \in 1..4
        <4>1. p - 4 + j \in 1..m
          BY <1>1
        <4> QED
          BY <1>3, <4>1
      <3> QED
        BY <1>3, <3>1, <3>2, AtEndIs
    <2>2. \A p : p \in 4..m <=> p \in 4..Len(all) /\ p <= m
      BY <1>1, <1>3
    <2>3. Len(seen) = m
      BY DEF m
    <2> QED
      BY <2>1, <2>2, <2>3 DEF Ends
  <1>10. NextTail(near) = LastBytes(all, 3)
    <2>1. Len(Query) - 1 = 3
      BY DEF Query
    <2> DEFINE total == m + n
               from == IF l + n < 3 THEN 1 ELSE l + n - 3 + 1
               at == IF total < 3 THEN 1 ELSE total - 3 + 1
               u == SubSeq(near, from, l + n)
               v == SubSeq(all, at, total)
    <2>1a. NextTail(near) = LastBytes(near, 3)
      BY <2>1 DEF NextTail
    <2>1b. \A b : LastBytes(b, 3) = SubSeq(b, IF Len(b) < 3 THEN 1 ELSE Len(b) - 3 + 1, Len(b))
      BY DEF LastBytes
    <2>1c. Len(near) = l + n /\ Len(all) = total
      BY <1>3, <1>5
    <2>1d. LastBytes(near, 3) = u
      <3> DEFINE size == l + n
      <3>1. Len(near) = size /\ u = SubSeq(near, IF size < 3 THEN 1 ELSE size - 3 + 1, size)
        BY <1>1, <2>1c
      <3>2. LastBytes(near, 3)
              = SubSeq(near, IF Len(near) < 3 THEN 1 ELSE Len(near) - 3 + 1, Len(near))
        BY <2>1b
      <3> HIDE DEF size, u
      <3> QED
        BY <3>1, <3>2
    <2>1e. LastBytes(all, 3) = v
      BY <2>1b, <2>1c
    <2>2. NextTail(near) = u /\ LastBytes(all, 3) = v
      BY <2>1a, <2>1d, <2>1e
    <2>3. total = l + n + d /\ at = from + d /\ from \in 1..(l + n + 1) /\ at \in 1..(total + 1)
      BY <1>1
    <2>4. /\ u \in Seq(Byte) /\ Len(u) = l + n - from + 1
          /\ \A i \in 1..(l + n - from + 1) : u[i] = near[from + i - 1]
      <3> DEFINE size == l + n
      <3> HIDE DEF from, at, total
      <3>1. size = Len(near) /\ size \in Nat /\ from \in 1..(size + 1)
        BY <1>1, <1>5, <2>3
      <3> HIDE DEF size
      <3>2. from \in 1..(Len(near) + 1) /\ size \in (from - 1)..Len(near)
        BY <3>1
      <3> DEFINE x == SubSeq(near, from, size)
      <3>3. /\ x \in Seq(Byte)
            /\ Len(x) = IF from <= size THEN size - from + 1 ELSE 0
            /\ \A i \in 1..(size - from + 1) : x[i] = near[from + i - 1]
        BY <1>5, <3>2, SubSeqProperties
      <3> HIDE DEF x
      <3>4. Len(x) = size - from + 1
        BY <3>1, <3>3
      <3>5. u = x
        BY DEF x, size
      <3> HIDE DEF u
      <3>6. /\ u \in Seq(Byte) /\ Len(u) = size - from + 1
            /\ \A i \in 1..(size - from + 1) : u[i] = near[from + i - 1]
        BY <3>3, <3>4, <3>5
      <3> QED
        BY <1>1, <2>3, <3>6 DEF size
    <2>5. /\ v \in Seq(Byte) /\ Len(v) = total - at + 1
          /\ \A i \in 1..(total - at + 1) : v[i] = all[at + i - 1]
      <3>1. total = Len(all) /\ total \in Nat
        BY <1>1, <1>3
      <3> HIDE DEF from, at, total
      <3> QED
        BY <1>3, <2>3, <3>1
    <2> HIDE DEF u, v, from, at, total
    <2>6. \A i \in 1..(l + n - from + 1) : u[i] = v[i]
      <3> TAKE i \in 1..(l + n - from + 1)
      <3>1. i \in 1..(total - at + 1) /\ from + i - 1 \in 1..(l + n)
            /\ (from + i - 1) + d = at + i - 1
        BY <1>1, <2>3
      <3>2. near[from + i - 1] = all[(from + i - 1) + d]
        BY <1>6, <3>1
      <3>3. u[i] = near[from + i - 1] /\ v[i] = all[at + i - 1]
        BY <2>4, <2>5, <3>1
      <3> QED
        BY <3>1, <3>2, <3>3
    <2>7. Len(u) = Len(v)
      BY <1>1, <2>3, <2>4, <2>5
    <2>8. u = v
      BY <2>4, <2>5, <2>6, <2>7, SeqEqual
    <2> QED
      BY <2>2, <2>8
  <1> QED
    BY <1>8, <1>9, <1>10 DEF m, all, near

-----------------------------------------------------------------------------
(* The chunk a position of the stream lies in.                             *)

StreamTo(chunks, n)   == Len(FlattenSeq(SubSeq(chunks, 1, n)))
Within(chunks, p, n)  == StreamTo(chunks, n - 1) < p /\ p <= StreamTo(chunks, n)
Place(chunks, p)      == CHOOSE n \in 1..Len(chunks) : Within(chunks, p, n)

(* Every position of the stream lies in exactly one chunk.                 *)
OnlyWithin(chunks, p, n) ==
    \A m \in 1..Len(chunks) : Within(chunks, p, m) <=> m = n

Located(chunks) ==
    /\ \A n \in 0..Len(chunks) :
          StreamTo(chunks, n) \in Nat /\ StreamTo(chunks, n) <= Len(FlattenSeq(chunks))
    /\ \A p \in 1..Len(FlattenSeq(chunks)) : \E n \in 1..Len(chunks) : OnlyWithin(chunks, p, n)

LEMMA PlaceIs ==
    ASSUME NEW chunks, NEW p, NEW n \in 1..Len(chunks), OnlyWithin(chunks, p, n)
    PROVE  Place(chunks, p) = n
  <1>1. \A m \in 1..Len(chunks) : Within(chunks, p, m) <=> m = n
    BY DEF OnlyWithin
  <1> QED
    BY <1>1 DEF Place

LEMMA LocatedEmpty == Located(<<>>)
  <1>1. FlattenSeq(<<>>) = <<>>
    BY DEF FlattenSeq
  <1>2. \A n \in 0..Len(<<>>) : SubSeq(<<>>, 1, n) = <<>>
    OBVIOUS
  <1>3. \A n \in 0..Len(<<>>) : StreamTo(<<>>, n) = Len(<<>>)
    BY <1>1, <1>2 DEF StreamTo
  <1> QED
    BY <1>1, <1>3 DEF Located

(* What one more chunk does to the places of the stream.                   *)
PlacedMore(chunks, more) ==
    /\ Located(more)
    /\ \A p \in 1..Len(FlattenSeq(chunks)) :
          Place(more, p) = Place(chunks, p) /\ Place(chunks, p) \in 1..Len(chunks)
    /\ \A p \in (Len(FlattenSeq(chunks)) + 1)..Len(FlattenSeq(more)) :
          Place(more, p) = Len(chunks) + 1

LEMMA LocatedMore ==
    ASSUME NEW chunks \in Seq(Chunks), Located(chunks), NEW chunk \in Chunks
    PROVE  PlacedMore(chunks, Append(chunks, chunk))
  <1> SUFFICES ASSUME NEW more, more = Append(chunks, chunk)
               PROVE  PlacedMore(chunks, more)
    OBVIOUS
  <1> DEFINE n == Len(chunks)
             seen == FlattenSeq(chunks)
             all == FlattenSeq(more)
             s == Len(seen)
             a == Len(all)
  <1>1. n \in Nat /\ Len(more) = n + 1 /\ more \in Seq(Chunks)
    OBVIOUS
  <1>2. seen \in Seq(Byte) /\ all = seen \o chunk /\ chunk \in Seq(Byte) /\ chunk # <<>>
    BY StreamMore, ChunkIsBytes
  <1>3. s \in Nat /\ a \in Nat /\ s < a
    <2> HIDE DEF seen, all
    <2> QED
      BY <1>2
  <1>4. \A m \in 0..n : StreamTo(more, m) = StreamTo(chunks, m)
    <2> TAKE m \in 0..n
    <2>1. SubSeq(more, 1, m) = SubSeq(chunks, 1, m)
      <3> DEFINE x == SubSeq(more, 1, m)
                 y == SubSeq(chunks, 1, m)
      <3>0. \A i \in 1..n : more[i] = chunks[i]
        OBVIOUS
      <3>1. x \in Seq(Chunks) /\ Len(x) = m /\ \A i \in 1..m : x[i] = more[i]
        <4>1. more \in Seq(Chunks) /\ m \in 0..Len(more)
          BY <1>1
        <4> HIDE DEF n
        <4> QED
          BY <1>1, <4>1
      <3>2. y \in Seq(Chunks) /\ Len(y) = m /\ \A i \in 1..m : y[i] = chunks[i]
        OBVIOUS
      <3>3. \A i \in 1..m : x[i] = y[i]
        <4> TAKE i \in 1..m
        <4>1. i \in 1..n
          BY <1>1
        <4> HIDE DEF x, y, n
        <4> QED
          BY <3>0, <3>1, <3>2, <4>1
      <3> HIDE DEF x, y
      <3>4. x = y
        BY <3>1, <3>2, <3>3, SeqEqual
      <3> QED
        BY <3>4 DEF x, y
    <2> QED
      BY <2>1 DEF StreamTo
  <1>5. StreamTo(more, n + 1) = a /\ StreamTo(chunks, n) = s
    <2>1. SubSeq(chunks, 1, n) = chunks
      OBVIOUS
    <2>2. SubSeq(more, 1, n + 1) = more
      <3>1. SubSeq(more, 1, Len(more)) = more
        BY <1>1
      <3> QED
        BY <1>1, <3>1
    <2> QED
      BY <2>1, <2>2 DEF StreamTo
  <1>6. \A m \in 0..n : StreamTo(chunks, m) \in Nat /\ StreamTo(chunks, m) <= s
    BY DEF Located
  <1> HIDE DEF n, seen, all, s, a
  <1>7. \A m \in 0..(n + 1) : StreamTo(more, m) \in Nat /\ StreamTo(more, m) <= a
    <2> TAKE m \in 0..(n + 1)
    <2>1. m \in 0..n \/ m = n + 1
      BY <1>1
    <2> QED
      BY <1>3, <1>4, <1>5, <1>6, <2>1
  <1>8. \A p : \A m \in 1..n : Within(more, p, m) <=> Within(chunks, p, m)
    <2> TAKE p
    <2> TAKE m \in 1..n
    <2>1. m \in 0..n /\ m - 1 \in 0..n
      BY <1>1
    <2> QED
      BY <1>4, <2>1 DEF Within
  <1>9. \A p \in 1..s : ~Within(more, p, n + 1)
    <2>1. (n + 1) - 1 = n /\ n \in 0..n
      BY <1>1
    <2>2. StreamTo(more, (n + 1) - 1) = s
      BY <1>4, <1>5, <2>1
    <2> QED
      BY <1>3, <2>2 DEF Within
  <1>10. \A m \in 1..(n + 1) : m \in 1..n \/ m = n + 1
    BY <1>1
  <1>11. ASSUME NEW p \in 1..s
         PROVE  \E m \in 1..n : OnlyWithin(chunks, p, m) /\ OnlyWithin(more, p, m)
    <2>1. PICK m \in 1..n : OnlyWithin(chunks, p, m)
      BY DEF Located, n, s, seen
    <2>2. n + 1 # m
      BY <1>1
    <2>3. \A k \in 1..n : Within(chunks, p, k) <=> k = m
      BY <2>1 DEF OnlyWithin, n
    <2>4. \A k \in 1..(n + 1) : Within(more, p, k) <=> k = m
      BY <1>8, <1>9, <1>10, <2>2, <2>3
    <2> QED
      BY <1>1, <2>1, <2>4 DEF OnlyWithin
  <1>12. ASSUME NEW p \in (s + 1)..a
         PROVE  OnlyWithin(more, p, n + 1)
    <2>1. Within(more, p, n + 1)
      <3>1. (n + 1) - 1 = n /\ n \in 0..n
        BY <1>1
      <3>2. StreamTo(more, (n + 1) - 1) = s /\ StreamTo(more, n + 1) = a
        BY <1>4, <1>5, <3>1
      <3> QED
        BY <1>3, <3>2 DEF Within
    <2>2. \A m \in 1..n : ~Within(more, p, m) /\ m # n + 1
      <3> TAKE m \in 1..n
      <3>1. m \in 0..n /\ m # n + 1
        BY <1>1
      <3>2. StreamTo(chunks, m) \in Nat /\ StreamTo(chunks, m) <= s
        BY <1>6, <3>1
      <3>3. ~(p <= StreamTo(chunks, m))
        BY <1>3, <3>2
      <3> QED
        BY <1>8, <3>1, <3>3 DEF Within
    <2>3. \A m \in 1..(n + 1) : Within(more, p, m) <=> m = n + 1
      BY <1>10, <2>1, <2>2
    <2> QED
      BY <1>1, <2>3 DEF OnlyWithin
  <1>13. Located(more)
    <2>1. \A p \in 1..a : p \in 1..s \/ p \in (s + 1)..a
      BY <1>3
    <2>2. \A m \in 1..n : m \in 1..(n + 1)
      BY <1>1
    <2>3. n + 1 \in 1..(n + 1)
      BY <1>1
    <2>4. \A p \in 1..a : \E m \in 1..(n + 1) : OnlyWithin(more, p, m)
      BY <1>11, <1>12, <2>1, <2>2, <2>3
    <2> QED
      BY <1>1, <1>7, <2>4 DEF Located, a, all
  <1>14. \A p \in 1..s : Place(more, p) = Place(chunks, p) /\ Place(chunks, p) \in 1..n
    <2> TAKE p \in 1..s
    <2>1. PICK m \in 1..n : OnlyWithin(chunks, p, m) /\ OnlyWithin(more, p, m)
      BY <1>11
    <2>2. m \in 1..Len(more) /\ m \in 1..Len(chunks)
      BY <1>1 DEF n
    <2>3. Place(chunks, p) = m /\ Place(more, p) = m
      BY <2>1, <2>2, PlaceIs
    <2> QED
      BY <2>3
  <1>15. \A p \in (s + 1)..a : Place(more, p) = n + 1
    <2>1. n + 1 \in 1..Len(more)
      BY <1>1
    <2> QED
      BY <1>12, <2>1, PlaceIs
  <1> QED
    BY <1>13, <1>14, <1>15 DEF PlacedMore, n, s, a, seen, all

-----------------------------------------------------------------------------
(* The child was answered once for each chunk that completes a query.      *)

AnswerPlaces(chunks) == {Place(chunks, p) : p \in Ends(FlattenSeq(chunks))}

Answering ==
    /\ answers \in Seq(Nat)
    /\ tail = LastBytes(FlattenSeq(delivered), 3)
    /\ Located(delivered)
    /\ phase # "done" => /\ Range(answers) = AnswerPlaces(delivered)
                         /\ Range(answers) \subseteq 1..Len(delivered)
                         /\ Len(answers) = Cardinality(Range(answers))

LEMMA InitAnswering == Init => Answering
  <1> SUFFICES ASSUME Init PROVE Answering
    OBVIOUS
  <1>1. delivered = <<>> /\ answers = <<>> /\ tail = <<>>
    BY DEF Init
  <1>2. FlattenSeq(<<>>) = <<>>
    BY DEF FlattenSeq
  <1>3. LastBytes(<<>>, 3) = <<>>
    BY DEF LastBytes
  <1>4. Range(<<>>) = {} /\ Cardinality({}) = 0 /\ Len(<<>>) = 0
    BY FS_EmptySet DEF Range
  <1>5. AnswerPlaces(<<>>) = {}
    BY <1>2 DEF AnswerPlaces, Ends
  <1>6. answers \in Seq(Nat)
    BY <1>1
  <1> QED
    BY <1>1, <1>2, <1>3, <1>4, <1>5, <1>6, LocatedEmpty DEF Answering

LEMMA AnsweringOutput ==
    ASSUME Typed, Answering, NEW chunk \in Chunks, Output(chunk)
    PROVE  Answering'
  <1> DEFINE n == Len(delivered)
             more == Append(delivered, chunk)
             seen == FlattenSeq(delivered)
             all == FlattenSeq(more)
             answered == Completes(tail \o chunk)
  <1>1. /\ phase = "running" /\ delivered' = more /\ tail' = NextTail(tail \o chunk)
        /\ \/ answers' = Append(answers, n + 1) /\ answered
           \/ answers' = answers /\ ~answered
           \/ answers' = answers /\ answered /\ phase' = "done"
    BY DEF Output, Running, Fail
  <1>2. delivered \in Seq(Chunks) /\ n \in Nat /\ chunk \in Seq(Byte) /\ Len(more) = n + 1
    BY ChunkIsBytes DEF Typed, TypeOK
  <1>3. seen \in Seq(Byte) /\ all = seen \o chunk
    BY <1>2, StreamMore
  <1>4. /\ Located(more)
        /\ \A p \in 1..Len(seen) :
              Place(more, p) = Place(delivered, p) /\ Place(delivered, p) \in 1..n
        /\ \A p \in (Len(seen) + 1)..Len(all) : Place(more, p) = n + 1
    <2>1. Located(delivered)
      BY DEF Answering
    <2>2. delivered \in Seq(Chunks)
      BY <1>2
    <2>3. PlacedMore(delivered, Append(delivered, chunk))
      BY <2>1, <2>2, LocatedMore
    <2> QED
      BY <2>3 DEF PlacedMore
  <1>5. tail = LastBytes(seen, 3)
    BY DEF Answering
  <1>6. /\ Ends(seen) = {p \in Ends(all) : p <= Len(seen)}
        /\ answered <=> \E p \in Ends(all) : p > Len(seen)
        /\ tail' = LastBytes(all, 3)
    BY <1>1, <1>2, <1>3, <1>5, EndsMore
  <1>7. /\ answers \in Seq(Nat) /\ Range(answers) = {Place(delivered, p) : p \in Ends(seen)}
        /\ Range(answers) \subseteq 1..n /\ Len(answers) = Cardinality(Range(answers))
    BY <1>1 DEF Answering, AnswerPlaces
  <1>8. Len(seen) \in Nat /\ Len(all) \in Nat
    <2> HIDE DEF seen
    <2> QED
      BY <1>2, <1>3
  <1>9. answered \in BOOLEAN
    BY DEF Completes
  <1> HIDE DEF n, more, seen, all, answered
  <1>10. {Place(more, p) : p \in Ends(all)} = Range(answers) \cup (IF answered THEN {n + 1} ELSE {})
    <2>1. \A p \in Ends(seen) : p \in Ends(all) /\ Place(more, p) = Place(delivered, p)
      <3> TAKE p \in Ends(seen)
      <3>1. p \in 1..Len(seen)
        BY <1>8 DEF Ends
      <3> QED
        BY <1>4, <1>6, <3>1
    <2>2. \A p \in Ends(all) : p > Len(seen) => Place(more, p) = n + 1
      <3> TAKE p \in Ends(all)
      <3>1. p > Len(seen) => p \in (Len(seen) + 1)..Len(all)
        BY <1>8 DEF Ends
      <3> QED
        BY <1>4, <3>1
    <2>3. \A p \in Ends(all) : p \in Ends(seen) \/ p > Len(seen)
      <3> TAKE p \in Ends(all)
      <3>1. p <= Len(seen) \/ p > Len(seen)
        BY <1>8 DEF Ends
      <3> QED
        BY <1>6, <3>1
    <2> QED
      BY <1>6, <1>7, <2>1, <2>2, <2>3
  <1>11. answers' \in Seq(Nat)
    <2>1. answers' = Append(answers, n + 1) \/ answers' = answers
      BY <1>1
    <2>2. n + 1 \in Nat /\ answers \in Seq(Nat)
      BY <1>2, <1>7
    <2> QED
      BY <2>1, <2>2
  <1>12. ASSUME phase' # "done"
         PROVE  /\ Range(answers') = {Place(more, p) : p \in Ends(all)}
                /\ Range(answers') \subseteq 1..(n + 1)
                /\ Len(answers') = Cardinality(Range(answers'))
    <2>1. CASE answered
      <3>1. answers' = Append(answers, n + 1)
        BY <1>1, <1>12, <2>1
      <3>2. Range(Append(answers, n + 1)) = Range(answers) \cup {n + 1}
        BY <1>2, <1>7, RangeMore
      <3>3. Cardinality(Range(answers) \cup {n + 1}) = Cardinality(Range(answers)) + 1
        BY <1>2, <1>7, CountMore
      <3>4. Len(Append(answers, n + 1)) = Len(answers) + 1
        BY <1>2, <1>7
      <3>5. Range(answers) \cup {n + 1} \subseteq 1..(n + 1)
        <4>1. n + 1 \in 1..(n + 1) /\ \A k \in 1..n : k \in 1..(n + 1)
          BY <1>2
        <4> QED
          BY <1>7, <4>1
      <3> QED
        BY <1>7, <1>10, <2>1, <3>1, <3>2, <3>3, <3>4, <3>5
    <2>2. CASE ~answered
      <3>1. answers' = answers
        BY <1>1, <2>2
      <3>2. Range(answers) \subseteq 1..(n + 1)
        <4>1. \A k \in 1..n : k \in 1..(n + 1)
          BY <1>2
        <4> QED
          BY <1>7, <4>1
      <3> QED
        BY <1>7, <1>10, <2>2, <3>1, <3>2
    <2> QED
      BY <1>9, <2>1, <2>2
  <1> QED
    BY <1>1, <1>2, <1>4, <1>6, <1>11, <1>12 DEF Answering, AnswerPlaces, all

LEMMA AnsweringStep == Typed /\ Answering /\ [Next]_vars => Answering'
  <1> SUFFICES ASSUME Typed, Answering, [Next]_vars
               PROVE  Answering'
    OBVIOUS
  <1>1. ASSUME UNCHANGED <<delivered, answers, tail>>, phase' # "done" => phase # "done"
        PROVE  Answering'
    BY <1>1 DEF Answering
  <1> USE DEF StreamSame, ResultSame
  <1>2. CASE RefuseRequest
    BY <1>1, <1>2 DEF RefuseRequest
  <1>3. CASE StartRun
    BY <1>1, <1>3 DEF StartRun
  <1>4. CASE ResizeSession
    BY <1>1, <1>4 DEF ResizeSession
  <1>5. CASE ProvideInput
    BY <1>1, <1>5 DEF ProvideInput
  <1>6. ASSUME NEW chunk \in Chunks, Output(chunk)
        PROVE  Answering'
    BY <1>6, AnsweringOutput
  <1>7. CASE Eof
    BY <1>1, <1>7 DEF Eof
  <1>8. CASE Exit
    BY <1>1, <1>8 DEF Exit
  <1>9. CASE Complete
    BY <1>1, <1>9 DEF Complete, Running
  <1>10. CASE Emit
    BY <1>1, <1>10 DEF Emit
  <1>11. CASE Save
    BY <1>1, <1>11 DEF Save
  <1>12. CASE UNCHANGED vars
    BY <1>1, <1>12 DEF vars
  <1>13. ASSUME NEW chunk \in Chunks, Panic(chunk)
         PROVE  Answering'
    BY <1>1, <1>13 DEF Panic
  <1> QED
    BY <1>2, <1>3, <1>4, <1>5, <1>6, <1>7, <1>8, <1>9, <1>10, <1>11, <1>12, <1>13 DEF Next, Done

(* While the run goes on, the child was sent one response for each chunk   *)
(* that completes a query, however queries are split (TerminalQueryResponder). *)
THEOREM QueriesAlwaysAnswered == Spec => []QueriesAnswered
  <1>1. Typed /\ Answering => QueriesAnswered
    <2> SUFFICES ASSUME Typed, Answering, Running
                 PROVE  QueriesAnswered
      BY DEF QueriesAnswered
    <2> DEFINE stream == FlattenSeq(delivered)
    <2>1. /\ Range(answers) = AnswerPlaces(delivered)
          /\ Len(answers) = Cardinality(Range(answers))
      BY DEF Answering, Running
    <2>2. {p \in Len(Query)..Len(stream) : AtEnd(stream, p)} = Ends(stream)
      <3>1. Len(Query) = 4
        BY DEF Query
      <3> QED
        BY <3>1 DEF Ends
    <2>3. \A p : ChunkAt(p) = Place(delivered, p)
      BY DEF ChunkAt, BytesOf, Place, Within, StreamTo
    <2> QED
      BY <2>1, <2>2, <2>3 DEF QueriesAnswered, AnswerPlaces
  <1>2. Spec => []Typed
    BY AlwaysSized, PTL
  <1>3. Spec => []Answering
    <2>1. Init => Answering
      BY InitAnswering
    <2>2. Typed /\ Answering /\ [Next]_vars => Answering'
      BY AnsweringStep
    <2> QED
      BY <1>2, <2>1, <2>2, PTL DEF Spec
  <1> QED
    BY <1>1, <1>2, <1>3, PTL

=============================================================================
