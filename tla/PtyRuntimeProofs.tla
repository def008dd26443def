-------------------------- MODULE PtyRuntimeProofs --------------------------
(***************************************************************************)
(* Proofs about PtyRuntime for every number of chunks, writes and runs,    *)
(* every channel capacity and tick length, and every set of faults: the    *)
(* inductive invariant and what follows from it; then, each with a part of *)
(* its own added to it, what a run does after its deadline, in which order *)
(* writes reach the PTY, what a run that completes has seen; and the       *)
(* refinement of PtyEventStream.                                           *)
(***************************************************************************)
EXTENDS PtyRuntime, TLAPS

-----------------------------------------------------------------------------
(* The inductive invariant, in parts.                                      *)

(* The runner is in a tick, or will be once its response is written.       *)
NeedsLeft ==
    \/ pc \in TickPcs \cup {"poll_exit"}
    \/ pc \in WritePcs /\ ret \in {"tick_exit", "poll_exit"}

(* What TypeOK needs of the step before: a message in hand is one the      *)
(* channel carries, writes have numbers within WriteIds, and a tick that   *)
(* receives has an iteration left.                                         *)
Counts ==
    /\ reader.pc = "send" => reader.msg \in Envelopes
    /\ writer.pc = "writing" => writer.id \in WriteIds
    /\ writes <= MaxWrites + Len(delivered)
    /\ pc \in WritePcs => writes >= 1
    /\ NeedsLeft => left >= 1

(* The chunks delivered, in the channel and in the reader's hand are       *)
(* numbered one after the other, and what is not a chunk is the last       *)
(* message of a reader that has stopped reading.                           *)
InFlight ==
    /\ \A i \in DOMAIN chan :
         \/ chan[i] = Output(Len(delivered) + i)
         \/ /\ chan[i] \in {Eof, ReadError}
            /\ i = Len(chan) /\ reader.pc \in {"ending", "done"}
    /\ reader.pc = "read" => readCount = Len(delivered) + Len(chan)
    /\ reader.pc = "send" =>
         \/ /\ reader.msg = Output(readCount)
            /\ readCount = Len(delivered) + Len(chan) + 1
         \/ reader.msg \in {Eof, ReadError}

StreamInv == OutputInOrder /\ InFlight

(* The exit status travels from the wait thread through pending_exit to    *)
(* the callback and is in one place at a time.                             *)
ExitInv ==
    /\ ExitOnce
    /\ waiter = "exit" \/ pendingExit => child = "exited"
    /\ waiter # "taken" \/ pendingExit => exits = 0
    /\ pendingExit => waiter = "taken"

(* The runner closes when it takes the exit or kills, and shuts the        *)
(* writer's input with it.                                                 *)
CloseInv ==
    /\ closed => ~writerOpen
    /\ closed \/ pc = "dropped" =>
         kills # "none" \/ (waiter = "taken" /\ child = "exited")

IInv == TypeOK /\ Counts /\ StreamInv /\ ExitInv /\ CloseInv

-----------------------------------------------------------------------------
(* Every step of the specification is one of its actions.                  *)

LEMMA Steps ==
    ASSUME [Next]_vars
    PROVE  \/ ObserveExit("tick_exit", "tick_deadline")
           \/ ObserveExit("post_exit", "post_check")
           \/ ObserveExit("poll_exit", "tick_exit")
           \/ TickDeadline \/ TickReceives \/ PostCheck \/ Join \/ PollReceives
           \/ WriteSends \/ WriteAnswered \/ WriteTimesOut
           \/ ReadOutput \/ ReadZero \/ ReadFails
           \/ ReaderSends \/ ReaderSendFails \/ ReaderEnds
           \/ WriterReceives \/ WriterDisconnected \/ WriterWrites \/ WriterFails
           \/ WaiterReportsExit \/ WaiterFails
           \/ WriteInput \/ CloseInput \/ RunUntilExit \/ Drop
           \/ TtyWrites \/ ChildExits \/ TtyHangsUp
           \/ CommandDeadline \/ DrainDeadline
           \/ UNCHANGED vars
  BY Zenon DEF Next, RunnerStep, RunLoop, ReaderStep, WriterStep, WaiterStep,
               Caller, Environment

LEMMA InitInv == Init => IInv
  <1> SUFFICES ASSUME Init PROVE IInv
    OBVIOUS
  <1> USE RuntimeAssumption DEF Init, NoMessage
  <1>1. TypeOK
    <2>1. reader \in [pc : ReaderPcs, msg : Envelopes \cup {NoMessage}]
      BY DEF ReaderPcs
    <2>2. chan \in Seq(Envelopes) /\ Len(chan) <= EventCapacity
      OBVIOUS
    <2>3. writer \in [pc : WriterPcs, id : WriteIds \cup {0}]
      BY DEF WriterPcs
    <2>4. /\ writeQueue \in Seq([kind : {"write"}, id : WriteIds] \cup {Close})
          /\ Len(writeQueue) <= 1
      OBVIOUS
    <2>5. ptyInput \in Seq(WriteIds) /\ delivered \in Seq(1..Chunks)
      OBVIOUS
    <2>6. /\ written \in 0..Chunks /\ readCount \in 0..Chunks
          /\ runs \in 0..MaxRuns /\ left \in 0..EventsPerTick /\ writes \in Nat
          /\ eofs \in Nat /\ exits \in Nat /\ late \in Nat
      OBVIOUS
    <2>7. /\ child \in {"running", "exited"} /\ ttyOpen \in BOOLEAN
          /\ eofSeen \in BOOLEAN /\ writerOpen \in BOOLEAN
          /\ reply \in {"none", "write_ok", "write_error"}
          /\ waiter \in {"waiting", "exit", "error", "taken"}
          /\ pc \in {"idle", "dropped", "join"} \cup LoopPcs \cup WritePcs
          /\ ret \in {"idle", "post_exit", "tick_exit", "poll_exit"}
      OBVIOUS
    <2>8. /\ closed \in BOOLEAN /\ pendingExit \in BOOLEAN
          /\ kills \in {"none", "ok", "failed"}
          /\ exit \in BOOLEAN /\ sawEof \in BOOLEAN
          /\ cmdDue \in BOOLEAN /\ drainDue \in BOOLEAN
          /\ result \in Results
      BY DEF Results
    <2> HIDE DEF Init
    <2> QED
      BY <2>1, <2>2, <2>3, <2>4, <2>5, <2>6, <2>7, <2>8 DEF TypeOK
  <1>2. Counts
    BY DEF Counts, NeedsLeft, TickPcs, WritePcs
  <1>3. StreamInv
    BY DEF StreamInv, OutputInOrder, InFlight
  <1>4. ExitInv /\ CloseInv
    BY DEF ExitInv, ExitOnce, CloseInv
  <1> QED
    BY <1>1, <1>2, <1>3, <1>4 DEF IInv

LEMMA ExitStep == IInv /\ [Next]_vars => ExitInv' /\ CloseInv'
  <1> SUFFICES ASSUME TypeOK, ExitInv, CloseInv, [Next]_vars
               PROVE  ExitInv' /\ CloseInv'
    BY DEF IInv
  <1> USE DEF TypeOK, ExitInv, ExitOnce, CloseInv, ptyVars, readerVars, writerVars,
              callVars, sessionVars, runVars, timerVars, eventVars, vars,
              RefreshFails, RefreshFinds, RefreshTakes, CloseWriter, Return,
              StartWrite
  <1>1. ASSUME NEW at, NEW next, ObserveExit(at, next),
               next \in {"tick_deadline", "post_check", "tick_exit"}
        PROVE  ExitInv' /\ CloseInv'
    BY <1>1 DEF ObserveExit, loopRest
  <1>2. CASE TickDeadline
    BY <1>2 DEF TickDeadline, TimesOut, Kill, loopRest
  <1>3. CASE PostCheck
    BY <1>3 DEF PostCheck, TimesOut, Kill, loopRest
  <1>4. CASE TickReceives
    BY <1>4 DEF TickReceives, Receive, DeliverOutput, DeliverEof, Callback, loopRest
  <1>5. CASE PollReceives
    BY <1>5 DEF PollReceives, Receive, DeliverOutput, DeliverEof, Callback, loopRest
  <1>6. CASE Join \/ WriteSends \/ WriteAnswered \/ WriteTimesOut
    BY <1>6 DEF Join, WriteSends, WriteAnswered, WriteTimesOut, writeRest, loopRest
  <1>7. CASE ReadOutput \/ ReadZero \/ ReadFails \/ ReaderSends
             \/ ReaderSendFails \/ ReaderEnds
    BY <1>7 DEF ReadOutput, ReadZero, ReadFails, ReaderSends, ReaderSendFails,
                ReaderEnds, readerRest
  <1>8. CASE WriterReceives \/ WriterDisconnected \/ WriterWrites \/ WriterFails
    BY <1>8 DEF WriterReceives, WriterDisconnected, WriterWrites, WriterFails,
                Answer, writerRest
  <1>9. CASE WaiterReportsExit \/ WaiterFails
    BY <1>9 DEF WaiterReportsExit, WaiterFails, waiterRest
  <1>10. CASE WriteInput
    BY <1>10 DEF WriteInput
  <1>11. CASE CloseInput \/ RunUntilExit
    BY <1>11 DEF CloseInput, RunUntilExit
  <1>12. CASE Drop
    BY <1>12 DEF Drop, Kill
  <1>13. CASE TtyWrites \/ ChildExits \/ TtyHangsUp \/ CommandDeadline
              \/ DrainDeadline
    BY <1>13 DEF TtyWrites, ChildExits, TtyHangsUp, CommandDeadline, DrainDeadline,
                 runnerVars
  <1>14. CASE UNCHANGED vars
    BY <1>14
  <1> HIDE DEF TypeOK, ExitInv, ExitOnce, CloseInv, vars
  <1> QED
    BY Steps, <1>1, <1>2, <1>3, <1>4, <1>5, <1>6, <1>7, <1>8, <1>9, <1>10,
       <1>11, <1>12, <1>13, <1>14

(* A sequence that counts from 1 keeps counting when the next number is    *)
(* appended, and its elements bound its length.                            *)
LEMMA Counting ==
    ASSUME NEW N \in Nat, NEW s \in Seq(1..N), \A i \in DOMAIN s : s[i] = i
    PROVE  /\ Len(s) \in 0..N
           /\ LET t == Append(s, Len(s) + 1) IN
              /\ Len(t) = Len(s) + 1
              /\ \A i \in DOMAIN t : t[i] = i
  <1>1. Len(s) \in Nat /\ DOMAIN s = 1..Len(s)
    OBVIOUS
  <1>2. Len(s) # 0 => s[Len(s)] \in 1..N /\ s[Len(s)] = Len(s)
    BY <1>1
  <1> DEFINE t == Append(s, Len(s) + 1)
  <1>3. Len(t) = Len(s) + 1 /\ DOMAIN t = 1..Len(s) + 1
    BY <1>1
  <1>4. ASSUME NEW i \in 1..Len(s) + 1 PROVE t[i] = i
    BY <1>1
  <1> QED
    BY <1>1, <1>2, <1>3, <1>4

(* What Tail does, element by element.                                     *)
LEMMA Shift ==
    ASSUME NEW S, NEW s \in Seq(S), s # <<>>
    PROVE  /\ Len(s) \in Nat \ {0} /\ Len(Tail(s)) = Len(s) - 1
           /\ Tail(s) \in Seq(S) /\ Head(s) = s[1] /\ Head(s) \in S
           /\ DOMAIN Tail(s) = 1..Len(s) - 1
           /\ \A i \in 1..Len(s) - 1 : Tail(s)[i] = s[i + 1]
  OBVIOUS

(* The chunks delivered are 1, 2 and so on, so there are at most Chunks.   *)
LEMMA DeliveredBound ==
    ASSUME TypeOK, OutputInOrder
    PROVE  Len(delivered) \in 0..Chunks
  <1>1. delivered \in Seq(1..Chunks)
    BY DEF TypeOK
  <1> QED
    BY <1>1, Counting, RuntimeAssumption DEF OutputInOrder

LEMMA StreamStep == IInv /\ [Next]_vars => StreamInv'
  <1> SUFFICES ASSUME TypeOK, Counts, StreamInv, [Next]_vars
               PROVE  StreamInv'
    BY DEF IInv
  <1>0. /\ chan \in Seq(Envelopes) /\ delivered \in Seq(1..Chunks)
        /\ readCount \in Nat /\ Len(delivered) \in Nat
        /\ reader \in [pc : ReaderPcs, msg : Envelopes \cup {NoMessage}]
    BY RuntimeAssumption DEF TypeOK
  <1> USE DEF StreamInv, OutputInOrder, InFlight, vars
  <1>1. CASE UNCHANGED <<reader, readCount, chan, delivered>>
    BY <1>1
  <1>2. CASE ReadOutput
    <2>1. /\ UNCHANGED <<chan, delivered>> /\ reader.pc = "read"
          /\ reader' = [pc |-> "send", msg |-> Output(readCount + 1)]
          /\ readCount' = readCount + 1
      BY <1>2 DEF ReadOutput, InHand, readerRest
    <2> QED
      BY <2>1 DEF TypeOK
  <1>3. CASE ReadZero \/ ReadFails
    <2>1. /\ UNCHANGED <<chan, delivered, readCount>> /\ reader.pc = "read"
          /\ reader' \in {[pc |-> "send", msg |-> Eof],
                         [pc |-> "send", msg |-> ReadError]}
      BY <1>3 DEF ReadZero, ReadFails, InHand, readerRest
    <2> QED
      BY <2>1
  <1>4. CASE ReaderSends
    <2>1. /\ chan' = Append(chan, reader.msg) /\ UNCHANGED <<delivered, readCount>>
          /\ reader.pc = "send" /\ reader.msg \in Envelopes
          /\ reader'.pc = IF reader.msg.kind = "output" THEN "read" ELSE "ending"
      BY <1>4 DEF ReaderSends, readerRest, TypeOK, Counts
    <2>2. /\ Len(chan') = Len(chan) + 1 /\ chan'[Len(chan')] = reader.msg
          /\ \A i \in 1..Len(chan) : chan'[i] = chan[i]
          /\ DOMAIN chan' = 1..Len(chan) + 1 /\ Len(chan) \in Nat
      BY <2>1 DEF TypeOK
    <2>3. \A i \in 1..Len(chan) : chan[i] = Output(Len(delivered) + i)
      BY <2>1 DEF TypeOK
    <2>4. CASE reader.msg = Output(readCount)
      <3>1. reader'.pc = "read" /\ reader.msg = Output(Len(delivered) + Len(chan) + 1)
        BY <2>1, <2>4 DEF Output, Eof, ReadError
      <3>2. readCount' = Len(delivered') + Len(chan')
        BY <2>1, <2>2, <2>4 DEF TypeOK, Output, Eof, ReadError
      <3>3. OutputInOrder'
        BY <2>1
      <3>4. ASSUME NEW i \in 1..Len(chan) + 1
            PROVE  chan'[i] = Output(Len(delivered') + i)
        <4>1. CASE i = Len(chan) + 1
          BY <1>0, <2>1, <2>2, <3>1, <4>1
        <4>2. CASE i \in 1..Len(chan)
          BY <2>1, <2>2, <2>3, <4>2
        <4> QED
          BY <2>2, <4>1, <4>2
      <3> HIDE DEF OutputInOrder
      <3> QED
        BY <2>2, <3>1, <3>2, <3>3, <3>4
    <2>5. CASE reader.msg \in {Eof, ReadError}
      BY <2>1, <2>2, <2>3, <2>5 DEF Eof, ReadError
    <2> QED
      BY <2>1, <2>4, <2>5
  <1>5. CASE ReaderSendFails \/ ReaderEnds
    BY <1>5 DEF ReaderSendFails, ReaderEnds, readerRest, TypeOK
  <1>6. ASSUME NEW next, NEW none, Receive(next, none), UNCHANGED <<reader, readCount>>
        PROVE  StreamInv'
    <2>1. CASE UNCHANGED <<chan, delivered>>
      BY <2>1, <1>6
    <2>2. CASE /\ chan # <<>> /\ chan' = Tail(chan)
               /\ Head(chan).kind = "output"
               /\ delivered' = Append(delivered, Head(chan).n)
      <3>1. /\ Len(chan) \in Nat \ {0} /\ Len(chan') = Len(chan) - 1
            /\ \A i \in 1..Len(chan') : chan'[i] = chan[i + 1]
            /\ DOMAIN chan' = 1..Len(chan') /\ Head(chan) = chan[1]
            /\ 1 \in DOMAIN chan
        BY <1>0, <2>2, Shift
      <3>2. chan[1] = Output(Len(delivered) + 1)
        <4>1. chan[1] = Output(Len(delivered) + 1) \/ chan[1] \in {Eof, ReadError}
          BY <3>1
        <4>2. chan[1].kind = "output"
          BY <2>2, <3>1
        <4> QED
          BY <4>1, <4>2 DEF Eof, ReadError
      <3>3. delivered' = Append(delivered, Len(delivered) + 1)
        BY <2>2, <3>1, <3>2 DEF Output
      <3>4. OutputInOrder' /\ Len(delivered') = Len(delivered) + 1
        BY <1>0, <3>3, Counting, RuntimeAssumption
      <3>5. ASSUME NEW i \in 1..Len(chan')
            PROVE  \/ chan'[i] = Output(Len(delivered') + i)
                   \/ /\ chan'[i] \in {Eof, ReadError}
                      /\ i = Len(chan') /\ reader'.pc \in {"ending", "done"}
        <4>1. i + 1 \in DOMAIN chan /\ Len(delivered) + (i + 1) = Len(delivered') + i
          BY <1>0, <3>1, <3>4
        <4>2. \/ chan[i + 1] = Output(Len(delivered) + (i + 1))
              \/ /\ chan[i + 1] \in {Eof, ReadError}
                 /\ i + 1 = Len(chan) /\ reader.pc \in {"ending", "done"}
          BY <4>1
        <4>3. i + 1 = Len(chan) => i = Len(chan')
          BY <3>1
        <4> HIDE DEF InFlight, OutputInOrder
        <4> QED
          BY <1>6, <3>1, <4>1, <4>2, <4>3
      <3>6. reader'.pc = "read" => readCount' = Len(delivered') + Len(chan')
        BY <1>0, <1>6, <3>1, <3>4
      <3>7. reader'.pc = "send" =>
              \/ /\ reader'.msg = Output(readCount')
                 /\ readCount' = Len(delivered') + Len(chan') + 1
              \/ reader'.msg \in {Eof, ReadError}
        BY <1>0, <1>6, <3>1, <3>4
      <3> HIDE DEF OutputInOrder
      <3> QED
        BY <3>1, <3>4, <3>5, <3>6, <3>7
    <2>3. CASE /\ chan # <<>> /\ chan' = Tail(chan) /\ delivered' = delivered
               /\ Head(chan) \in {Eof, ReadError}
      <3>1. /\ Len(chan) \in Nat \ {0} /\ Len(chan') = Len(chan) - 1
            /\ DOMAIN chan' = 1..Len(chan') /\ chan[1] \in {Eof, ReadError}
            /\ 1 \in DOMAIN chan
        BY <1>0, <2>3, Shift
      <3>2. Len(chan) = 1 /\ reader.pc \in {"ending", "done"}
        BY <3>1 DEF Output, Eof, ReadError
      <3>3. DOMAIN chan' = {}
        BY <3>1, <3>2
      <3> QED
        BY <1>6, <2>3, <3>2, <3>3
    <2> QED
      BY <1>6, <2>1, <2>2, <2>3 DEF Receive, DeliverOutput, DeliverEof
  <1>7. CASE TickReceives \/ PollReceives
    BY <1>6, <1>7 DEF TickReceives, PollReceives, loopRest, readerVars
  <1>8. ASSUME NEW at, NEW next, ObserveExit(at, next)
        PROVE  StreamInv'
    BY <1>1, <1>8 DEF ObserveExit, loopRest, readerVars
  <1>9. CASE \/ TickDeadline \/ PostCheck \/ Join
             \/ WriteSends \/ WriteAnswered \/ WriteTimesOut
    BY <1>1, <1>9 DEF TickDeadline, PostCheck, Join, WriteSends, WriteAnswered,
                      WriteTimesOut, loopRest, writeRest, eventVars, readerVars
  <1>10. CASE \/ WriterReceives \/ WriterDisconnected \/ WriterWrites
              \/ WriterFails \/ WaiterReportsExit \/ WaiterFails
    BY <1>1, <1>10 DEF WriterReceives, WriterDisconnected, WriterWrites, WriterFails,
                       WaiterReportsExit, WaiterFails, writerRest, waiterRest,
                       eventVars, readerVars
  <1>11. CASE WriteInput \/ CloseInput \/ RunUntilExit \/ Drop
    BY <1>1, <1>11 DEF WriteInput, CloseInput, RunUntilExit, Drop, eventVars,
                       readerVars
  <1>12. CASE \/ TtyWrites \/ ChildExits \/ TtyHangsUp \/ CommandDeadline
              \/ DrainDeadline \/ UNCHANGED vars
    BY <1>1, <1>12 DEF TtyWrites, ChildExits, TtyHangsUp, CommandDeadline,
                       DrainDeadline, runnerVars, eventVars, readerVars
  <1> HIDE DEF StreamInv, OutputInOrder, InFlight, vars
  <1> QED
    BY Steps, <1>2, <1>3, <1>4, <1>5, <1>7, <1>8, <1>9, <1>10, <1>11, <1>12

(* TypeOK in four parts: the reader's side, the writer's side, the         *)
(* runner's control and its counters.                                      *)
ReaderTypes ==
    /\ child \in {"running", "exited"} /\ ttyOpen \in BOOLEAN
    /\ written \in 0..Chunks /\ readCount \in 0..Chunks
    /\ reader \in [pc : ReaderPcs, msg : Envelopes \cup {NoMessage}]
    /\ chan \in Seq(Envelopes) /\ Len(chan) <= EventCapacity
    /\ eofSeen \in BOOLEAN
    /\ delivered \in Seq(1..Chunks)

WriterTypes ==
    /\ writer \in [pc : WriterPcs, id : WriteIds \cup {0}]
    /\ writeQueue \in Seq([kind : {"write"}, id : WriteIds] \cup {Close})
    /\ Len(writeQueue) <= 1
    /\ writerOpen \in BOOLEAN
    /\ reply \in {"none", "write_ok", "write_error"}
    /\ ptyInput \in Seq(WriteIds)

ControlTypes ==
    /\ waiter \in {"waiting", "exit", "error", "taken"}
    /\ pc \in {"idle", "dropped", "join"} \cup LoopPcs \cup WritePcs
    /\ ret \in {"idle", "post_exit", "tick_exit", "poll_exit"}
    /\ closed \in BOOLEAN /\ pendingExit \in BOOLEAN
    /\ kills \in {"none", "ok", "failed"}
    /\ exit \in BOOLEAN /\ sawEof \in BOOLEAN
    /\ cmdDue \in BOOLEAN /\ drainDue \in BOOLEAN
    /\ result \in Results

CounterTypes ==
    /\ writes \in Nat /\ runs \in 0..MaxRuns
    /\ left \in 0..EventsPerTick
    /\ eofs \in Nat /\ exits \in Nat /\ late \in Nat

LEMMA TypeParts ==
    TypeOK <=> ReaderTypes /\ WriterTypes /\ ControlTypes /\ CounterTypes
  BY Zenon DEF TypeOK, ReaderTypes, WriterTypes, ControlTypes, CounterTypes

LEMMA ReaderTypesStep == IInv /\ [Next]_vars => ReaderTypes'
  <1> SUFFICES ASSUME ReaderTypes, Counts, [Next]_vars PROVE ReaderTypes'
    BY TypeParts DEF IInv
  <1> USE RuntimeAssumption
      DEF ReaderTypes, ptyVars, readerVars, writerVars, callVars, sessionVars,
          runVars, timerVars, eventVars, vars
  <1>1. CASE ReadOutput
    BY <1>1 DEF ReadOutput, InHand, readerRest, ReaderPcs, Envelopes, Output
  <1>2. CASE ReadZero \/ ReadFails
    BY <1>2 DEF ReadZero, ReadFails, InHand, readerRest, ReaderPcs, Envelopes
  <1>3. CASE ReaderSends
    BY <1>3 DEF ReaderSends, readerRest, ReaderPcs, Counts
  <1>4. CASE ReaderSendFails \/ ReaderEnds
    <2>1. UNCHANGED <<child, ttyOpen, written, readCount, chan, eofSeen, delivered>>
      BY <1>4 DEF ReaderSendFails, ReaderEnds, readerRest
    <2>2. reader' \in [pc : ReaderPcs, msg : Envelopes \cup {NoMessage}]
      <3>1. CASE ReaderSendFails
        BY <3>1 DEF ReaderSendFails, ReaderPcs
      <3>2. CASE ReaderEnds
        BY <3>2 DEF ReaderEnds, ReaderPcs
      <3> QED
        BY <1>4, <3>1, <3>2
    <2> QED
      BY <2>1, <2>2
  <1>5. ASSUME NEW next, NEW none, Receive(next, none),
               UNCHANGED <<child, ttyOpen, written, readCount, reader>>
        PROVE  ReaderTypes'
    <2>1. eofSeen' \in BOOLEAN
      BY <1>5 DEF Receive, DeliverOutput, DeliverEof
    <2>2. CASE UNCHANGED <<chan, delivered>>
      BY <1>5, <2>1, <2>2
    <2>3. CASE chan # <<>> /\ chan' = Tail(chan)
      <3>1. /\ chan' \in Seq(Envelopes) /\ Len(chan') <= EventCapacity
            /\ Head(chan) \in Envelopes
        BY <2>3, Shift
      <3>2. \/ delivered' = delivered
            \/ Head(chan).kind = "output" /\ delivered' = Append(delivered, Head(chan).n)
        BY <1>5, <2>3 DEF Receive, DeliverOutput, DeliverEof
      <3>3. Head(chan).kind = "output" => Head(chan).n \in 1..Chunks
        BY <3>1 DEF Envelopes, Eof, ReadError
      <3>4. delivered' \in Seq(1..Chunks)
        BY <3>2, <3>3
      <3> QED
        BY <1>5, <2>1, <3>1, <3>4
    <2> QED
      BY <1>5, <2>2, <2>3 DEF Receive, DeliverEof
  <1>6. CASE TickReceives \/ PollReceives
    BY <1>5, <1>6 DEF TickReceives, PollReceives, loopRest
  <1>7. ASSUME NEW at, NEW next, ObserveExit(at, next)
        PROVE  ReaderTypes'
    BY <1>7 DEF ObserveExit, loopRest
  <1>8. CASE \/ TickDeadline \/ PostCheck \/ Join
             \/ WriteSends \/ WriteAnswered \/ WriteTimesOut
    BY <1>8 DEF TickDeadline, PostCheck, Join, WriteSends, WriteAnswered,
                WriteTimesOut, loopRest, writeRest
  <1>9. CASE \/ WriterReceives \/ WriterDisconnected \/ WriterWrites
             \/ WriterFails \/ WaiterReportsExit \/ WaiterFails
    BY <1>9 DEF WriterReceives, WriterDisconnected, WriterWrites, WriterFails,
                WaiterReportsExit, WaiterFails, writerRest, waiterRest
  <1>10. CASE WriteInput \/ CloseInput \/ RunUntilExit \/ Drop
    BY <1>10 DEF WriteInput, CloseInput, RunUntilExit, Drop
  <1>11. CASE TtyWrites \/ ChildExits \/ TtyHangsUp
    <2>1. UNCHANGED <<readCount, reader, chan, eofSeen, delivered>>
      BY <1>11 DEF TtyWrites, ChildExits, TtyHangsUp, runnerVars
    <2>2. CASE TtyWrites
      <3>1. UNCHANGED <<child, ttyOpen>> /\ written < Chunks /\ written' = written + 1
        BY <2>2 DEF TtyWrites
      <3>2. written' \in 0..Chunks
        BY <3>1
      <3> QED
        BY <2>1, <3>1, <3>2
    <2>3. CASE ChildExits \/ TtyHangsUp
      <3>1. /\ child' \in {"running", "exited"} /\ ttyOpen' \in BOOLEAN
            /\ written' = written
        BY <2>3 DEF ChildExits, TtyHangsUp
      <3> QED
        BY <2>1, <3>1
    <2> QED
      BY <1>11, <2>2, <2>3
  <1>12. CASE CommandDeadline \/ DrainDeadline \/ UNCHANGED vars
    BY <1>12 DEF CommandDeadline, DrainDeadline, runnerVars
  <1> HIDE DEF ReaderTypes, vars
  <1> QED
    BY Steps, <1>1, <1>2, <1>3, <1>4, <1>6, <1>7, <1>8, <1>9, <1>10, <1>11, <1>12

LEMMA WriterTypesStep == IInv /\ [Next]_vars => WriterTypes'
  <1> SUFFICES ASSUME WriterTypes, writes \in WriteIds \/ pc # "write_send",
                      writer.pc = "writing" => writer.id \in WriteIds,
                      [Next]_vars
               PROVE  WriterTypes'
    <2>1. ASSUME IInv, pc = "write_send"
          PROVE  writes \in WriteIds
      BY <2>1, DeliveredBound, RuntimeAssumption
         DEF IInv, Counts, StreamInv, TypeOK, WriteIds, WritePcs
    <2> QED
      BY <2>1, TypeParts DEF IInv, Counts
  <1> USE DEF WriterTypes, ptyVars, readerVars, writerVars, callVars, sessionVars,
              runVars, timerVars, eventVars, vars
  <1>1. ASSUME UNCHANGED <<writer, reply, ptyInput>>, CloseWriter
        PROVE  WriterTypes'
    <2>1. writerOpen' \in BOOLEAN
      BY <1>1 DEF CloseWriter
    <2>2. CASE writeQueue' = <<Close>>
      BY <1>1, <2>1, <2>2
    <2>3. CASE writeQueue' = writeQueue
      BY <1>1, <2>1, <2>3
    <2> QED
      BY <1>1, <2>2, <2>3 DEF CloseWriter
  <1>2. CASE WriterReceives
    <2>1. /\ UNCHANGED <<writerOpen, reply, ptyInput>> /\ writeQueue # <<>>
          /\ writeQueue' = Tail(writeQueue)
          /\ writer' = IF Head(writeQueue) = Close
                       THEN [pc |-> "done", id |-> 0]
                       ELSE [pc |-> "writing", id |-> Head(writeQueue).id]
      BY <1>2 DEF WriterReceives, writerRest
    <2>2. /\ Head(writeQueue) \in [kind : {"write"}, id : WriteIds] \cup {Close}
          /\ writeQueue' \in Seq([kind : {"write"}, id : WriteIds] \cup {Close})
          /\ Len(writeQueue') <= 1
      BY <2>1, Shift
    <2>3. writer' \in [pc : WriterPcs, id : WriteIds \cup {0}]
      BY <2>1, <2>2 DEF WriterPcs
    <2> QED
      BY <2>1, <2>2, <2>3
  <1>3. CASE WriterDisconnected \/ WriterWrites \/ WriterFails
    <2>1. UNCHANGED <<writeQueue, writerOpen>>
      BY <1>3 DEF WriterDisconnected, WriterWrites, WriterFails, writerRest
    <2>2. /\ writer' \in {[pc |-> "done", id |-> 0], [pc |-> "recv", id |-> 0]}
          /\ reply' \in {reply, "write_ok", "write_error"}
      BY <1>3 DEF WriterDisconnected, WriterWrites, WriterFails, Answer
    <2>3. ptyInput' \in Seq(WriteIds)
      BY <1>3 DEF WriterDisconnected, WriterWrites, WriterFails
    <2> QED
      BY <2>1, <2>2, <2>3 DEF WriterPcs
  <1>4. CASE WriteSends
    BY <1>4 DEF WriteSends, writeRest, Write
  <1>5. ASSUME NEW at, NEW next, ObserveExit(at, next)
        PROVE  WriterTypes'
    BY <1>1, <1>5 DEF ObserveExit, RefreshTakes, loopRest
  <1>6. CASE TickDeadline \/ PostCheck
    BY <1>1, <1>6 DEF TickDeadline, PostCheck, TimesOut, loopRest
  <1>7. CASE TickReceives \/ PollReceives
    BY <1>7 DEF TickReceives, PollReceives, Receive, DeliverOutput, DeliverEof,
                Callback, StartWrite, Return, loopRest
  <1>8. CASE WriteInput
    BY <1>1, <1>8 DEF WriteInput, RefreshTakes, StartWrite
  <1>9. CASE CloseInput \/ Drop
    BY <1>1, <1>9 DEF CloseInput, Drop
  <1>10. CASE Join \/ WriteAnswered \/ WriteTimesOut \/ RunUntilExit
    BY <1>10 DEF Join, WriteAnswered, WriteTimesOut, RunUntilExit, loopRest, writeRest
  <1>11. CASE \/ ReadOutput \/ ReadZero \/ ReadFails
              \/ ReaderSends \/ ReaderSendFails \/ ReaderEnds
              \/ WaiterReportsExit \/ WaiterFails
    BY <1>11 DEF ReadOutput, ReadZero, ReadFails, ReaderSends, ReaderSendFails,
                 ReaderEnds, WaiterReportsExit, WaiterFails, readerRest, waiterRest
  <1>12. CASE \/ TtyWrites \/ ChildExits \/ TtyHangsUp \/ CommandDeadline
              \/ DrainDeadline \/ UNCHANGED vars
    BY <1>12 DEF TtyWrites, ChildExits, TtyHangsUp, CommandDeadline, DrainDeadline,
                 runnerVars
  <1> HIDE DEF WriterTypes, vars
  <1> QED
    BY Steps, <1>2, <1>3, <1>4, <1>5, <1>6, <1>7, <1>8, <1>9, <1>10, <1>11, <1>12

LEMMA ControlTypesStep == IInv /\ [Next]_vars => ControlTypes'
  <1> SUFFICES ASSUME ControlTypes, reply \in {"none", "write_ok", "write_error"},
                      [Next]_vars
               PROVE  ControlTypes'
    BY TypeParts DEF IInv, TypeOK
  <1> USE DEF ControlTypes, TickPcs, LoopPcs, WritePcs, Results, Return, StartWrite,
              CloseWriter, RefreshTakes, RefreshFails, RefreshFinds,
              ptyVars, readerVars, writerVars, callVars, sessionVars, runVars,
              timerVars, eventVars, vars
  <1>1. ASSUME NEW at, NEW next \in LoopPcs, ObserveExit(at, next)
        PROVE  ControlTypes'
    <2>1. /\ pc' \in {next, "idle"} /\ result' \in {result, "wait_error", "callback_error"}
          /\ waiter' \in {waiter, "taken"}
          /\ UNCHANGED <<ret, kills, sawEof, cmdDue, drainDue>>
      BY <1>1 DEF ObserveExit, loopRest
    <2>2. closed' \in BOOLEAN /\ pendingExit' \in BOOLEAN /\ exit' \in BOOLEAN
      BY <1>1 DEF ObserveExit
    <2> QED
      BY <2>1, <2>2
  <1>2. CASE TickDeadline
    <2>1. /\ pc' \in {"idle", "tick_recv"} /\ result' \in {result, "timeout"}
          /\ kills' \in {kills, "ok", "failed"} /\ closed' \in BOOLEAN
          /\ UNCHANGED <<waiter, ret, pendingExit, exit, sawEof, cmdDue, drainDue>>
      BY <1>2 DEF TickDeadline, TimesOut, Kill, loopRest
    <2> QED
      BY <2>1
  <1>3. CASE PostCheck
    BY <1>3 DEF PostCheck, TimesOut, Kill, loopRest
  <1>4. ASSUME NEW next \in {"tick_exit", "post_exit", "poll_exit"},
               NEW none \in {"post_exit", "poll_exit"}, Receive(next, none),
               UNCHANGED <<timerVars, sessionVars, exit, kills>>
        PROVE  ControlTypes'
    <2>1. /\ pc' \in {next, none, "idle", "write_send"} /\ ret' \in {ret, next}
          /\ result' \in {result, "read_error", "callback_error", "closed"}
          /\ sawEof' \in BOOLEAN
      BY <1>4 DEF Receive, DeliverOutput, DeliverEof, Callback
    <2> QED
      BY <1>4, <2>1
  <1>5. CASE TickReceives \/ PollReceives
    BY <1>4, <1>5 DEF TickReceives, PollReceives, loopRest
  <1>6. CASE Join \/ WriteSends \/ WriteAnswered \/ WriteTimesOut
    BY <1>6 DEF Join, WriteSends, WriteAnswered, WriteTimesOut, loopRest, writeRest
  <1>7. CASE WriteInput
    BY <1>7 DEF WriteInput
  <1>8. CASE CloseInput \/ RunUntilExit \/ Drop
    BY <1>8 DEF CloseInput, RunUntilExit, Drop, Kill
  <1>9. CASE \/ ReadOutput \/ ReadZero \/ ReadFails
             \/ ReaderSends \/ ReaderSendFails \/ ReaderEnds
    BY <1>9 DEF ReadOutput, ReadZero, ReadFails, ReaderSends, ReaderSendFails,
                ReaderEnds, readerRest
  <1>10. CASE \/ WriterReceives \/ WriterDisconnected \/ WriterWrites
              \/ WriterFails \/ WaiterReportsExit \/ WaiterFails
    BY <1>10 DEF WriterReceives, WriterDisconnected, WriterWrites, WriterFails,
                 WaiterReportsExit, WaiterFails, writerRest, waiterRest
  <1>11. CASE \/ TtyWrites \/ ChildExits \/ TtyHangsUp \/ CommandDeadline
              \/ DrainDeadline \/ UNCHANGED vars
    BY <1>11 DEF TtyWrites, ChildExits, TtyHangsUp, CommandDeadline, DrainDeadline,
                 runnerVars
  <1>12. {"tick_deadline", "post_check", "tick_exit"} \subseteq LoopPcs
    OBVIOUS
  <1> HIDE DEF ControlTypes, vars, LoopPcs
  <1> QED
    BY Steps, <1>1, <1>2, <1>3, <1>5, <1>6, <1>7, <1>8, <1>9, <1>10, <1>11, <1>12

LEMMA CounterTypesStep == IInv /\ [Next]_vars => CounterTypes' /\ left' \in Nat
  <1> SUFFICES ASSUME CounterTypes, pc = "tick_recv" => left >= 1, [Next]_vars
               PROVE  CounterTypes' /\ left' \in Nat
    BY TypeParts DEF IInv, Counts, NeedsLeft, TickPcs
  <1> USE RuntimeAssumption
      DEF CounterTypes, ptyVars, readerVars, writerVars, callVars, sessionVars,
          runVars, timerVars, eventVars, vars
  <1>1. ASSUME NEW at, NEW next, ObserveExit(at, next)
        PROVE  CounterTypes' /\ left' \in Nat
    BY <1>1 DEF ObserveExit, loopRest
  <1>2. CASE \/ TickDeadline \/ PostCheck \/ Join
             \/ WriteSends \/ WriteAnswered \/ WriteTimesOut
    BY <1>2 DEF TickDeadline, PostCheck, Join, WriteSends, WriteAnswered,
                WriteTimesOut, loopRest, writeRest
  <1>3. ASSUME NEW next, NEW none, Receive(next, none)
        PROVE  writes' \in Nat /\ eofs' \in Nat /\ late' \in Nat
    BY <1>3 DEF Receive, DeliverOutput, DeliverEof, Callback, StartWrite, Return
  <1>4. CASE TickReceives
    BY <1>3, <1>4 DEF TickReceives, loopRest
  <1>5. CASE PollReceives
    BY <1>3, <1>5 DEF PollReceives, loopRest
  <1>6. CASE WriteInput
    BY <1>6 DEF WriteInput, StartWrite, Return
  <1>7. CASE CloseInput \/ Drop
    BY <1>7 DEF CloseInput, Drop
  <1>8. CASE RunUntilExit
    BY <1>8 DEF RunUntilExit
  <1>9. CASE \/ ReadOutput \/ ReadZero \/ ReadFails
             \/ ReaderSends \/ ReaderSendFails \/ ReaderEnds
    BY <1>9 DEF ReadOutput, ReadZero, ReadFails, ReaderSends, ReaderSendFails,
                ReaderEnds, readerRest
  <1>10. CASE \/ WriterReceives \/ WriterDisconnected \/ WriterWrites
              \/ WriterFails \/ WaiterReportsExit \/ WaiterFails
    BY <1>10 DEF WriterReceives, WriterDisconnected, WriterWrites, WriterFails,
                 WaiterReportsExit, WaiterFails, writerRest, waiterRest
  <1>11. CASE \/ TtyWrites \/ ChildExits \/ TtyHangsUp \/ CommandDeadline
              \/ DrainDeadline \/ UNCHANGED vars
    BY <1>11 DEF TtyWrites, ChildExits, TtyHangsUp, CommandDeadline, DrainDeadline,
                 runnerVars
  <1> HIDE DEF CounterTypes, vars
  <1> QED
    BY Steps, <1>1, <1>2, <1>4, <1>5, <1>6, <1>7, <1>8, <1>9, <1>10, <1>11

(* Where the runner goes next, and what that leaves of the tick.           *)
LEMMA LeftStep == IInv /\ [Next]_vars => (NeedsLeft' => left' >= 1)
  <1>0. IInv => /\ left \in Nat /\ (NeedsLeft => left >= 1)
                /\ ret \in {"idle", "post_exit", "tick_exit", "poll_exit"}
    BY RuntimeAssumption DEF IInv, TypeOK, Counts
  <1> SUFFICES ASSUME NeedsLeft => left >= 1, left \in Nat, [Next]_vars,
                      ret \in {"idle", "post_exit", "tick_exit", "poll_exit"}
               PROVE  NeedsLeft' => left' >= 1
    BY <1>0
  <1> USE RuntimeAssumption
      DEF NeedsLeft, TickPcs, WritePcs, Return, StartWrite, ptyVars, readerVars,
          writerVars, callVars, sessionVars, runVars, timerVars, eventVars, vars
  <1>1. ASSUME NEW at, NEW next, ObserveExit(at, next),
               at \in {"tick_exit", "poll_exit"} \/ next = "post_check"
        PROVE  NeedsLeft' => left' >= 1
    BY <1>1 DEF ObserveExit, loopRest
  <1>2. CASE TickDeadline \/ PostCheck \/ Join
    BY <1>2 DEF TickDeadline, PostCheck, Join, TimesOut, loopRest
  <1>3. CASE WriteSends \/ WriteAnswered \/ WriteTimesOut
    <2>1. /\ pc \in WritePcs /\ pc' \in {"write_wait", "idle", ret}
          /\ UNCHANGED <<left, ret>>
      BY <1>3 DEF WriteSends, WriteAnswered, WriteTimesOut, writeRest
    <2> QED
      BY <2>1
  <1>4. ASSUME NEW next, NEW none, Receive(next, none)
        PROVE  pc' \in {next, none, "idle"} \/ (pc' = "write_send" /\ ret' = next)
    <2>1. ASSUME NEW q, Callback(q, next)
          PROVE  pc' \in {next, "idle"} \/ (pc' = "write_send" /\ ret' = next)
      BY <2>1 DEF Callback
    <2>2. CASE \E n : DeliverOutput(n, next)
      <3>1. PICK n : DeliverOutput(n, next)
        BY <2>2
      <3>2. Callback(n \in Queries, next)
        BY <3>1 DEF DeliverOutput
      <3> QED
        BY <2>1, <3>2
    <2>3. CASE DeliverEof(next)
      BY <2>1, <2>3 DEF DeliverEof
    <2>4. CASE pc' = "idle" \/ pc' = none
      BY <2>4
    <2> QED
      BY <1>4, <2>2, <2>3, <2>4 DEF Receive
  <1>5. CASE TickReceives
    <2> DEFINE next == IF left = 1 THEN "post_exit" ELSE "tick_exit"
    <2>1. Receive(next, "post_exit") /\ left' = left - 1 /\ pc = "tick_recv"
      BY <1>5 DEF TickReceives
    <2>2. pc' \in {next, "post_exit", "idle"} \/ (pc' = "write_send" /\ ret' = next)
      BY <1>4, <2>1
    <2> QED
      BY <2>1, <2>2
  <1>6. CASE PollReceives
    BY <1>4, <1>6 DEF PollReceives
  <1>7. CASE WriteInput
    BY <1>7 DEF WriteInput
  <1>8. CASE CloseInput \/ RunUntilExit \/ Drop
    BY <1>8 DEF CloseInput, RunUntilExit, Drop
  <1>9. CASE \/ ReadOutput \/ ReadZero \/ ReadFails
             \/ ReaderSends \/ ReaderSendFails \/ ReaderEnds
    BY <1>9 DEF ReadOutput, ReadZero, ReadFails, ReaderSends, ReaderSendFails,
                ReaderEnds, readerRest
  <1>10. CASE \/ WriterReceives \/ WriterDisconnected \/ WriterWrites
              \/ WriterFails \/ WaiterReportsExit \/ WaiterFails
    BY <1>10 DEF WriterReceives, WriterDisconnected, WriterWrites, WriterFails,
                 WaiterReportsExit, WaiterFails, writerRest, waiterRest
  <1>11. CASE \/ TtyWrites \/ ChildExits \/ TtyHangsUp \/ CommandDeadline
              \/ DrainDeadline \/ UNCHANGED vars
    BY <1>11 DEF TtyWrites, ChildExits, TtyHangsUp, CommandDeadline, DrainDeadline,
                 runnerVars
  <1> HIDE DEF vars
  <1> QED
    BY Steps, <1>1, <1>2, <1>3, <1>5, <1>6, <1>7, <1>8, <1>9, <1>10, <1>11

(* The message in the reader's hand is one the channel carries, and the    *)
(* write in the writer's hand has a number within WriteIds.                *)
LEMMA HandsStep ==
    IInv /\ [Next]_vars =>
      /\ reader'.pc = "send" => reader'.msg \in Envelopes
      /\ writer'.pc = "writing" => writer'.id \in WriteIds
  <1> DEFINE R == reader.pc = "send" => reader.msg \in Envelopes
             W == writer.pc = "writing" => writer.id \in WriteIds
  <1> SUFFICES ASSUME ReaderTypes, WriterTypes, R, W, [Next]_vars
               PROVE  R' /\ W'
    BY TypeParts DEF IInv, Counts
  <1> USE DEF vars, ptyVars, readerVars, writerVars, eventVars, callVars,
              sessionVars, timerVars, runVars
  <1>1. CASE ReadOutput \/ ReadZero \/ ReadFails
    <2>1. UNCHANGED writer
      BY <1>1 DEF ReadOutput, ReadZero, ReadFails, readerRest
    <2>2. CASE ReadOutput
      BY <2>1, <2>2, RuntimeAssumption
         DEF ReadOutput, InHand, Output, Envelopes, ReaderTypes
    <2>3. CASE ReadZero \/ ReadFails
      BY <2>1, <2>3 DEF ReadZero, ReadFails, InHand, Envelopes
    <2> QED
      BY <1>1, <2>2, <2>3
  <1>2. CASE ReaderSends \/ ReaderSendFails \/ ReaderEnds
    <2>1. UNCHANGED writer /\ reader'.pc # "send"
      BY <1>2 DEF ReaderSends, ReaderSendFails, ReaderEnds, readerRest, ReaderTypes
    <2> QED
      BY <2>1
  <1>3. CASE WriterReceives
    <2>1. /\ UNCHANGED reader /\ writeQueue # <<>>
          /\ writer' = IF Head(writeQueue) = Close
                       THEN [pc |-> "done", id |-> 0]
                       ELSE [pc |-> "writing", id |-> Head(writeQueue).id]
      BY <1>3 DEF WriterReceives, writerRest
    <2>2. Head(writeQueue) \in [kind : {"write"}, id : WriteIds] \cup {Close}
      BY <2>1, Shift DEF WriterTypes
    <2> QED
      BY <2>1, <2>2
  <1>4. CASE WriterDisconnected \/ WriterWrites \/ WriterFails
    BY <1>4 DEF WriterDisconnected, WriterWrites, WriterFails, Answer, writerRest
  <1>5. ASSUME NEW at, NEW next, ObserveExit(at, next)
        PROVE  R' /\ W'
    BY <1>5 DEF ObserveExit, loopRest
  <1>6. CASE \/ TickDeadline \/ TickReceives \/ PostCheck \/ Join \/ PollReceives
             \/ WriteSends \/ WriteAnswered \/ WriteTimesOut
    BY <1>6 DEF TickDeadline, TickReceives, PostCheck, Join, PollReceives,
                WriteSends, WriteAnswered, WriteTimesOut, loopRest, writeRest
  <1>7. CASE \/ WriteInput \/ CloseInput \/ RunUntilExit \/ Drop
             \/ WaiterReportsExit \/ WaiterFails
    BY <1>7 DEF WriteInput, CloseInput, RunUntilExit, Drop, WaiterReportsExit,
                WaiterFails, waiterRest
  <1>8. CASE \/ TtyWrites \/ ChildExits \/ TtyHangsUp \/ CommandDeadline
             \/ DrainDeadline \/ UNCHANGED vars
    BY <1>8 DEF TtyWrites, ChildExits, TtyHangsUp, CommandDeadline, DrainDeadline,
                runnerVars
  <1> HIDE DEF R, W, vars
  <1> QED
    BY Steps, <1>1, <1>2, <1>3, <1>4, <1>5, <1>6, <1>7, <1>8

(* Every write is one the caller asked for or answers a chunk delivered.   *)
LEMMA WritesStep ==
    IInv /\ [Next]_vars =>
      /\ writes' <= MaxWrites + Len(delivered')
      /\ pc' \in WritePcs => writes' >= 1
  <1> DEFINE Asked == writes <= MaxWrites + Len(delivered)
             Began == pc \in WritePcs => writes >= 1
  <1>0. IInv => /\ writes \in Nat /\ delivered \in Seq(1..Chunks)
                /\ ret \in {"idle", "post_exit", "tick_exit", "poll_exit"}
    BY DEF IInv, TypeOK
  <1> SUFFICES ASSUME writes \in Nat, delivered \in Seq(1..Chunks), Asked, Began,
                      ret \in {"idle", "post_exit", "tick_exit", "poll_exit"},
                      [Next]_vars
               PROVE  Asked' /\ Began'
    BY <1>0 DEF IInv, Counts
  <1>a. Len(delivered) \in Nat /\ MaxWrites \in Nat
    BY RuntimeAssumption
  <1> USE DEF WritePcs, vars, ptyVars, readerVars, writerVars, eventVars, callVars,
              sessionVars, timerVars, runVars
  <1>1. ASSUME UNCHANGED <<writes, delivered>>, pc' \notin WritePcs \/ pc \in WritePcs
        PROVE  Asked' /\ Began'
    BY <1>1
  <1>2. ASSUME NEW next \in LoopPcs, NEW none \in LoopPcs, Receive(next, none)
        PROVE  Asked' /\ Began'
    <2>1. \/ writes' = writes /\ pc' \notin WritePcs
          \/ writes' = writes + 1 /\ \E n : DeliverOutput(n, next)
      <3>1. ASSUME NEW q, Callback(q, next)
            PROVE  \/ writes' = writes /\ pc' \notin WritePcs
                   \/ q /\ writes' = writes + 1
        BY <3>1 DEF Callback, StartWrite, Return, LoopPcs, TickPcs
      <3>2. ASSUME NEW n, DeliverOutput(n, next)
            PROVE  \/ writes' = writes /\ pc' \notin WritePcs
                   \/ writes' = writes + 1 /\ DeliverOutput(n, next)
        <4>1. Callback(n \in Queries, next)
          BY <3>2 DEF DeliverOutput
        <4> QED
          BY <3>1, <3>2, <4>1
      <3>3. ASSUME DeliverEof(next)
            PROVE  writes' = writes /\ pc' \notin WritePcs
        <4>1. Callback(FALSE, next)
          BY <3>3 DEF DeliverEof
        <4> QED
          BY <3>1, <4>1
      <3>4. ASSUME UNCHANGED callVars, pc' \in {"idle", none}
            PROVE  writes' = writes /\ pc' \notin WritePcs
        BY <3>4 DEF LoopPcs, TickPcs
      <3> QED
        BY <1>2, <3>2, <3>3, <3>4 DEF Receive, Return
    <2>2. Len(delivered') >= Len(delivered) /\ Len(delivered') \in Nat
      <3>1. delivered' = delivered \/ \E n : delivered' = Append(delivered, n)
        BY <1>2 DEF Receive, DeliverOutput, DeliverEof
      <3>2. ASSUME NEW n PROVE Len(Append(delivered, n)) = Len(delivered) + 1
        OBVIOUS
      <3> QED
        BY <1>a, <3>1, <3>2
    <2>3. ASSUME NEW n, DeliverOutput(n, next)
          PROVE  Len(delivered') = Len(delivered) + 1
      BY <2>3 DEF DeliverOutput
    <2> QED
      BY <1>a, <2>1, <2>2, <2>3
  <1>3. CASE TickReceives \/ PollReceives
    BY <1>2, <1>3 DEF TickReceives, PollReceives, LoopPcs, TickPcs
  <1>4. ASSUME NEW at, NEW next \in LoopPcs, ObserveExit(at, next)
        PROVE  Asked' /\ Began'
    <2>1. UNCHANGED <<writes, delivered>> /\ pc' \in {next, "idle"}
      BY <1>4 DEF ObserveExit, Return
    <2> QED
      BY <1>1, <2>1 DEF LoopPcs, TickPcs
  <1>5. CASE TickDeadline \/ PostCheck \/ Join
    BY <1>1, <1>5 DEF TickDeadline, PostCheck, Join, TimesOut, Return, loopRest
  <1>6. CASE WriteSends \/ WriteAnswered \/ WriteTimesOut
    BY <1>1, <1>6 DEF WriteSends, WriteAnswered, WriteTimesOut, Return, writeRest
  <1>7. CASE WriteInput
    <2>1. /\ writes < MaxWrites /\ delivered' = delivered
          /\ \/ writes' = writes /\ pc' = "idle"
             \/ writes' = writes + 1
      BY <1>7 DEF WriteInput, StartWrite, Return
    <2> QED
      BY <1>a, <2>1
  <1>8. CASE CloseInput \/ RunUntilExit \/ Drop
    BY <1>1, <1>8 DEF CloseInput, RunUntilExit, Drop
  <1>9. CASE \/ ReadOutput \/ ReadZero \/ ReadFails
             \/ ReaderSends \/ ReaderSendFails \/ ReaderEnds
    BY <1>1, <1>9 DEF ReadOutput, ReadZero, ReadFails, ReaderSends,
                      ReaderSendFails, ReaderEnds, readerRest
  <1>10. CASE \/ WriterReceives \/ WriterDisconnected \/ WriterWrites
              \/ WriterFails \/ WaiterReportsExit \/ WaiterFails
    BY <1>1, <1>10 DEF WriterReceives, WriterDisconnected, WriterWrites, WriterFails,
                       WaiterReportsExit, WaiterFails, writerRest, waiterRest
  <1>11. CASE \/ TtyWrites \/ ChildExits \/ TtyHangsUp \/ CommandDeadline
              \/ DrainDeadline \/ UNCHANGED vars
    BY <1>1, <1>11 DEF TtyWrites, ChildExits, TtyHangsUp, CommandDeadline,
                       DrainDeadline, runnerVars
  <1>12. {"tick_deadline", "post_check", "tick_exit"} \subseteq LoopPcs
    BY DEF LoopPcs, TickPcs
  <1> HIDE DEF Asked, Began, vars
  <1> QED
    BY Steps, <1>3, <1>4, <1>5, <1>6, <1>7, <1>8, <1>9, <1>10, <1>11, <1>12

LEMMA TypeStep == IInv /\ [Next]_vars => TypeOK'
  <1> SUFFICES ASSUME IInv, [Next]_vars PROVE TypeOK'
    OBVIOUS
  <1>1. ReaderTypes' /\ WriterTypes' /\ ControlTypes' /\ CounterTypes'
    BY ReaderTypesStep, WriterTypesStep, ControlTypesStep, CounterTypesStep
  <1> QED
    BY <1>1, Zenon
       DEF TypeOK, ReaderTypes, WriterTypes, ControlTypes, CounterTypes

LEMMA IInvStep == IInv /\ [Next]_vars => IInv'
  <1> SUFFICES ASSUME IInv, [Next]_vars PROVE IInv'
    OBVIOUS
  <1>1. TypeOK'
    BY TypeStep
  <1>2. Counts'
    BY HandsStep, WritesStep, LeftStep DEF Counts
  <1>3. StreamInv' /\ ExitInv' /\ CloseInv'
    BY StreamStep, ExitStep
  <1> QED
    BY <1>1, <1>2, <1>3 DEF IInv

LEMMA Invariance == Spec => []IInv
  <1>1. Spec => Init /\ [][Next]_vars
    BY PTL DEF Spec
  <1>2. Init /\ [][Next]_vars => []IInv
    BY InitInv, IInvStep, PTL
  <1> QED
    BY <1>1, <1>2, PTL

-----------------------------------------------------------------------------
(* What follows from the invariant alone.                                  *)

(* Every variable stays in its type; both channels stay within their       *)
(* capacity and a tick never counts below zero, whatever fails.            *)
THEOREM TypeCorrect == Spec => []TypeOK
  BY Invariance, PTL DEF IInv

(* The callback receives the PTY's chunks in the order they were read,     *)
(* none lost and none twice, through a full channel, a blocked send, a     *)
(* failed run and a repeated run.                                          *)
THEOREM DeliveredInOrder == Spec => []OutputInOrder
  BY Invariance, PTL DEF IInv, StreamInv

(* The exit status is handed to the callback at most once in a session,    *)
(* and only after the child has exited.                                    *)
THEOREM ExitAnnouncedOnce == Spec => []ExitOnce
  BY Invariance, PTL DEF IInv, ExitInv

(* A dropped runner leaves no running child it has not tried to kill.      *)
THEOREM ChildNotAbandoned == Spec => []NoAbandonedChild
  <1>1. IInv => NoAbandonedChild
    BY DEF IInv, CloseInv, NoAbandonedChild
  <1> QED
    BY <1>1, Invariance, PTL

(* A runner that has closed stays closed and starts no further write.      *)
LEMMA ClosedStep == IInv /\ [Next]_vars => (closed => closed' /\ writes' = writes)
  <1> SUFFICES ASSUME closed, ~writerOpen, closed \in BOOLEAN, [Next]_vars
               PROVE  closed' /\ writes' = writes
    BY DEF IInv, CloseInv, TypeOK
  <1> USE DEF vars, ptyVars, readerVars, writerVars, eventVars, callVars,
              sessionVars, timerVars, runVars, Return, StartWrite, CloseWriter,
              RefreshTakes
  <1>1. ASSUME NEW at, NEW next, ObserveExit(at, next)
        PROVE  closed' /\ writes' = writes
    BY <1>1 DEF ObserveExit
  <1>2. ASSUME NEW next, NEW none, Receive(next, none)
        PROVE  writes' = writes
    <2>1. ASSUME NEW q, Callback(q, next) PROVE writes' = writes
      BY <2>1 DEF Callback
    <2>2. ASSUME NEW n, DeliverOutput(n, next) PROVE writes' = writes
      <3>1. Callback(n \in Queries, next)
        BY <2>2 DEF DeliverOutput
      <3> QED
        BY <2>1, <3>1
    <2>3. ASSUME DeliverEof(next) PROVE writes' = writes
      <3>1. Callback(FALSE, next)
        BY <2>3 DEF DeliverEof
      <3> QED
        BY <2>1, <3>1
    <2> QED
      BY <1>2, <2>2, <2>3 DEF Receive
  <1>3. CASE TickReceives \/ PollReceives
    BY <1>2, <1>3 DEF TickReceives, PollReceives
  <1>4. CASE TickDeadline \/ PostCheck \/ Join
    BY <1>4 DEF TickDeadline, PostCheck, Join, TimesOut
  <1>5. CASE WriteSends \/ WriteAnswered \/ WriteTimesOut
    BY <1>5 DEF WriteSends, WriteAnswered, WriteTimesOut, writeRest
  <1>6. CASE WriteInput
    BY <1>6 DEF WriteInput
  <1>7. CASE CloseInput \/ RunUntilExit \/ Drop
    BY <1>7 DEF CloseInput, RunUntilExit, Drop
  <1>8. CASE \/ ReadOutput \/ ReadZero \/ ReadFails
             \/ ReaderSends \/ ReaderSendFails \/ ReaderEnds
    BY <1>8 DEF ReadOutput, ReadZero, ReadFails, ReaderSends, ReaderSendFails,
                ReaderEnds, readerRest
  <1>9. CASE \/ WriterReceives \/ WriterDisconnected \/ WriterWrites
             \/ WriterFails \/ WaiterReportsExit \/ WaiterFails
    BY <1>9 DEF WriterReceives, WriterDisconnected, WriterWrites, WriterFails,
                WaiterReportsExit, WaiterFails, writerRest, waiterRest
  <1>10. CASE \/ TtyWrites \/ ChildExits \/ TtyHangsUp \/ CommandDeadline
              \/ DrainDeadline \/ UNCHANGED vars
    BY <1>10 DEF TtyWrites, ChildExits, TtyHangsUp, CommandDeadline, DrainDeadline,
                 runnerVars
  <1> HIDE DEF vars
  <1> QED
    BY Steps, <1>1, <1>3, <1>4, <1>5, <1>6, <1>7, <1>8, <1>9, <1>10

(* Once the exit was observed or the command timed out, the session stays  *)
(* closed and no write is issued again, in this run or a later one.        *)
THEOREM StaysClosed == Spec => ClosedForGood
  <1>1. IInv /\ [Next]_vars => [closed => closed' /\ writes' = writes]_vars
    BY ClosedStep
  <1>2. Spec => [][Next]_vars
    BY PTL DEF Spec
  <1> QED
    BY <1>1, <1>2, Invariance, PTL DEF ClosedForGood

-----------------------------------------------------------------------------
(* Deadlines.                                                              *)

(* Events are late only past the deadline in force; a poll begins with     *)
(* none, and so does the receive of a tick before the exit was observed.   *)
(* Afterwards the tick's own count bounds them.                            *)
DeadlineInv ==
    Running =>
        /\ late <= IF exit THEN EventsPerTick + 1 - left ELSE 1
        /\ late > 0 => PastDeadline
        /\ pc = "poll" => late = 0
        /\ pc = "tick_recv" /\ ~exit => late = 0

LEMMA DeadlineStep == IInv /\ DeadlineInv /\ [Next]_vars => DeadlineInv'
  <1> SUFFICES ASSUME IInv, IInv', DeadlineInv, [Next]_vars
               PROVE  DeadlineInv'
    BY IInvStep
  <1>0. /\ left \in 0..EventsPerTick /\ late \in Nat /\ exit \in BOOLEAN
        /\ cmdDue \in BOOLEAN /\ drainDue \in BOOLEAN
        /\ left' \in 0..EventsPerTick /\ late' \in Nat
        /\ EventsPerTick \in Nat \ {0}
        /\ ret \in {"idle", "post_exit", "tick_exit", "poll_exit"}
    BY RuntimeAssumption DEF IInv, TypeOK
  <1> USE DEF DeadlineInv, Running, PastDeadline, LoopPcs, TickPcs, WritePcs,
              ptyVars, readerVars, writerVars, callVars, sessionVars, runVars,
              timerVars, eventVars, vars, Return, StartWrite
  <1>1. ASSUME NEW at \in {"tick_exit", "post_exit", "poll_exit"},
               NEW next \in {"tick_deadline", "post_check", "tick_exit"},
               ObserveExit(at, next)
        PROVE  DeadlineInv'
    BY <1>0, <1>1 DEF ObserveExit, loopRest
  <1>2. CASE TickDeadline
    BY <1>0, <1>2 DEF TickDeadline, TimesOut, loopRest
  <1>3. CASE PostCheck
    BY <1>0, <1>3 DEF PostCheck, TimesOut, loopRest
  <1>4. CASE Join \/ WriteSends \/ WriteAnswered \/ WriteTimesOut
    <2>1. CASE Join \/ WriteTimesOut
      BY <2>1 DEF Join, WriteTimesOut
    <2>2. CASE WriteSends
      BY <1>0, <2>2 DEF WriteSends, writeRest
    <2>3. CASE WriteAnswered
      BY <1>0, <2>3 DEF WriteAnswered, writeRest
    <2> QED
      BY <1>4, <2>1, <2>2, <2>3
  <1>5. ASSUME NEW next, NEW none, Receive(next, none)
        PROVE  late' = late \/ (late' = late + 1 /\ PastDeadline)
    BY <1>5 DEF Receive, DeliverOutput, DeliverEof
  <1>6. ASSUME NEW next \in {"post_exit", "tick_exit", "poll_exit"},
               NEW none \in {"post_exit", "poll_exit"}, Receive(next, none)
        PROVE  pc' \in {"idle", "write_send", "post_exit", "tick_exit", "poll_exit"}
    BY <1>6 DEF Receive, DeliverOutput, DeliverEof, Callback
  <1>7. CASE TickReceives
    <2>1. \E next \in {"post_exit", "tick_exit"} : Receive(next, "post_exit")
      BY <1>7 DEF TickReceives
    <2>2. /\ late' = late \/ (late' = late + 1 /\ PastDeadline)
          /\ pc' \in {"idle", "write_send", "post_exit", "tick_exit", "poll_exit"}
      BY <1>5, <1>6, <2>1
    <2>3. /\ pc = "tick_recv" /\ left' = left - 1
          /\ UNCHANGED <<exit, cmdDue, drainDue>>
      BY <1>7 DEF TickReceives, loopRest
    <2> QED
      BY <1>0, <2>2, <2>3
  <1>8. CASE PollReceives
    <2>1. /\ late' = late \/ (late' = late + 1 /\ PastDeadline)
          /\ pc' \in {"idle", "write_send", "post_exit", "tick_exit", "poll_exit"}
      BY <1>5, <1>6, <1>8 DEF PollReceives
    <2>2. /\ pc = "poll" /\ left' = EventsPerTick
          /\ UNCHANGED <<exit, cmdDue, drainDue>>
      BY <1>8 DEF PollReceives, loopRest
    <2> QED
      BY <1>0, <2>1, <2>2
  <1>9. CASE \/ ReadOutput \/ ReadZero \/ ReadFails
             \/ ReaderSends \/ ReaderSendFails \/ ReaderEnds
    <2>1. UNCHANGED <<pc, ret, exit, left, late, cmdDue, drainDue>>
      BY <1>9 DEF ReadOutput, ReadZero, ReadFails, ReaderSends, ReaderSendFails,
                  ReaderEnds, readerRest
    <2> QED
      BY <2>1
  <1>10. CASE \/ WriterReceives \/ WriterDisconnected \/ WriterWrites
              \/ WriterFails \/ WaiterReportsExit \/ WaiterFails
    <2>1. UNCHANGED <<pc, ret, exit, left, late, cmdDue, drainDue>>
      BY <1>10 DEF WriterReceives, WriterDisconnected, WriterWrites, WriterFails,
                   WaiterReportsExit, WaiterFails, writerRest, waiterRest
    <2> QED
      BY <2>1
  <1>11. CASE WriteInput
    BY <1>11 DEF WriteInput
  <1>12. CASE CloseInput \/ RunUntilExit \/ Drop
    <2>1. CASE CloseInput
      BY <2>1 DEF CloseInput
    <2>2. CASE RunUntilExit
      BY <1>0, <2>2 DEF RunUntilExit
    <2>3. CASE Drop
      BY <2>3 DEF Drop
    <2> QED
      BY <1>12, <2>1, <2>2, <2>3
  <1>13. CASE \/ TtyWrites \/ ChildExits \/ TtyHangsUp \/ CommandDeadline
              \/ DrainDeadline
    <2>1. CASE TtyWrites \/ ChildExits \/ TtyHangsUp
      BY <2>1 DEF TtyWrites, ChildExits, TtyHangsUp, runnerVars
    <2>2. CASE CommandDeadline \/ DrainDeadline
      <3>1. /\ UNCHANGED <<pc, ret, exit, left, late>>
            /\ cmdDue => cmdDue'
            /\ drainDue => drainDue'
        BY <2>2 DEF CommandDeadline, DrainDeadline, runnerVars
      <3> QED
        BY <1>0, <3>1
    <2> QED
      BY <1>13, <2>1, <2>2
  <1>14. CASE UNCHANGED vars
    BY <1>14
  <1> HIDE DEF DeadlineInv, vars
  <1> QED
    BY Steps, <1>1, <1>2, <1>3, <1>4, <1>7, <1>8, <1>9, <1>10, <1>11, <1>12, <1>13, <1>14

(* After the deadline in force a run takes one more event, or a tick and a *)
(* poll of them once it drains, however long the tick and however fast     *)
(* the output (PromptAfterDeadline).                                       *)
THEOREM Prompt == Spec => []PromptAfterDeadline
  <1>1. Init => DeadlineInv
    BY DEF Init, DeadlineInv, Running, LoopPcs, TickPcs, WritePcs
  <1>2. IInv /\ DeadlineInv => PromptAfterDeadline
    BY RuntimeAssumption DEF IInv, TypeOK, DeadlineInv, PromptAfterDeadline
  <1>3. Spec => Init /\ [][Next]_vars
    BY PTL DEF Spec
  <1> QED
    BY <1>1, <1>2, <1>3, Invariance, DeadlineStep, PTL

-----------------------------------------------------------------------------
(* Writes.                                                                 *)

(* A number that no write which reached the PTY, is being written or is    *)
(* queued exceeds.                                                         *)
Bounds(n) ==
    /\ \A i \in DOMAIN ptyInput : ptyInput[i] <= n
    /\ writer.pc = "writing" => writer.id <= n
    /\ writeQueue # <<>> /\ Head(writeQueue) # Close => Head(writeQueue).id <= n

(* Writes are issued, queued, written and reach the PTY in the order of    *)
(* their numbers; the one about to be sent is the newest.                  *)
WriteInv ==
    /\ Bounds(IF pc = "write_send" THEN writes - 1 ELSE writes)
    /\ \A i, j \in DOMAIN ptyInput : i < j => ptyInput[i] < ptyInput[j]
    /\ writer.pc = "writing" => \A i \in DOMAIN ptyInput : ptyInput[i] < writer.id
    /\ writeQueue # <<>> /\ Head(writeQueue) # Close =>
         /\ \A i \in DOMAIN ptyInput : ptyInput[i] < Head(writeQueue).id
         /\ writer.pc = "writing" => writer.id < Head(writeQueue).id
    /\ reply = "write_ok" =>
         pc # "write_send" /\ \E i \in DOMAIN ptyInput : ptyInput[i] = writes

(* What the runner does without sending a command or issuing a write: it   *)
(* may put Close into an empty queue.                                      *)
OnlyCloses ==
    /\ UNCHANGED <<writer, ptyInput, writes, reply>>
    /\ pc' = "write_send" <=> pc = "write_send"
    /\ writeQueue' = writeQueue \/ writeQueue' = <<Close>>

LEMMA ClosingIsHarmless == TypeOK /\ WriteInv /\ OnlyCloses => WriteInv'
  BY DEF TypeOK, WriteInv, Bounds, OnlyCloses, Close

LEMMA IssuingIsHarmless ==
    ASSUME TypeOK, WriteInv, pc # "write_send", pc' = "write_send",
           writes' = writes + 1, reply' = "none", UNCHANGED <<writer, ptyInput>>,
           writeQueue' = writeQueue \/ writeQueue' = <<Close>>
    PROVE  WriteInv'
  BY DEF TypeOK, WriteInv, Bounds, Close, WriteIds

LEMMA SeqNat == ASSUME NEW S, S \subseteq Nat, NEW s \in Seq(S) PROVE s \in Seq(Nat)
  <1>1. Len(s) \in Nat /\ s \in [1..Len(s) -> S]
    OBVIOUS
  <1>2. s \in [1..Len(s) -> Nat]
    BY <1>1
  <1> QED
    BY <1>1, <1>2

LEMMA AppendNat ==
    ASSUME NEW s \in Seq(Nat), NEW x \in Nat
    PROVE  /\ Len(s) \in Nat /\ DOMAIN s = 1..Len(s)
           /\ \A i \in DOMAIN s : s[i] \in Nat
           /\ DOMAIN Append(s, x) = 1..Len(s) + 1
           /\ Append(s, x)[Len(s) + 1] = x
           /\ \A i \in 1..Len(s) : Append(s, x)[i] = s[i]
  OBVIOUS

LEMMA WriteStep == IInv /\ WriteInv /\ [Next]_vars => WriteInv'
  <1> SUFFICES ASSUME TypeOK, WriteInv, [Next]_vars PROVE WriteInv'
    BY DEF IInv
  <1>0. /\ ptyInput \in Seq(Nat) /\ writer.id \in Nat
        /\ writeQueue \in Seq([kind : {"write"}, id : WriteIds] \cup {Close})
        /\ Len(writeQueue) <= 1 /\ writes \in Nat
        /\ ptyInput \in Seq(WriteIds) /\ writer \in [pc : WriterPcs, id : WriteIds \cup {0}]
        /\ WriteIds \subseteq Nat
    <2>1. WriteIds \subseteq Nat
      BY RuntimeAssumption DEF WriteIds
    <2>2. ptyInput \in Seq(WriteIds) /\ writer \in [pc : WriterPcs, id : WriteIds \cup {0}]
      BY DEF TypeOK
    <2>3. writer.id \in WriteIds \/ writer.id = 0
      BY <2>2 DEF WriterPcs
    <2>4. ptyInput \in Seq(Nat)
      BY <2>1, <2>2, SeqNat
    <2>5. writer.id \in Nat
      BY <2>1, <2>3, 0 \in Nat, Zenon
    <2> QED
      BY <2>1, <2>2, <2>4, <2>5 DEF TypeOK
  <1> USE DEF ptyVars, readerVars, writerVars, callVars, sessionVars, runVars,
              timerVars, eventVars, vars, Return, CloseWriter, RefreshTakes
  <1>1. ASSUME NEW at \in {"tick_exit", "post_exit", "poll_exit"},
               NEW next \in {"tick_deadline", "post_check", "tick_exit"},
               ObserveExit(at, next)
        PROVE  WriteInv'
    <2>1. OnlyCloses
      BY <1>1 DEF ObserveExit, loopRest, OnlyCloses
    <2> QED
      BY <2>1, ClosingIsHarmless
  <1>2. CASE TickDeadline
    <2>1. OnlyCloses
      BY <1>2 DEF TickDeadline, TimesOut, loopRest, OnlyCloses
    <2> QED
      BY <2>1, ClosingIsHarmless
  <1>3. CASE PostCheck
    <2>1. OnlyCloses
      BY <1>3 DEF PostCheck, TimesOut, loopRest, OnlyCloses
    <2> QED
      BY <2>1, ClosingIsHarmless
  <1>4. CASE WriteSends
    <2>1. /\ pc = "write_send" /\ pc' = "write_wait" /\ writeQueue' = <<Write(writes)>>
          /\ UNCHANGED <<writer, ptyInput, writes, reply>>
      BY <1>4 DEF WriteSends, writeRest
    <2>2. Head(writeQueue').id = writes
      BY <2>1 DEF Write
    <2>3. /\ \A i \in DOMAIN ptyInput : ptyInput[i] \in Nat
          /\ writer.id \in Nat
      BY <1>0, AppendNat
    <2>4. /\ \A i \in DOMAIN ptyInput : ptyInput[i] <= writes - 1
          /\ writer.pc = "writing" => writer.id <= writes - 1
          /\ reply # "write_ok"
      BY <2>1 DEF WriteInv, Bounds
    <2>5. Bounds(IF pc = "write_send" THEN writes - 1 ELSE writes)'
      BY <1>0, <2>1, <2>2, <2>3, <2>4 DEF Bounds
    <2>6. /\ \A i \in DOMAIN ptyInput' : ptyInput'[i] < Head(writeQueue').id
          /\ writer'.pc = "writing" => writer'.id < Head(writeQueue').id
      BY <1>0, <2>1, <2>2, <2>3, <2>4
    <2> QED
      BY <2>1, <2>4, <2>5, <2>6 DEF WriteInv
  <1>5. CASE Join \/ WriteAnswered \/ WriteTimesOut
    <2>1. OnlyCloses
      BY <1>5 DEF Join, WriteAnswered, WriteTimesOut, writeRest, loopRest, OnlyCloses, TypeOK
    <2> QED
      BY <2>1, ClosingIsHarmless
  <1>6. ASSUME NEW next \in {"post_exit", "tick_exit", "poll_exit"},
               NEW none \in {"post_exit", "poll_exit"}, Receive(next, none),
               pc # "write_send", UNCHANGED <<writer, ptyInput, writeQueue>>
        PROVE  WriteInv'
    <2>1. ASSUME NEW q, Callback(q, next)
          PROVE  OnlyCloses \/ (pc' = "write_send" /\ writes' = writes + 1 /\ reply' = "none")
      BY <1>6, <2>1 DEF Callback, StartWrite, OnlyCloses
    <2>2. OnlyCloses \/ (pc' = "write_send" /\ writes' = writes + 1 /\ reply' = "none")
      BY <1>6, <2>1 DEF Receive, DeliverOutput, DeliverEof, OnlyCloses
    <2> QED
      BY <1>6, <2>2, ClosingIsHarmless, IssuingIsHarmless
  <1>7. CASE TickReceives
    BY <1>6, <1>7 DEF TickReceives, loopRest
  <1>8. CASE PollReceives
    BY <1>6, <1>8 DEF PollReceives, loopRest
  <1>9. CASE \/ ReadOutput \/ ReadZero \/ ReadFails
             \/ ReaderSends \/ ReaderSendFails \/ ReaderEnds
    <2>1. OnlyCloses
      BY <1>9 DEF ReadOutput, ReadZero, ReadFails, ReaderSends, ReaderSendFails,
                  ReaderEnds, readerRest, OnlyCloses
    <2> QED
      BY <2>1, ClosingIsHarmless
  <1>10. CASE WriterReceives
    <2>1. /\ writeQueue # <<>> /\ writeQueue' = <<>>
          /\ Head(writeQueue) \in [kind : {"write"}, id : WriteIds] \cup {Close}
      BY <1>0, <1>10 DEF WriterReceives
    <2>2. /\ writer.pc = "recv" /\ UNCHANGED <<pc, writes, ptyInput, reply>>
          /\ writer' = IF Head(writeQueue) = Close
                       THEN [pc |-> "done", id |-> 0]
                       ELSE [pc |-> "writing", id |-> Head(writeQueue).id]
      BY <1>10 DEF WriterReceives, writerRest
    <2> QED
      BY <2>1, <2>2 DEF WriteInv, Bounds
  <1>11. CASE WriterDisconnected
    <2>1. writer'.pc = "done" /\ UNCHANGED <<pc, writes, ptyInput, reply, writeQueue>>
      BY <1>11 DEF WriterDisconnected, writerRest
    <2> QED
      BY <2>1 DEF WriteInv, Bounds
  <1>12. CASE WriterWrites
    <2>1. /\ writer.pc = "writing" /\ writer'.pc = "recv"
          /\ ptyInput' = Append(ptyInput, writer.id)
          /\ reply' = IF writer.id = writes THEN "write_ok" ELSE reply
          /\ UNCHANGED <<pc, writes, writeQueue>>
      BY <1>12 DEF WriterWrites, Answer, writerRest
    <2> DEFINE n == Len(ptyInput)
    <2>2. /\ n \in Nat /\ DOMAIN ptyInput = 1..n /\ DOMAIN ptyInput' = 1..n + 1
          /\ ptyInput'[n + 1] = writer.id /\ \A i \in 1..n : ptyInput'[i] = ptyInput[i]
          /\ \A i \in 1..n : ptyInput[i] \in Nat
          /\ writer.id \in Nat
      <3>1. writer.id \in WriteIds \/ writer.id = 0
        BY <1>0
      <3>2. ptyInput' = Append(ptyInput, writer.id)
        BY <2>1
      <3>3. /\ Len(ptyInput) \in Nat /\ DOMAIN ptyInput = 1..Len(ptyInput)
            /\ \A i \in 1..Len(ptyInput) : ptyInput[i] \in WriteIds
        BY <1>0
      <3>4. /\ DOMAIN Append(ptyInput, writer.id) = 1..Len(ptyInput) + 1
            /\ Append(ptyInput, writer.id)[Len(ptyInput) + 1] = writer.id
            /\ \A i \in 1..Len(ptyInput) : Append(ptyInput, writer.id)[i] = ptyInput[i]
        BY <1>0, AppendNat
      <3> QED
        BY <1>0, <3>1, <3>2, <3>3, <3>4
    <2> HIDE DEF n
    <2>3. \A i \in 1..n : ptyInput[i] < writer.id
      BY <2>1, <2>2 DEF WriteInv
    <2>4. \A i, j \in 1..n + 1 : i < j => ptyInput'[i] < ptyInput'[j]
      <3> SUFFICES ASSUME NEW i \in 1..n + 1, NEW j \in 1..n + 1, i < j
                   PROVE  ptyInput'[i] < ptyInput'[j]
        OBVIOUS
      <3>1. i \in 1..n
        BY <2>2
      <3>2. CASE j = n + 1
        BY <2>2, <2>3, <3>1, <3>2
      <3>3. CASE j \in 1..n
        BY <2>2, <3>1, <3>3 DEF WriteInv
      <3> QED
        BY <2>2, <3>2, <3>3
    <2>5. Bounds(IF pc = "write_send" THEN writes - 1 ELSE writes)'
      BY <2>1, <2>2 DEF WriteInv, Bounds
    <2>6. writeQueue' # <<>> /\ Head(writeQueue') # Close =>
            \A i \in DOMAIN ptyInput' : ptyInput'[i] < Head(writeQueue').id
      BY <2>1, <2>2 DEF WriteInv
    <2>7. reply' = "write_ok" =>
            pc' # "write_send" /\ \E i \in DOMAIN ptyInput' : ptyInput'[i] = writes'
      <3>1. CASE writer.id = writes
        <4>1. pc # "write_send"
          BY <1>0, <2>1, <3>1 DEF WriteInv, Bounds
        <4> QED
          BY <2>1, <2>2, <3>1, <4>1
      <3>2. CASE writer.id # writes
        BY <2>1, <2>2, <3>2 DEF WriteInv
      <3> QED
        BY <3>1, <3>2
    <2> QED
      BY <2>1, <2>2, <2>4, <2>5, <2>6, <2>7 DEF WriteInv
  <1>13. CASE WriterFails
    <2>1. /\ writer.pc = "writing" /\ writer'.pc = "recv"
          /\ UNCHANGED <<pc, writes, ptyInput, writeQueue>>
          /\ reply' \in {reply, "write_error"}
      BY <1>13 DEF WriterFails, Answer, writerRest
    <2> QED
      BY <2>1 DEF WriteInv, Bounds
  <1>14. CASE WaiterReportsExit \/ WaiterFails
    <2>1. OnlyCloses
      BY <1>14 DEF WaiterReportsExit, WaiterFails, waiterRest, OnlyCloses
    <2> QED
      BY <2>1, ClosingIsHarmless
  <1>15. CASE WriteInput
    <2>1. /\ pc # "write_send" /\ UNCHANGED <<writer, ptyInput>>
          /\ writeQueue' = writeQueue \/ writeQueue' = <<Close>>
      BY <1>15 DEF WriteInput
    <2>2. OnlyCloses \/ (pc' = "write_send" /\ writes' = writes + 1 /\ reply' = "none")
      BY <1>15, <2>1 DEF WriteInput, StartWrite, OnlyCloses
    <2> QED
      BY <2>1, <2>2, ClosingIsHarmless, IssuingIsHarmless
  <1>16. CASE CloseInput \/ RunUntilExit \/ Drop
    <2>1. OnlyCloses
      BY <1>16 DEF CloseInput, RunUntilExit, Drop, OnlyCloses
    <2> QED
      BY <2>1, ClosingIsHarmless
  <1>17. CASE \/ TtyWrites \/ ChildExits \/ TtyHangsUp \/ CommandDeadline
              \/ DrainDeadline \/ UNCHANGED vars
    <2>1. OnlyCloses
      BY <1>17 DEF TtyWrites, ChildExits, TtyHangsUp, CommandDeadline, DrainDeadline,
                   runnerVars, OnlyCloses
    <2> QED
      BY <2>1, ClosingIsHarmless
  <1> HIDE DEF vars
  <1> QED
    BY Steps, <1>1, <1>2, <1>3, <1>4, <1>5, <1>7, <1>8, <1>9, <1>10, <1>11, <1>12,
       <1>13, <1>14, <1>15, <1>16, <1>17

(* Writes reach the PTY in the order they were issued and none twice, and  *)
(* an acknowledged one did reach it, however many timed out before         *)
(* (WritesInOrder).                                                        *)
THEOREM WritesOrdered == Spec => []WritesInOrder
  <1>1. Init => WriteInv
    BY DEF Init, WriteInv, Bounds
  <1>2. WriteInv => WritesInOrder
    BY DEF WriteInv, WritesInOrder
  <1>3. Spec => Init /\ [][Next]_vars
    BY PTL DEF Spec
  <1> QED
    BY <1>1, <1>2, <1>3, Invariance, WriteStep, PTL

-----------------------------------------------------------------------------
(* Completion.                                                             *)

(* What a run has handed to the callback: the Eof goes with eof_seen, and  *)
(* a run that joins the reader or has returned Ok announced both ends.     *)
RunSeen ==
    /\ exit => exits = 1
    /\ sawEof => eofSeen
    /\ eofs = IF eofSeen THEN 1 ELSE 0
    /\ pc = "join" => exit /\ sawEof
    /\ pc = "idle" /\ result = "ok" => exits = 1 /\ eofSeen

(* Unless a read failed the Eof follows the last chunk through the         *)
(* reader's hand and the channel, and nothing is written after it.         *)
AllRead ==
    "read" \notin Faults =>
      /\ \A i \in DOMAIN chan : chan[i] # ReadError
      /\ reader.pc = "send" => reader.msg # ReadError
      /\ reader.pc \in {"read", "send"} => ~eofSeen
      /\ reader.pc = "send" /\ reader.msg = Eof =>
           /\ ~ttyOpen /\ readCount = written
           /\ readCount = Len(delivered) + Len(chan)
      /\ reader.pc \in {"ending", "done"} /\ pc # "dropped" /\ ~eofSeen =>
           /\ ~ttyOpen /\ written = Len(delivered) + Len(chan) - 1
           /\ chan # <<>> /\ chan[Len(chan)] = Eof
      /\ eofSeen => ~ttyOpen /\ Len(delivered) = written /\ chan = <<>>

LEMMA SeenStep == IInv /\ RunSeen /\ [Next]_vars => RunSeen'
  <1> SUFFICES ASSUME IInv, IInv', RunSeen, [Next]_vars PROVE RunSeen'
    BY IInvStep
  <1>0. /\ exits \in Nat /\ exits' \in Nat /\ exits' <= 1 /\ eofs \in Nat
        /\ exit \in BOOLEAN /\ sawEof \in BOOLEAN /\ eofSeen \in BOOLEAN
        /\ ret \in {"idle", "post_exit", "tick_exit", "poll_exit"}
        /\ reply \in {"none", "write_ok", "write_error"}
    BY DEF IInv, TypeOK, ExitInv, ExitOnce
  <1> USE DEF RunSeen, ptyVars, readerVars, writerVars, callVars, sessionVars,
              runVars, timerVars, eventVars, vars, Return, StartWrite
  <1>1. ASSUME NEW at \in {"tick_exit", "post_exit", "poll_exit"},
               NEW next \in {"tick_deadline", "post_check", "tick_exit"},
               ObserveExit(at, next)
        PROVE  RunSeen'
    <2>1. /\ pc' = next \/ (pc' = "idle" /\ result' \in {"wait_error", "callback_error"})
          /\ exit' => exit \/ exits' = exits + 1
          /\ exits' = exits \/ exits' = exits + 1
          /\ exit => exits' = exits
          /\ UNCHANGED <<sawEof, eofSeen, eofs>>
      BY <1>1 DEF ObserveExit
    <2> QED
      BY <1>0, <2>1
  <1>2. CASE TickDeadline
    BY <1>0, <1>2 DEF TickDeadline, TimesOut, loopRest
  <1>3. CASE PostCheck
    BY <1>0, <1>3 DEF PostCheck, TimesOut, loopRest
  <1>4. CASE Join
    BY <1>0, <1>4 DEF Join
  <1>5. CASE WriteSends \/ WriteAnswered \/ WriteTimesOut
    BY <1>0, <1>5 DEF WriteSends, WriteAnswered, WriteTimesOut, writeRest
  <1>6. ASSUME NEW next \in {"post_exit", "tick_exit", "poll_exit"},
               NEW none \in {"post_exit", "poll_exit"}, Receive(next, none),
               UNCHANGED <<exit, exits>>
        PROVE  RunSeen'
    <2>1. /\ pc' \in {"write_send", "post_exit", "tick_exit", "poll_exit"}
             \/ (pc' = "idle" /\ result' \in {"closed", "callback_error", "read_error"})
          /\ \/ UNCHANGED <<eofSeen, sawEof, eofs>>
             \/ ~eofSeen /\ eofSeen' = TRUE /\ sawEof' = TRUE /\ eofs' = eofs + 1
      BY <1>6 DEF Receive, DeliverOutput, DeliverEof, Callback
    <2> QED
      BY <1>0, <1>6, <2>1
  <1>7. CASE TickReceives
    BY <1>6, <1>7 DEF TickReceives
  <1>8. CASE PollReceives
    BY <1>6, <1>8 DEF PollReceives
  <1>9. CASE \/ ReadOutput \/ ReadZero \/ ReadFails
             \/ ReaderSends \/ ReaderSendFails \/ ReaderEnds
    BY <1>9 DEF ReadOutput, ReadZero, ReadFails, ReaderSends, ReaderSendFails,
                ReaderEnds, readerRest
  <1>10. CASE \/ WriterReceives \/ WriterDisconnected \/ WriterWrites
              \/ WriterFails \/ WaiterReportsExit \/ WaiterFails
    BY <1>10 DEF WriterReceives, WriterDisconnected, WriterWrites, WriterFails,
                 WaiterReportsExit, WaiterFails, writerRest, waiterRest
  <1>11. CASE WriteInput
    BY <1>11 DEF WriteInput
  <1>12. CASE CloseInput \/ RunUntilExit \/ Drop
    BY <1>12 DEF CloseInput, RunUntilExit, Drop
  <1>13. CASE \/ TtyWrites \/ ChildExits \/ TtyHangsUp \/ CommandDeadline
              \/ DrainDeadline \/ UNCHANGED vars
    BY <1>13 DEF TtyWrites, ChildExits, TtyHangsUp, CommandDeadline, DrainDeadline,
                 runnerVars
  <1> HIDE DEF RunSeen, vars
  <1> QED
    BY Steps, <1>1, <1>2, <1>3, <1>4, <1>5, <1>7, <1>8, <1>9, <1>10, <1>11, <1>12, <1>13

(* What leaves the stream alone, and the runner where it is or alive.      *)
StaysRead ==
    /\ UNCHANGED <<ttyOpen, written, reader, readCount, chan, eofSeen, delivered>>
    /\ pc' # "dropped" => pc # "dropped"

LEMMA StayingIsHarmless == AllRead /\ StaysRead => AllRead'
  BY DEF AllRead, StaysRead

(* Taking the first message of a channel that holds no x: what is left     *)
(* holds none, and ends in e if e came last and was not the one taken.     *)
LEMMA Taken ==
    ASSUME NEW S, NEW s \in Seq(S), s # <<>>, NEW e, NEW x,
           \A i \in DOMAIN s : s[i] # x
    PROVE  /\ Len(s) \in Nat /\ Len(Tail(s)) = Len(s) - 1
           /\ Head(s) \in S /\ Head(s) # x /\ 1 \in DOMAIN s /\ Head(s) = s[1]
           /\ \A i \in DOMAIN Tail(s) : Tail(s)[i] # x
           /\ s[Len(s)] = e /\ Head(s) # e =>
                Tail(s) # <<>> /\ Tail(s)[Len(Tail(s))] = e
           /\ Len(s) = 1 => Tail(s) = <<>>
  <1>1. /\ Len(s) \in Nat \ {0} /\ Len(Tail(s)) = Len(s) - 1 /\ DOMAIN s = 1..Len(s)
        /\ Tail(s) \in Seq(S) /\ Head(s) = s[1] /\ Head(s) \in S
        /\ DOMAIN Tail(s) = 1..Len(s) - 1
        /\ \A i \in 1..Len(s) - 1 : Tail(s)[i] = s[i + 1]
    BY Shift
  <1>2. ASSUME s[Len(s)] = e, Head(s) # e
        PROVE  Tail(s) # <<>> /\ Tail(s)[Len(Tail(s))] = e
    <2>1. Len(s) # 1
      BY <1>1, <1>2
    <2> QED
      BY <1>1, <1>2, <2>1
  <1>3. \A i \in DOMAIN Tail(s) : Tail(s)[i] # x
    BY <1>1
  <1>4. 1 \in DOMAIN s /\ Head(s) # x
    BY <1>1
  <1>5. Len(s) = 1 => Tail(s) = <<>>
    BY <1>1
  <1> QED
    BY <1>1, <1>2, <1>3, <1>4, <1>5

LEMMA Put ==
    ASSUME NEW S, NEW s \in Seq(S), NEW m \in S, NEW x, m # x,
           \A i \in DOMAIN s : s[i] # x
    PROVE  /\ Len(s) \in Nat /\ Len(Append(s, m)) = Len(s) + 1
           /\ Append(s, m) # <<>> /\ Append(s, m)[Len(Append(s, m))] = m
           /\ \A i \in DOMAIN Append(s, m) : Append(s, m)[i] # x
  OBVIOUS

LEMMA OutputNumber ==
    ASSUME NEW m \in Envelopes, m.kind = "output"
    PROVE  m.n \in 1..Chunks /\ m # Eof /\ m # ReadError
  BY DEF Envelopes, Eof, ReadError

LEMMA ReadStep == IInv /\ AllRead /\ [Next]_vars => AllRead'
  <1> SUFFICES ASSUME IInv, AllRead, [Next]_vars, "read" \notin Faults PROVE AllRead'
    BY DEF AllRead
  <1>0. /\ chan \in Seq(Envelopes) /\ delivered \in Seq(1..Chunks)
        /\ Len(delivered) \in Nat /\ Len(chan) \in Nat /\ DOMAIN chan = 1..Len(chan)
        /\ readCount \in Nat /\ written \in Nat
        /\ reader.pc = "send" => reader.msg \in Envelopes
        /\ ttyOpen \in BOOLEAN /\ eofSeen \in BOOLEAN
    BY RuntimeAssumption DEF IInv, TypeOK, Counts
  <1>r. reader \in [pc : ReaderPcs, msg : Envelopes \cup {NoMessage}]
    BY DEF IInv, TypeOK
  <1>n. /\ Len(delivered) \in Nat /\ Len(chan) \in Nat
        /\ readCount \in Nat /\ written \in Nat
    BY <1>0
  <1>a. /\ \A i \in DOMAIN chan : chan[i] # ReadError
        /\ reader.pc = "send" => reader.msg # ReadError
        /\ reader.pc \in {"read", "send"} => ~eofSeen
    BY DEF AllRead
  <1>b. reader.pc = "send" /\ reader.msg = Eof =>
          ~ttyOpen /\ readCount = written /\ readCount = Len(delivered) + Len(chan)
    BY DEF AllRead
  <1>c. reader.pc \in {"ending", "done"} /\ pc # "dropped" /\ ~eofSeen =>
          /\ ~ttyOpen /\ written = Len(delivered) + Len(chan) - 1
          /\ chan # <<>> /\ chan[Len(chan)] = Eof
    BY DEF AllRead
  <1>d. eofSeen => ~ttyOpen /\ Len(delivered) = written /\ chan = <<>>
    BY DEF AllRead
  <1> USE DEF ptyVars, readerVars, writerVars, callVars, sessionVars, runVars,
              timerVars, eventVars, vars, Return, StartWrite
  <1>1. ASSUME NEW at \in {"tick_exit", "post_exit", "poll_exit"},
               NEW next \in {"tick_deadline", "post_check", "tick_exit"},
               ObserveExit(at, next)
        PROVE  StaysRead
    BY <1>1 DEF ObserveExit, loopRest, StaysRead
  <1>2. CASE TickDeadline
    BY <1>2, StayingIsHarmless DEF TickDeadline, TimesOut, loopRest, StaysRead
  <1>3. CASE PostCheck
    BY <1>3, StayingIsHarmless DEF PostCheck, TimesOut, loopRest, StaysRead
  <1>4. CASE Join \/ WriteSends \/ WriteAnswered \/ WriteTimesOut
    BY <1>4, StayingIsHarmless
       DEF Join, WriteSends, WriteAnswered, WriteTimesOut, writeRest, loopRest, StaysRead
  <1>5. ASSUME NEW next, NEW none, Receive(next, none), pc # "dropped",
               UNCHANGED <<ttyOpen, written, reader, readCount>>
        PROVE  AllRead'
    <2>1. CASE chan = <<>>
      <3>1. ~DeliverEof(next) \/ eofSeen \/ reader.pc # "done"
        BY <1>5, <2>1 DEF AllRead
      <3>2. chan' = chan /\ UNCHANGED <<delivered, eofSeen>>
        BY <1>5, <2>1, <3>1 DEF Receive
      <3> QED
        BY <1>5, <3>2 DEF AllRead
    <2>2. CASE chan # <<>>
      <3>1. /\ Len(chan) \in Nat /\ Len(Tail(chan)) = Len(chan) - 1
            /\ Head(chan) \in Envelopes /\ Head(chan) # ReadError
            /\ 1 \in DOMAIN chan /\ Head(chan) = chan[1]
            /\ \A i \in DOMAIN Tail(chan) : Tail(chan)[i] # ReadError
            /\ chan[Len(chan)] = Eof /\ Head(chan) # Eof =>
                 Tail(chan) # <<>> /\ Tail(chan)[Len(Tail(chan))] = Eof
            /\ Len(chan) = 1 => Tail(chan) = <<>>
        BY <1>0, <1>a, <2>2, Taken
      <3>2. ~eofSeen
        BY <1>d, <2>2
      <3>3. chan' = Tail(chan)
        BY <1>5, <2>2 DEF Receive
      <3>4. CASE Head(chan).kind = "output" /\ DeliverOutput(Head(chan).n, next)
        <4>1. Head(chan).n \in 1..Chunks /\ Head(chan) # Eof
          BY <3>1, <3>4, OutputNumber
        <4>2. delivered' = Append(delivered, Head(chan).n) /\ eofSeen' = eofSeen
          BY <3>4 DEF DeliverOutput
        <4>3. Len(Append(delivered, Head(chan).n)) = Len(delivered) + 1
          BY <1>0, <4>1
        <4>4. Len(delivered') + Len(chan') = Len(delivered) + Len(chan)
          <5>1. Len(delivered') = Len(delivered) + 1 /\ Len(chan') = Len(chan) - 1
            BY <3>1, <3>3, <4>2, <4>3
          <5> QED
            BY <1>n, <5>1
        <4>5. reader.pc \in {"ending", "done"} => chan' # <<>> /\ chan'[Len(chan')] = Eof
          BY <1>5, <1>c, <3>1, <3>2, <3>3, <4>1
        <4>6. \A i \in DOMAIN chan' : chan'[i] # ReadError
          BY <3>1, <3>3
        <4> QED
          BY <1>5, <1>a, <1>b, <1>c, <3>2, <4>2, <4>4, <4>5, <4>6 DEF AllRead
      <3>5. CASE Head(chan) = Eof /\ DeliverEof(next)
        <4>1. /\ reader.pc \in {"ending", "done"} /\ Len(chan) = 1
          <5>1. chan[1] # Output(Len(delivered) + 1)
            BY <3>1, <3>5 DEF Output, Eof
          <5> QED
            BY <3>1, <5>1 DEF IInv, StreamInv, InFlight
        <4>2. ~ttyOpen /\ Len(delivered) = written
          BY <1>n, <1>5, <1>c, <3>2, <4>1
        <4>3. eofSeen' = TRUE /\ delivered' = delivered /\ chan' = <<>>
          BY <3>1, <3>3, <3>5, <4>1 DEF DeliverEof
        <4>4. reader.pc \notin {"read", "send"} /\ DOMAIN chan' = {}
          BY <4>1, <4>3
        <4> QED
          BY <1>5, <4>2, <4>3, <4>4 DEF AllRead
      <3> QED
        BY <1>5, <2>2, <3>1, <3>4, <3>5 DEF Receive
    <2> QED
      BY <2>1, <2>2
  <1>6. CASE TickReceives
    BY <1>5, <1>6 DEF TickReceives, loopRest
  <1>7. CASE PollReceives
    BY <1>5, <1>7 DEF PollReceives, loopRest
  <1>8. CASE ReadOutput
    <2>1. /\ reader'.pc = "send" /\ reader'.msg = Output(readCount + 1)
          /\ reader.pc = "read"
          /\ UNCHANGED <<ttyOpen, written, chan, eofSeen, delivered, pc>>
      BY <1>8 DEF ReadOutput, InHand, readerRest
    <2>2. reader'.msg # Eof /\ reader'.msg # ReadError
      BY <2>1 DEF Output, Eof, ReadError
    <2> QED
      BY <2>1, <2>2 DEF AllRead
  <1>9. CASE ReadZero
    <2>1. /\ reader'.pc = "send" /\ reader'.msg = Eof /\ reader.pc = "read"
          /\ readCount = written /\ ~ttyOpen
          /\ UNCHANGED <<ttyOpen, written, readCount, chan, eofSeen, delivered, pc>>
      BY <1>9 DEF ReadZero, InHand, readerRest
    <2>2. Eof # ReadError /\ readCount = Len(delivered) + Len(chan)
      BY <2>1 DEF Eof, ReadError, IInv, StreamInv, InFlight
    <2> QED
      BY <2>1, <2>2 DEF AllRead
  <1>10. CASE ReadFails
    BY <1>10 DEF ReadFails
  <1>11. CASE ReaderSends
    <2>1. /\ reader.pc = "send" /\ pc # "dropped" /\ chan' = Append(chan, reader.msg)
          /\ reader'.pc = IF reader.msg.kind = "output" THEN "read" ELSE "ending"
          /\ UNCHANGED <<ttyOpen, written, readCount, eofSeen, delivered, pc>>
      BY <1>11 DEF ReaderSends, readerRest
    <2>2. /\ ~eofSeen /\ reader.msg # ReadError
          /\ reader.msg.kind = "output" \/ reader.msg = Eof
      BY <1>0, <2>1 DEF AllRead, Envelopes
    <2>3. /\ Len(chan') = Len(chan) + 1 /\ chan' # <<>>
          /\ chan'[Len(chan')] = reader.msg
          /\ \A i \in DOMAIN chan' : chan'[i] # ReadError
      <3>1. reader.msg \in Envelopes /\ reader.msg # ReadError /\ chan \in Seq(Envelopes)
        BY <1>0, <1>a, <2>1
      <3>2. /\ Len(Append(chan, reader.msg)) = Len(chan) + 1
            /\ Append(chan, reader.msg) # <<>>
            /\ Append(chan, reader.msg)[Len(Append(chan, reader.msg))] = reader.msg
            /\ \A i \in DOMAIN Append(chan, reader.msg) :
                 Append(chan, reader.msg)[i] # ReadError
        BY <1>a, <3>1, Put
      <3>3. chan' = Append(chan, reader.msg)
        BY <2>1
      <3> QED
        BY <3>2, <3>3
    <2>4. \A i \in DOMAIN chan' : chan'[i] # ReadError
      BY <2>3
    <2>5. CASE reader.msg.kind = "output"
      BY <2>1, <2>2, <2>4, <2>5 DEF AllRead
    <2>6. CASE reader.msg = Eof
      <3>1. reader'.pc = "ending"
        BY <2>1, <2>6 DEF Eof
      <3>2. ~ttyOpen /\ written = Len(delivered) + Len(chan)
        BY <1>n, <1>b, <2>1, <2>6
      <3>3. written' = Len(delivered') + Len(chan') - 1
        BY <1>n, <2>1, <2>3, <3>2
      <3> QED
        BY <2>1, <2>2, <2>3, <2>4, <2>6, <3>1, <3>2, <3>3 DEF AllRead
    <2> QED
      BY <2>2, <2>5, <2>6
  <1>12. CASE ReaderSendFails
    <2>1. /\ pc' = "dropped" /\ reader.pc = "send" /\ reader'.pc = "ending"
          /\ UNCHANGED <<ttyOpen, written, readCount, chan, eofSeen, delivered>>
      BY <1>12 DEF ReaderSendFails, readerRest
    <2> QED
      BY <2>1 DEF AllRead
  <1>13. CASE ReaderEnds
    <2>1. /\ reader.pc = "ending" /\ reader'.pc = "done"
          /\ UNCHANGED <<ttyOpen, written, readCount, chan, eofSeen, delivered, pc>>
      BY <1>r, <1>13 DEF ReaderEnds, readerRest
    <2> QED
      BY <2>1 DEF AllRead
  <1>14. CASE \/ WriterReceives \/ WriterDisconnected \/ WriterWrites
              \/ WriterFails \/ WaiterReportsExit \/ WaiterFails
    <2>1. StaysRead
      BY <1>14 DEF WriterReceives, WriterDisconnected, WriterWrites, WriterFails,
                   WaiterReportsExit, WaiterFails, writerRest, waiterRest, StaysRead
    <2> QED
      BY <2>1, StayingIsHarmless
  <1>15. CASE WriteInput \/ CloseInput \/ RunUntilExit \/ Drop
    <2>1. StaysRead
      BY <1>15 DEF WriteInput, CloseInput, RunUntilExit, Drop, StaysRead
    <2> QED
      BY <2>1, StayingIsHarmless
  <1>16. CASE TtyWrites
    <2>1. ttyOpen /\ UNCHANGED <<ttyOpen, reader, readCount, chan, eofSeen, delivered, pc>>
      BY <1>16 DEF TtyWrites, runnerVars
    <2> QED
      BY <2>1 DEF AllRead
  <1>17. CASE TtyHangsUp
    <2>1. /\ ttyOpen' = FALSE
          /\ UNCHANGED <<written, reader, readCount, chan, eofSeen, delivered, pc>>
      BY <1>17 DEF TtyHangsUp, runnerVars
    <2> QED
      BY <2>1 DEF AllRead
  <1>18. CASE ChildExits \/ CommandDeadline \/ DrainDeadline \/ UNCHANGED vars
    <2>1. StaysRead
      BY <1>18 DEF ChildExits, CommandDeadline, DrainDeadline, runnerVars, StaysRead
    <2> QED
      BY <2>1, StayingIsHarmless
  <1> HIDE DEF vars
  <1> QED
    BY Steps, StayingIsHarmless, <1>1, <1>2, <1>3, <1>4, <1>6, <1>7, <1>8, <1>9, <1>10,
       <1>11, <1>12, <1>13, <1>14, <1>15, <1>16, <1>17, <1>18

(* A run that returns Ok announced Exit and Eof and, unless a read failed, *)
(* delivered every chunk the PTY ever carried (CompleteRun).               *)
THEOREM RunsComplete == Spec => []CompleteRun
  <1>1. Init => RunSeen /\ AllRead
    BY DEF Init, RunSeen, AllRead
  <1>2. RunSeen /\ AllRead => CompleteRun
    BY DEF RunSeen, AllRead, CompleteRun
  <1>3. Spec => Init /\ [][Next]_vars
    BY PTL DEF Spec
  <1> QED
    BY <1>1, <1>2, <1>3, Invariance, SeenStep, ReadStep, PTL

-----------------------------------------------------------------------------
(* The refinement of PtyEventStream.                                       *)
(*                                                                         *)
(* Initial states of the runtime are the stream's, and each of its steps   *)
(* is a step of the stream or changes nothing the stream speaks of.        *)

(* A chunk in the channel was read and one that was read was written; the  *)
(* Eof is the last thing the channel and the reader held.                  *)
Backed ==
    /\ readCount <= written
    /\ \A i \in DOMAIN chan : chan[i].n <= readCount
    /\ eofSeen => chan = <<>> /\ reader.pc \in {"ending", "done"}

StreamIInv == IInv /\ RunSeen /\ AllRead /\ Backed

(* What touches neither the channel nor what has been read from the PTY.   *)
StaysBacked == UNCHANGED <<written, reader, readCount, chan, eofSeen>>

LEMMA StayingIsBacked == Backed /\ StaysBacked => Backed'
  BY DEF Backed, StaysBacked

(* Taking the first of the messages leaves messages of the same kind, and  *)
(* putting one more needs only that it is of that kind.                    *)
LEMMA TakenBounded ==
    ASSUME NEW S, NEW s \in Seq(S), s # <<>>, NEW n, \A i \in DOMAIN s : s[i].n <= n
    PROVE  \A i \in DOMAIN Tail(s) : Tail(s)[i].n <= n
  <1>1. /\ Len(s) \in Nat \ {0} /\ DOMAIN s = 1..Len(s)
        /\ DOMAIN Tail(s) = 1..Len(s) - 1
        /\ \A i \in 1..Len(s) - 1 : Tail(s)[i] = s[i + 1]
    BY Shift
  <1> QED
    BY <1>1

LEMMA PutBounded ==
    ASSUME NEW S, NEW s \in Seq(S), NEW m \in S, NEW n, m.n <= n,
           \A i \in DOMAIN s : s[i].n <= n
    PROVE  \A i \in DOMAIN Append(s, m) : Append(s, m)[i].n <= n
  OBVIOUS

LEMMA BackedStep == IInv /\ Backed /\ [Next]_vars => Backed'
  <1> SUFFICES ASSUME IInv, Backed, [Next]_vars PROVE Backed'
    OBVIOUS
  <1>0. /\ chan \in Seq(Envelopes) /\ readCount \in Nat /\ written \in Nat
        /\ reader.pc = "send" => reader.msg \in Envelopes
        /\ Len(chan) \in Nat /\ DOMAIN chan = 1..Len(chan)
    BY RuntimeAssumption DEF IInv, TypeOK, Counts
  <1>n. readCount \in Nat /\ written \in Nat /\ readCount <= written
    BY <1>0 DEF Backed
  <1>a. \A i \in DOMAIN chan : chan[i].n <= readCount
    BY DEF Backed
  <1>b. eofSeen => chan = <<>> /\ reader.pc \in {"ending", "done"}
    BY DEF Backed
  <1> USE DEF ptyVars, readerVars, writerVars, callVars, sessionVars, runVars,
              timerVars, eventVars, vars
  <1>1. ASSUME NEW at \in {"tick_exit", "post_exit", "poll_exit"},
               NEW next \in {"tick_deadline", "post_check", "tick_exit"},
               ObserveExit(at, next)
        PROVE  StaysBacked
    BY <1>1 DEF ObserveExit, loopRest, StaysBacked
  <1>2. CASE TickDeadline \/ PostCheck \/ Join \/ WriteSends \/ WriteAnswered \/ WriteTimesOut
    <2>1. StaysBacked
      BY <1>2 DEF TickDeadline, PostCheck, Join, WriteSends, WriteAnswered,
                  WriteTimesOut, writeRest, loopRest, StaysBacked
    <2> QED
      BY <2>1, StayingIsBacked
  <1>3. ASSUME NEW next, NEW none, Receive(next, none),
               UNCHANGED <<written, reader, readCount>>
        PROVE  Backed'
    <2>1. CASE chan = <<>>
      <3>1. chan' = chan /\ (eofSeen' => eofSeen \/ reader.pc = "done")
        <4>1. \/ reader.pc = "done" /\ chan' = chan
              \/ chan' = chan /\ eofSeen' = eofSeen
          BY <1>3, <2>1 DEF Receive
        <4> QED
          BY <4>1
      <3> QED
        BY <1>3, <2>1, <3>1 DEF Backed
    <2>2. CASE chan # <<>>
      <3>1. chan' = Tail(chan) /\ ~eofSeen
        BY <1>3, <1>b, <2>2 DEF Receive
      <3>2. \A i \in DOMAIN Tail(chan) : Tail(chan)[i].n <= readCount
        BY <1>0, <1>a, <2>2, TakenBounded
      <3>3. eofSeen' => Head(chan) = Eof
        BY <1>3, <2>2, <3>1 DEF Receive, DeliverOutput
      <3>4. ASSUME Head(chan) = Eof
            PROVE  Tail(chan) = <<>> /\ reader.pc \in {"ending", "done"}
        <4>1. Head(chan) = chan[1] /\ 1 \in DOMAIN chan
              /\ (Len(chan) = 1 => Tail(chan) = <<>>)
          BY <1>0, <2>2
        <4>2. chan[1] # Output(Len(delivered) + 1)
          BY <3>4, <4>1 DEF Output, Eof
        <4> QED
          BY <4>1, <4>2 DEF IInv, StreamInv, InFlight
      <3> QED
        BY <1>3, <1>n, <3>1, <3>2, <3>3, <3>4 DEF Backed
    <2> QED
      BY <2>1, <2>2
  <1>4. CASE TickReceives \/ PollReceives
    BY <1>3, <1>4 DEF TickReceives, PollReceives, loopRest
  <1>5. CASE ReadOutput
    <2>1. /\ readCount' = readCount + 1 /\ readCount < written /\ reader.pc = "read"
          /\ UNCHANGED <<written, chan, eofSeen>>
      BY <1>5 DEF ReadOutput, readerRest
    <2>2. \A i \in DOMAIN chan : chan[i].n \in Nat
      <3> SUFFICES ASSUME NEW i \in DOMAIN chan PROVE chan[i].n \in Nat
        OBVIOUS
      <3>1. chan[i] \in Envelopes
        BY <1>0
      <3> QED
        BY <3>1, RuntimeAssumption DEF Envelopes, Eof, ReadError
    <2>3. \A i \in DOMAIN chan : chan[i].n <= readCount + 1
      BY <1>n, <1>a, <2>2
    <2>4. ~eofSeen
      BY <1>b, <2>1
    <2> QED
      BY <1>n, <2>1, <2>3, <2>4 DEF Backed
  <1>6. CASE ReadZero \/ ReadFails
    <2>1. /\ reader.pc = "read"
          /\ UNCHANGED <<written, readCount, chan, eofSeen>>
      BY <1>6 DEF ReadZero, ReadFails, readerRest
    <2> QED
      BY <2>1 DEF Backed
  <1>7. CASE ReaderSends
    <2>1. /\ reader.pc = "send" /\ chan' = Append(chan, reader.msg)
          /\ UNCHANGED <<written, readCount, eofSeen>>
      BY <1>7 DEF ReaderSends, readerRest
    <2>2. reader.msg \in Envelopes /\ reader.msg.n <= readCount
      <3>1. reader.msg = Output(readCount) \/ reader.msg \in {Eof, ReadError}
        BY <2>1 DEF IInv, StreamInv, InFlight
      <3>2. reader.msg.n = readCount \/ reader.msg.n = 0
        BY <3>1 DEF Output, Eof, ReadError
      <3>3. reader.msg.n <= readCount
        BY <1>n, <3>2
      <3> QED
        BY <1>0, <2>1, <3>3
    <2>3. \A i \in DOMAIN Append(chan, reader.msg) : Append(chan, reader.msg)[i].n <= readCount
      BY <1>0, <1>a, <2>2, PutBounded
    <2>4. ~eofSeen
      BY <1>b, <2>1
    <2> QED
      BY <1>n, <2>1, <2>3, <2>4 DEF Backed
  <1>8. CASE ReaderSendFails \/ ReaderEnds
    <2>1. UNCHANGED <<written, readCount, chan, eofSeen>> /\
          (reader.pc \in {"ending", "done"} => reader'.pc = "done")
      <3>1. CASE ReaderSendFails
        BY <3>1 DEF ReaderSendFails, readerRest
      <3>2. CASE ReaderEnds
        <4>1. reader \in [pc : ReaderPcs, msg : Envelopes \cup {NoMessage}]
          BY DEF IInv, TypeOK
        <4> QED
          BY <3>2, <4>1 DEF ReaderEnds, readerRest
      <3> QED
        BY <1>8, <3>1, <3>2
    <2> QED
      BY <2>1 DEF Backed
  <1>9. CASE \/ WriterReceives \/ WriterDisconnected \/ WriterWrites
             \/ WriterFails \/ WaiterReportsExit \/ WaiterFails
    <2>1. StaysBacked
      BY <1>9 DEF WriterReceives, WriterDisconnected, WriterWrites, WriterFails,
                  WaiterReportsExit, WaiterFails, writerRest, waiterRest, StaysBacked
    <2> QED
      BY <2>1, StayingIsBacked
  <1>10. CASE WriteInput \/ CloseInput \/ RunUntilExit \/ Drop
    <2>1. StaysBacked
      BY <1>10 DEF WriteInput, CloseInput, RunUntilExit, Drop, StaysBacked
    <2> QED
      BY <2>1, StayingIsBacked
  <1>11. CASE TtyWrites
    <2>1. written' = written + 1 /\ UNCHANGED <<reader, readCount, chan, eofSeen>>
      BY <1>11 DEF TtyWrites, runnerVars
    <2> QED
      BY <1>n, <2>1 DEF Backed
  <1>12. CASE TtyHangsUp \/ ChildExits \/ CommandDeadline \/ DrainDeadline \/ UNCHANGED vars
    <2>1. StaysBacked
      BY <1>12 DEF TtyHangsUp, ChildExits, CommandDeadline, DrainDeadline, runnerVars,
                   StaysBacked
    <2> QED
      BY <2>1, StayingIsBacked
  <1> HIDE DEF vars
  <1> QED
    BY Steps, StayingIsBacked, <1>1, <1>2, <1>4, <1>5, <1>6, <1>7, <1>8, <1>9, <1>10,
       <1>11, <1>12

LEMMA InitStream == Init => Stream!Init
  BY DEF Init, Stream!Init

LEMMA StreamSimulation ==
    StreamIInv /\ StreamIInv' /\ [Next]_vars => [Stream!Next]_(Stream!vars)
  <1> SUFFICES ASSUME StreamIInv, StreamIInv', [Next]_vars
               PROVE  [Stream!Next]_(Stream!vars)
    OBVIOUS
  <1>0. /\ chan \in Seq(Envelopes) /\ delivered \in Seq(1..Chunks)
        /\ readCount \in Nat /\ written \in Nat /\ readCount <= written
        /\ Len(delivered) \in Nat /\ exits \in Nat /\ exits' \in Nat /\ exits' <= 1
        /\ eofSeen \in BOOLEAN /\ eofSeen' \in BOOLEAN
        /\ eofs = (IF eofSeen THEN 1 ELSE 0) /\ eofs' = (IF eofSeen' THEN 1 ELSE 0)
        /\ ttyOpen \in BOOLEAN
    BY RuntimeAssumption DEF StreamIInv, IInv, TypeOK, RunSeen, Backed, ExitInv, ExitOnce
  <1> DEFINE Unseen == UNCHANGED <<child, ttyOpen, written, delivered, eofs, exits>>
  <1>s. Unseen => [Stream!Next]_(Stream!vars)
    BY DEF Stream!vars
  <1> HIDE DEF Unseen
  <1> USE DEF ptyVars, readerVars, writerVars, callVars, sessionVars, runVars,
              timerVars, eventVars, vars
  <1>1. ASSUME NEW at \in {"tick_exit", "post_exit", "poll_exit"},
               NEW next \in {"tick_deadline", "post_check", "tick_exit"},
               ObserveExit(at, next)
        PROVE  [Stream!Next]_(Stream!vars)
    <2>1. /\ UNCHANGED <<child, ttyOpen, written, delivered, eofs>>
          /\ \/ exits' = exits
             \/ exits' = exits + 1 /\ (waiter = "exit" \/ pendingExit)
      BY <1>1 DEF ObserveExit, RefreshFinds, loopRest
    <2>2. CASE exits' = exits
      BY <1>s, <2>1, <2>2 DEF Unseen
    <2>3. CASE exits' = exits + 1 /\ (waiter = "exit" \/ pendingExit)
      <3>1. child = "exited" /\ exits = 0
        BY <1>0, <2>3 DEF StreamIInv, IInv, ExitInv
      <3>2. ~(exits > 0) /\ (exits' > 0) = TRUE
        BY <2>3, <3>1
      <3>3. Stream!Exit
        BY <2>1, <3>1, <3>2 DEF Stream!Exit
      <3> QED
        BY <3>3 DEF Stream!Next
    <2> QED
      BY <2>1, <2>2, <2>3
  <1>2. CASE TickDeadline \/ PostCheck \/ Join \/ WriteSends \/ WriteAnswered \/ WriteTimesOut
    <2>1. Unseen
      BY <1>2 DEF TickDeadline, PostCheck, Join, WriteSends, WriteAnswered,
                  WriteTimesOut, writeRest, loopRest, Unseen
    <2> QED
      BY <1>s, <2>1
  <1>3. ASSUME NEW next, NEW none, Receive(next, none), pc # "dropped",
               UNCHANGED <<child, ttyOpen, written, reader, readCount, exits>>
        PROVE  [Stream!Next]_(Stream!vars)
    <2>1. CASE UNCHANGED <<delivered, eofSeen>>
      <3>1. eofs' = eofs
        BY <1>0, <2>1
      <3> QED
        BY <1>3, <1>s, <2>1, <3>1 DEF Unseen
    <2>2. CASE /\ chan # <<>> /\ Head(chan).kind = "output"
               /\ DeliverOutput(Head(chan).n, next)
      <3>1. /\ Head(chan) \in Envelopes /\ 1 \in DOMAIN chan /\ Head(chan) = chan[1]
        BY <1>0, <2>2, Shift
      <3>2. chan[1] = Output(Len(delivered) + 1)
        BY <2>2, <3>1, OutputNumber DEF StreamIInv, IInv, StreamInv, InFlight
      <3>3. Head(chan).n = Len(delivered) + 1
        BY <3>1, <3>2 DEF Output
      <3>4. Len(delivered) < written
        <4>1. Len(delivered) + 1 <= readCount
          BY <3>1, <3>3 DEF StreamIInv, Backed
        <4> QED
          BY <1>0, <4>1
      <3>5. delivered' = Append(delivered, Len(delivered) + 1) /\ eofs' = eofs
        BY <2>2, <3>3 DEF DeliverOutput
      <3>6. ~eofSeen
        BY <2>2 DEF StreamIInv, Backed
      <3>7. Stream!Output
        BY <1>0, <1>3, <3>4, <3>5, <3>6 DEF Stream!Output
      <3> QED
        BY <3>7 DEF Stream!Next
    <2>3. CASE /\ DeliverEof(next) /\ ~eofSeen
               /\ \/ chan # <<>> /\ Head(chan) = Eof
                  \/ chan = <<>> /\ reader.pc = "done"
      <3>1. delivered' = delivered /\ eofSeen' = TRUE
        BY <2>3 DEF DeliverEof
      <3>2. eofs = 0 /\ eofs' = 1
        BY <1>0, <2>3, <3>1
      <3>3. "read" \in Faults \/ (~ttyOpen /\ Len(delivered) = written)
        BY <1>3, <3>1 DEF StreamIInv, AllRead
      <3>4. Stream!Eof
        BY <1>3, <3>1, <3>2, <3>3 DEF Stream!Eof
      <3> QED
        BY <3>4 DEF Stream!Next
    <2> QED
      BY <1>3, <2>1, <2>2, <2>3 DEF Receive
  <1>4. CASE TickReceives \/ PollReceives
    BY <1>3, <1>4 DEF TickReceives, PollReceives, loopRest
  <1>5. CASE \/ ReadOutput \/ ReadZero \/ ReadFails
             \/ ReaderSends \/ ReaderSendFails \/ ReaderEnds
    <2>1. Unseen
      BY <1>5 DEF ReadOutput, ReadZero, ReadFails, ReaderSends, ReaderSendFails,
                  ReaderEnds, readerRest, Unseen
    <2> QED
      BY <1>s, <2>1
  <1>6. CASE \/ WriterReceives \/ WriterDisconnected \/ WriterWrites
             \/ WriterFails \/ WaiterReportsExit \/ WaiterFails
    <2>1. Unseen
      BY <1>6 DEF WriterReceives, WriterDisconnected, WriterWrites, WriterFails,
                  WaiterReportsExit, WaiterFails, writerRest, waiterRest, Unseen
    <2> QED
      BY <1>s, <2>1
  <1>7. CASE WriteInput \/ CloseInput \/ RunUntilExit \/ Drop
    <2>1. Unseen
      BY <1>7 DEF WriteInput, CloseInput, RunUntilExit, Drop, Unseen
    <2> QED
      BY <1>s, <2>1
  <1>8. CASE TtyWrites \/ ChildExits \/ TtyHangsUp
    <2>1. CASE TtyWrites
      <3>1. Stream!ChildSide
        BY <2>1 DEF TtyWrites, runnerVars, Stream!ChildSide
      <3> QED
        BY <3>1 DEF Stream!Next
    <2>2. CASE ChildExits
      <3>1. Stream!ChildSide
        BY <2>2 DEF ChildExits, runnerVars, Stream!ChildSide
      <3> QED
        BY <3>1 DEF Stream!Next
    <2>3. CASE TtyHangsUp
      <3>1. Stream!ChildSide
        BY <2>3 DEF TtyHangsUp, runnerVars, Stream!ChildSide
      <3> QED
        BY <3>1 DEF Stream!Next
    <2> QED
      BY <1>8, <2>1, <2>2, <2>3
  <1>9. CASE CommandDeadline \/ DrainDeadline \/ UNCHANGED vars
    <2>1. Unseen
      BY <1>9 DEF CommandDeadline, DrainDeadline, runnerVars, Unseen
    <2> QED
      BY <1>s, <2>1
  <1> HIDE DEF vars
  <1> QED
    BY Steps, <1>1, <1>2, <1>4, <1>5, <1>6, <1>7, <1>8, <1>9

(* Whatever the threads, the channels and the deadlines do, the callback   *)
(* sees a behaviour of the event stream a session promises (StreamSpec).   *)
THEOREM ImplementsStream == Spec => StreamSpec
  <1>1. Init => RunSeen /\ AllRead /\ Backed
    BY RuntimeAssumption DEF Init, RunSeen, AllRead, Backed
  <1>2. Spec => Init /\ [][Next]_vars
    BY PTL DEF Spec
  <1>3. Spec => []StreamIInv
    BY <1>1, <1>2, Invariance, SeenStep, ReadStep, BackedStep, PTL DEF StreamIInv
  <1> QED
    BY <1>2, <1>3, InitStream, StreamSimulation, PTL DEF StreamSpec, Stream!Spec

=============================================================================
