----------------------------- MODULE PtyRuntime -----------------------------
(***************************************************************************)
(* The PTY session runner of crates/terminal-pty/src/runtime.rs.           *)
(*                                                                         *)
(* Four threads share three channels.  The reader thread turns the bytes   *)
(* of the PTY into envelopes on a bounded channel; the writer thread takes *)
(* commands from a channel of capacity one and answers each on a reply     *)
(* channel of its own; the wait thread reports the child's exit once.  The *)
(* caller owns the PtySessionRunner and alternates between write_input,    *)
(* close_input and run_until_exit_with_responses, then drops it.           *)
(*                                                                         *)
(* An output chunk is its sequence number; a write is its sequence number. *)
(* A deadline is a flag that a timer action raises, so that every order of *)
(* expiry and progress is explored.  Each program counter of the runner is *)
(* a place where another thread or a timer can come in between.            *)
(***************************************************************************)
EXTENDS Integers, Sequences

CONSTANTS
    Chunks,         \* bound: output chunks the PTY may carry
    Queries,        \* the chunks whose callback returns a response to write
    EventCapacity,  \* config.event_capacity, the reader channel's bound
    EventsPerTick,  \* M2_MAX_EVENTS_PER_TICK
    MaxWrites,      \* bound: write_input calls
    MaxRuns,        \* bound: run_until_exit_with_responses calls
    Faults          \* the failures the environment may inject

FaultKinds == {"read", "write", "wait", "kill", "callback"}

ASSUME RuntimeAssumption ==
    /\ Chunks \in Nat
    /\ Queries \subseteq 1..Chunks
    /\ EventCapacity \in Nat \ {0}
    /\ EventsPerTick \in Nat \ {0}
    /\ MaxWrites \in Nat
    /\ MaxRuns \in Nat
    /\ Faults \subseteq FaultKinds

VARIABLES
    \* the PTY and the child, as the backend shows them
    child,       \* "running" or "exited"
    ttyOpen,     \* some process still holds the PTY's other end
    written,     \* chunks the processes behind the PTY have written
    ptyInput,    \* the writes that reached the PTY, in order
    \* the reader thread and its channel
    reader,      \* program counter and the envelope in hand
    readCount,   \* chunks read from the PTY
    chan,        \* the bounded channel of ReaderEnvelope
    eofSeen,     \* ReaderWorker.eof_seen
    \* the writer thread and its channel
    writer,      \* program counter and the write in hand
    writeQueue,  \* the channel of WriterCommand, capacity one
    writerOpen,  \* WriterWorker.sender is Some
    reply,       \* the reply channel of the outstanding write
    \* the wait thread and its channel
    waiter,      \* "waiting", what it has sent, or "taken"
    \* PtySessionRunner
    pc,          \* where the caller's thread is
    ret,         \* where a write returns to
    closed,      \* PtySessionRunner.closed
    pendingExit, \* PtySessionRunner.pending_exit is Some
    kills,       \* result of the last killer.kill(), or "none"
    writes,      \* writes issued so far; the last one is the outstanding one
    runs,        \* runs started so far
    \* the locals of run_until_exit_with_responses
    exit,        \* exit is Some
    sawEof,      \* saw_eof
    left,        \* iterations left in this tick
    cmdDue,      \* the command deadline has passed
    drainDue,    \* the drain deadline has passed
    result,      \* what the last operation returned
    \* history
    delivered,   \* chunks handed to the callback, in order, over all runs
    eofs,        \* Eof events handed to the callback, over all runs
    exits,       \* Exit events handed to the callback, over all runs
    late         \* events taken from the channel after the deadline in force

ptyVars     == <<child, ttyOpen, written>>
readerVars  == <<reader, readCount>>
writerVars  == <<writer, ptyInput>>
callVars    == <<ret, writes, reply>>
sessionVars == <<closed, pendingExit, writerOpen, writeQueue, waiter>>
runVars     == <<exit, sawEof, left, runs>>
timerVars   == <<cmdDue, drainDue>>
eventVars   == <<chan, eofSeen, delivered, eofs, late>>
vars == <<ptyVars, readerVars, writerVars, callVars, sessionVars, runVars,
          timerVars, eventVars, pc, result, kills, exits>>

-----------------------------------------------------------------------------
(* What the channels carry.                                                *)

Output(n) == [kind |-> "output", n |-> n]
Eof       == [kind |-> "eof", n |-> 0]
ReadError == [kind |-> "error", n |-> 0]
NoMessage == [kind |-> "none", n |-> 0]
Envelopes == [kind : {"output"}, n : 1..Chunks] \cup {Eof, ReadError}

Write(n) == [kind |-> "write", id |-> n]
Close    == [kind |-> "close", id |-> 0]

(* The writes a behaviour can issue: the caller's and one per query.       *)
WriteIds == 1..(MaxWrites + Chunks)

ReaderPcs == {"read", "send", "ending", "done"}
WriterPcs == {"recv", "writing", "done"}
TickPcs   == {"tick_exit", "tick_deadline", "tick_recv"}
LoopPcs   == TickPcs \cup {"post_exit", "post_check", "poll", "poll_exit"}
WritePcs  == {"write_send", "write_wait"}
Results   == {"none", "ok", "drain_timed_out", "timeout", "wait_error",
              "read_error", "callback_error", "closed", "write_ok",
              "write_error", "write_timeout"}

(* A run is in progress: in its loop, joining, or answering a query.       *)
Running == pc \in LoopPcs \cup {"join"} \/ (pc \in WritePcs /\ ret # "idle")

Init ==
    /\ child = "running" /\ ttyOpen = TRUE /\ written = 0
    /\ ptyInput = <<>>
    /\ reader = [pc |-> "read", msg |-> NoMessage]
    /\ readCount = 0 /\ chan = <<>> /\ eofSeen = FALSE
    /\ writer = [pc |-> "recv", id |-> 0]
    /\ writeQueue = <<>> /\ writerOpen = TRUE /\ reply = "none"
    /\ waiter = "waiting"
    /\ pc = "idle" /\ ret = "idle"
    /\ closed = FALSE /\ pendingExit = FALSE /\ kills = "none"
    /\ writes = 0 /\ runs = 0
    /\ exit = FALSE /\ sawEof = FALSE /\ left = 0
    /\ cmdDue = FALSE /\ drainDue = FALSE /\ result = "none"
    /\ delivered = <<>> /\ eofs = 0 /\ exits = 0 /\ late = 0

-----------------------------------------------------------------------------
(* The environment: the child, the processes that share its terminal, and  *)
(* the clock.                                                              *)

runnerVars == <<sessionVars, callVars, runVars, eventVars, pc, result, kills,
                exits>>

TtyWrites ==
    /\ ttyOpen /\ written < Chunks
    /\ written' = written + 1
    /\ UNCHANGED <<child, ttyOpen, readerVars, writerVars, timerVars,
                   runnerVars>>

ChildExits ==
    /\ child = "running"
    /\ child' = "exited"
    /\ UNCHANGED <<ttyOpen, written, readerVars, writerVars, timerVars,
                   runnerVars>>

(* The last holder closes the terminal: the child before it exits, the     *)
(* child by exiting, or a descendant after it.                             *)
TtyHangsUp ==
    /\ ttyOpen
    /\ ttyOpen' = FALSE
    /\ UNCHANGED <<child, written, readerVars, writerVars, timerVars,
                   runnerVars>>

CommandDeadline ==
    /\ Running /\ ~cmdDue
    /\ cmdDue' = TRUE
    /\ UNCHANGED <<drainDue, ptyVars, readerVars, writerVars, runnerVars>>

DrainDeadline ==
    /\ Running /\ exit /\ ~drainDue
    /\ drainDue' = TRUE
    /\ UNCHANGED <<cmdDue, ptyVars, readerVars, writerVars, runnerVars>>

-----------------------------------------------------------------------------
(* The reader thread.  An Interrupted read is retried and changes nothing. *)

readerRest == <<ptyVars, writerVars, callVars, sessionVars, runVars,
                timerVars, eofSeen, delivered, eofs, late, pc, result, kills,
                exits>>

InHand(msg) == reader' = [pc |-> "send", msg |-> msg]

ReadOutput ==
    /\ reader.pc = "read" /\ readCount < written
    /\ readCount' = readCount + 1
    /\ InHand(Output(readCount + 1))
    /\ UNCHANGED <<readerRest, chan>>

(* Mutation: a hang-up is reported before the output still buffered.       *)
ReadZeroBeforeDrained ==
    /\ reader.pc = "read" /\ ~ttyOpen
    /\ InHand(Eof)
    /\ UNCHANGED <<readerRest, chan, readCount>>

ReadZero ==
    /\ reader.pc = "read" /\ readCount = written /\ ~ttyOpen
    /\ InHand(Eof)
    /\ UNCHANGED <<readerRest, chan, readCount>>

ReadFails ==
    /\ reader.pc = "read" /\ "read" \in Faults
    /\ InHand(ReadError)
    /\ UNCHANGED <<readerRest, chan, readCount>>

(* Mutation: a full channel overwrites its oldest message.                 *)
ReaderOverwrites ==
    /\ reader.pc = "send" /\ pc # "dropped"
    /\ chan' = Append(IF Len(chan) < EventCapacity THEN chan ELSE Tail(chan),
                      reader.msg)
    /\ reader' = [pc |-> IF reader.msg.kind = "output" THEN "read" ELSE "ending",
                  msg |-> NoMessage]
    /\ UNCHANGED <<readerRest, readCount>>

(* Mutation: an unbounded channel.                                         *)
ReaderSendsUnbounded ==
    /\ reader.pc = "send" /\ pc # "dropped"
    /\ chan' = Append(chan, reader.msg)
    /\ reader' = [pc |-> IF reader.msg.kind = "output" THEN "read" ELSE "ending",
                  msg |-> NoMessage]
    /\ UNCHANGED <<readerRest, readCount>>

(* sender.send blocks while the channel is full and fails once the runner, *)
(* which owns the receiver, is dropped.                                    *)
ReaderSends ==
    /\ reader.pc = "send" /\ pc # "dropped"
    /\ Len(chan) < EventCapacity
    /\ chan' = Append(chan, reader.msg)
    /\ reader' = [pc |-> IF reader.msg.kind = "output" THEN "read" ELSE "ending",
                  msg |-> NoMessage]
    /\ UNCHANGED <<readerRest, readCount>>

(* Mutation: the reader retries a send that failed.                        *)
ReaderRetriesSend ==
    /\ reader.pc = "send" /\ pc = "dropped"
    /\ UNCHANGED <<reader, readerRest, chan, readCount>>

ReaderSendFails ==
    /\ reader.pc = "send" /\ pc = "dropped"
    /\ reader' = [pc |-> "ending", msg |-> NoMessage]
    /\ UNCHANGED <<readerRest, chan, readCount>>

(* The thread returns and drops its end of the channel.                    *)
ReaderEnds ==
    /\ reader.pc = "ending"
    /\ reader' = [reader EXCEPT !.pc = "done"]
    /\ UNCHANGED <<readerRest, chan, readCount>>

-----------------------------------------------------------------------------
(* The wait thread: child_wait_worker sends one message and returns.       *)

waiterRest == <<ptyVars, readerVars, writerVars, callVars, runVars, timerVars,
                eventVars, pc, result, kills, exits, closed, pendingExit,
                writerOpen, writeQueue>>

WaiterReportsExit ==
    /\ waiter = "waiting" /\ child = "exited"
    /\ waiter' = "exit"
    /\ UNCHANGED waiterRest

WaiterFails ==
    /\ waiter = "waiting" /\ "wait" \in Faults
    /\ waiter' = "error"
    /\ UNCHANGED waiterRest

-----------------------------------------------------------------------------
(* The writer thread.  write_all may block for as long as nothing reads    *)
(* the PTY's input.                                                        *)

writerRest == <<ptyVars, readerVars, ret, writes, runVars, timerVars,
                eventVars, pc, result, kills, exits, closed, pendingExit,
                writerOpen, waiter>>

WriterReceives ==
    /\ writer.pc = "recv" /\ writeQueue # <<>>
    /\ writer' = IF Head(writeQueue) = Close
                 THEN [pc |-> "done", id |-> 0]
                 ELSE [pc |-> "writing", id |-> Head(writeQueue).id]
    /\ writeQueue' = Tail(writeQueue)
    /\ UNCHANGED <<writerRest, ptyInput, reply>>

(* Mutation: the writer waits for a Close that found no room.              *)
WriterWaitsForClose ==
    /\ writer.pc = "recv" /\ writeQueue = <<>> /\ ~writerOpen
    /\ UNCHANGED <<writer, writerRest, writeQueue, ptyInput, reply>>

WriterDisconnected ==
    /\ writer.pc = "recv" /\ writeQueue = <<>> /\ ~writerOpen
    /\ writer' = [pc |-> "done", id |-> 0]
    /\ UNCHANGED <<writerRest, writeQueue, ptyInput, reply>>

(* Mutation: one reply channel shared by all writes.                       *)
AnswerAnyWrite(r) ==
    /\ reply' = r
    /\ writer' = [pc |-> "recv", id |-> 0]

(* The reply goes to the channel of the write it answers; nobody reads the *)
(* channel of a write that has timed out.                                  *)
Answer(r) ==
    /\ reply' = IF writer.id = writes THEN r ELSE reply
    /\ writer' = [pc |-> "recv", id |-> 0]

WriterWrites ==
    /\ writer.pc = "writing"
    /\ ptyInput' = Append(ptyInput, writer.id)
    /\ Answer("write_ok")
    /\ UNCHANGED <<writerRest, writeQueue>>

WriterFails ==
    /\ writer.pc = "writing" /\ "write" \in Faults
    /\ Answer("write_error")
    /\ UNCHANGED <<writerRest, writeQueue, ptyInput>>

-----------------------------------------------------------------------------
(* Steps the runner's operations share.                                    *)

Return(r) == pc' = "idle" /\ result' = r

(* WriterWorker.close: take the sender, try_send(Close), drop the sender.  *)
CloseWriter ==
    /\ writerOpen' = FALSE
    /\ writeQueue' = IF writerOpen /\ writeQueue = <<>> THEN <<Close>>
                     ELSE writeQueue

(* refresh_exit_state: what the wait thread has sent, taken at most once.  *)
RefreshFails == ~pendingExit /\ waiter = "error"
RefreshFinds == ~pendingExit /\ waiter = "exit"

(* Mutation: the status is looked at but not taken.                        *)
RefreshPeeks ==
    \/ /\ RefreshFails \/ RefreshFinds
       /\ closed' = (closed \/ RefreshFinds)
       /\ CloseWriter
       /\ UNCHANGED waiter
    \/ /\ ~RefreshFails /\ ~RefreshFinds
       /\ UNCHANGED <<waiter, closed, writerOpen, writeQueue>>

RefreshTakes ==
    \/ /\ RefreshFails
       /\ waiter' = "taken"
       /\ UNCHANGED <<closed, writerOpen, writeQueue>>
    \/ /\ RefreshFinds
       /\ waiter' = "taken"
       /\ closed' = TRUE
       /\ CloseWriter
    \/ /\ ~RefreshFails /\ ~RefreshFinds
       /\ UNCHANGED <<waiter, closed, writerOpen, writeQueue>>

(* WriterWorker.write, up to the blocking send.  `next` is where the       *)
(* caller goes on when the write is acknowledged.                          *)
StartWrite(open, next) ==
    IF open
    THEN /\ pc' = "write_send" /\ ret' = next
         /\ writes' = writes + 1 /\ reply' = "none"
         /\ UNCHANGED result
    ELSE Return("closed") /\ UNCHANGED callVars

-----------------------------------------------------------------------------
(* The caller's operations.                                                *)

WriteInput ==
    /\ pc = "idle" /\ writes < MaxWrites
    /\ RefreshTakes
    /\ pendingExit' = (pendingExit \/ RefreshFinds)
    /\ IF RefreshFails THEN Return("wait_error") /\ UNCHANGED callVars
       ELSE StartWrite(~closed' /\ writerOpen', "idle")
    /\ UNCHANGED <<ptyVars, readerVars, writerVars, runVars, timerVars,
                   eventVars, kills, exits>>

CloseInput ==
    /\ pc = "idle" /\ writerOpen
    /\ CloseWriter
    /\ UNCHANGED <<ptyVars, readerVars, writerVars, callVars, runVars,
                   timerVars, eventVars, pc, result, kills, exits, closed,
                   pendingExit, waiter>>

(* Mutation: a new run opens the session again.                            *)
RunReopens ==
    /\ pc = "idle" /\ runs < MaxRuns
    /\ runs' = runs + 1 /\ closed' = FALSE
    /\ pc' = "tick_exit" /\ left' = EventsPerTick /\ result' = "none"
    /\ exit' = FALSE /\ sawEof' = FALSE
    /\ cmdDue' = FALSE /\ drainDue' = FALSE /\ late' = 0
    /\ UNCHANGED <<ptyVars, readerVars, writerVars, callVars, pendingExit,
                   writerOpen, writeQueue, waiter, chan, eofSeen, delivered,
                   eofs, kills, exits>>

RunUntilExit ==
    /\ pc = "idle" /\ runs < MaxRuns
    /\ runs' = runs + 1
    /\ pc' = "tick_exit" /\ left' = EventsPerTick /\ result' = "none"
    /\ exit' = FALSE /\ sawEof' = FALSE
    /\ cmdDue' = FALSE /\ drainDue' = FALSE /\ late' = 0
    /\ UNCHANGED <<ptyVars, readerVars, writerVars, callVars, sessionVars,
                   chan, eofSeen, delivered, eofs, kills, exits>>

Kill ==
    \/ kills' = "ok"
    \/ "kill" \in Faults /\ kills' = "failed"

(* Drop for PtySessionRunner, and the receivers and the sender with it.    *)
Drop ==
    /\ pc = "idle"
    /\ pc' = "dropped"
    /\ CloseWriter
    /\ IF closed THEN UNCHANGED kills ELSE Kill
    /\ UNCHANGED <<ptyVars, readerVars, writerVars, callVars, runVars,
                   timerVars, eventVars, result, exits, closed, pendingExit,
                   waiter>>

-----------------------------------------------------------------------------
(* WriterWorker.write, from the send on.                                   *)

writeRest == <<ptyVars, readerVars, writerVars, callVars, runVars, timerVars,
               eventVars, kills, exits, closed, pendingExit, writerOpen,
               waiter>>

WriteSends ==
    /\ pc = "write_send" /\ writeQueue = <<>>
    /\ writeQueue' = <<Write(writes)>>
    /\ pc' = "write_wait"
    /\ UNCHANGED <<writeRest, result>>

WriteAnswered ==
    /\ pc = "write_wait" /\ reply # "none"
    /\ IF ret # "idle" /\ reply = "write_ok"
       THEN pc' = ret /\ UNCHANGED result
       ELSE Return(reply)
    /\ UNCHANGED <<writeRest, writeQueue>>

WriteTimesOut ==
    /\ pc = "write_wait" /\ reply = "none"
    /\ Return("write_timeout")
    /\ UNCHANGED <<writeRest, writeQueue>>

-----------------------------------------------------------------------------
(* The loop of run_until_exit_with_responses.                              *)

loopRest == <<ptyVars, readerVars, writerVars, timerVars, runs>>

(* if exit.is_none() { refresh; hand a pending exit to the callback }.     *)
ObserveExit(at, next) ==
    /\ pc = at
    /\ \/ /\ exit
          /\ pc' = next
          /\ UNCHANGED <<waiter, closed, writerOpen, writeQueue, pendingExit,
                         exits, exit, late, result>>
       \/ /\ ~exit /\ RefreshFails
          /\ RefreshTakes
          /\ Return("wait_error")
          /\ UNCHANGED <<pendingExit, exits, exit, late>>
       \/ /\ ~exit /\ ~RefreshFails /\ ~RefreshFinds /\ ~pendingExit
          /\ pc' = next
          /\ UNCHANGED <<waiter, closed, writerOpen, writeQueue, pendingExit,
                         exits, exit, late, result>>
       \/ /\ ~exit /\ (RefreshFinds \/ pendingExit)
          /\ RefreshTakes
          /\ pendingExit' = FALSE
          /\ exits' = exits + 1
          /\ \/ exit' = TRUE /\ late' = 0 /\ pc' = next /\ UNCHANGED result
             \/ /\ "callback" \in Faults
                /\ Return("callback_error")
                /\ UNCHANGED <<exit, late>>
    /\ UNCHANGED <<loopRest, callVars, sawEof, left, chan, eofSeen, delivered,
                   eofs, kills>>

(* Mutation: the timeout closes the session, which keeps Drop from killing *)
(* the child, and does not kill it either.                                 *)
TimesOutWithoutKill ==
    /\ closed' = TRUE
    /\ CloseWriter
    /\ Return("timeout")
    /\ UNCHANGED <<waiter, pendingExit, kills>>

(* timeout_error.                                                          *)
TimesOut ==
    /\ closed' = TRUE
    /\ CloseWriter
    /\ Kill
    /\ Return("timeout")
    /\ UNCHANGED <<waiter, pendingExit>>

TickDeadline ==
    /\ pc = "tick_deadline"
    /\ IF ~exit /\ cmdDue THEN TimesOut
       ELSE pc' = "tick_recv" /\ UNCHANGED <<sessionVars, result, kills>>
    /\ UNCHANGED <<loopRest, callVars, exit, sawEof, left, eventVars, exits>>

(* The callback: it may fail, and answers a query with a response.         *)
Callback(isQuery, next) ==
    \/ IF isQuery THEN StartWrite(writerOpen, next)
       ELSE pc' = next /\ UNCHANGED <<callVars, result>>
    \/ /\ "callback" \in Faults
       /\ Return("callback_error") /\ UNCHANGED callVars

PastDeadline == IF exit THEN drainDue ELSE cmdDue

DeliverOutput(n, next) ==
    /\ delivered' = Append(delivered, n)
    /\ late' = IF PastDeadline THEN late + 1 ELSE late
    /\ Callback(n \in Queries, next)
    /\ UNCHANGED <<eofSeen, eofs, sawEof>>

(* track_eof and disconnected_eof: the first Eof only.                     *)
DeliverEof(next) ==
    /\ eofSeen' = TRUE /\ sawEof' = TRUE
    /\ eofs' = eofs + 1
    /\ late' = IF PastDeadline THEN late + 1 ELSE late
    /\ Callback(FALSE, next)
    /\ UNCHANGED delivered

(* try_recv and recv_timeout: a message, a failure or nothing, and then    *)
(* `next` or `none` is where the loop goes on.                             *)
Receive(next, none) ==
    \/ /\ chan # <<>>
       /\ chan' = Tail(chan)
       /\ LET msg == Head(chan) IN
          \/ /\ msg.kind = "output" /\ DeliverOutput(msg.n, next)
          \/ /\ msg = Eof /\ ~eofSeen /\ DeliverEof(next)
          \/ /\ msg = ReadError
             /\ Return("read_error")
             /\ UNCHANGED <<callVars, delivered, late, eofSeen, eofs, sawEof>>
    \/ /\ chan = <<>> /\ reader.pc = "done" /\ ~eofSeen
       /\ DeliverEof(next)
       /\ UNCHANGED chan
    \/ /\ chan = <<>> /\ (reader.pc = "done" => eofSeen)
       /\ pc' = none
       /\ UNCHANGED <<callVars, result, chan, delivered, late, eofSeen, eofs,
                      sawEof>>

(* Mutation: a tick drains the channel until it is empty.                  *)
TickReceivesUnbounded ==
    /\ pc = "tick_recv"
    /\ Receive("tick_exit", "post_exit")
    /\ UNCHANGED <<left, loopRest, sessionVars, exit, exits, kills>>

TickReceives ==
    /\ pc = "tick_recv"
    /\ Receive(IF left = 1 THEN "post_exit" ELSE "tick_exit", "post_exit")
    /\ left' = left - 1
    /\ UNCHANGED <<loopRest, sessionVars, exit, exits, kills>>

(* Mutation: a drain that timed out is reported as complete.               *)
PostCheckHidesDrain ==
    /\ pc = "post_check"
    /\ \/ exit /\ sawEof /\ pc' = "join" /\ UNCHANGED <<sessionVars, result, kills>>
       \/ exit /\ ~sawEof /\ drainDue /\ Return("ok") /\ UNCHANGED <<sessionVars, kills>>
       \/ ~exit /\ cmdDue /\ TimesOut
       \/ /\ ~sawEof \/ ~exit
          /\ ~PastDeadline /\ pc' = "poll" /\ UNCHANGED <<sessionVars, result, kills>>
    /\ UNCHANGED <<loopRest, callVars, exit, sawEof, left, eventVars, exits>>

(* Mutation: the drain has no deadline.                                    *)
PostCheckDrainsForever ==
    /\ pc = "post_check"
    /\ \/ exit /\ sawEof /\ pc' = "join" /\ UNCHANGED <<sessionVars, result, kills>>
       \/ ~exit /\ cmdDue /\ TimesOut
       \/ /\ ~sawEof \/ ~exit
          /\ exit \/ ~cmdDue
          /\ pc' = "poll" /\ UNCHANGED <<sessionVars, result, kills>>
    /\ UNCHANGED <<loopRest, callVars, exit, sawEof, left, eventVars, exits>>

PostCheck ==
    /\ pc = "post_check"
    /\ \/ /\ exit /\ sawEof
          /\ pc' = "join"
          /\ UNCHANGED <<sessionVars, result, kills>>
       \/ /\ exit /\ ~sawEof /\ drainDue
          /\ Return("drain_timed_out")
          /\ UNCHANGED <<sessionVars, kills>>
       \/ /\ ~exit /\ cmdDue
          /\ TimesOut
       \/ /\ ~sawEof \/ ~exit
          /\ ~PastDeadline
          /\ pc' = "poll"
          /\ UNCHANGED <<sessionVars, result, kills>>
    /\ UNCHANGED <<loopRest, callVars, exit, sawEof, left, eventVars, exits>>

(* self.reader.join() blocks until the reader thread has returned.         *)
Join ==
    /\ pc = "join" /\ reader.pc = "done"
    /\ Return("ok")
    /\ UNCHANGED <<loopRest, sessionVars, callVars, exit, sawEof, left,
                   eventVars, exits, kills>>

PollReceives ==
    /\ pc = "poll"
    /\ Receive("poll_exit", "poll_exit")
    /\ left' = EventsPerTick
    /\ UNCHANGED <<loopRest, sessionVars, exit, exits, kills>>

RunLoop ==
    \/ ObserveExit("tick_exit", "tick_deadline")
    \/ TickDeadline
    \/ TickReceives
    \/ ObserveExit("post_exit", "post_check")
    \/ PostCheck
    \/ Join
    \/ PollReceives
    \/ ObserveExit("poll_exit", "tick_exit")

(* The steps of an operation in progress, which the caller's thread takes  *)
(* by itself once the operation is called.                                 *)
RunnerStep == RunLoop \/ WriteSends \/ WriteAnswered \/ WriteTimesOut

ReaderStep ==
    \/ ReadOutput \/ ReadZero \/ ReadFails
    \/ ReaderSends \/ ReaderSendFails \/ ReaderEnds

WriterStep ==
    WriterReceives \/ WriterDisconnected \/ WriterWrites \/ WriterFails

WaiterStep == WaiterReportsExit \/ WaiterFails

Caller == WriteInput \/ CloseInput \/ RunUntilExit \/ Drop

Environment ==
    TtyWrites \/ ChildExits \/ TtyHangsUp \/ CommandDeadline \/ DrainDeadline

Next ==
    RunnerStep \/ ReaderStep \/ WriterStep \/ WaiterStep \/ Caller \/ Environment

(* The scheduler runs every thread that can run, and time passes.  Nothing *)
(* is assumed of the child, of its terminal, of the caller between two     *)
(* operations, or of a write_all in progress.                              *)
Fairness ==
    /\ WF_vars(RunnerStep)
    /\ WF_vars(ReaderStep)
    /\ WF_vars(WriterReceives \/ WriterDisconnected)
    /\ WF_vars(WaiterReportsExit)
    /\ WF_vars(CommandDeadline)
    /\ WF_vars(DrainDeadline)

Spec == Init /\ [][Next]_vars /\ Fairness

-----------------------------------------------------------------------------
(* Properties.                                                             *)

(* Every variable stays in the domain of the Rust type it stands for, and  *)
(* both channels stay within the capacity they were created with.          *)
TypeOK ==
    /\ child \in {"running", "exited"} /\ ttyOpen \in BOOLEAN
    /\ written \in 0..Chunks /\ readCount \in 0..Chunks
    /\ reader \in [pc : ReaderPcs, msg : Envelopes \cup {NoMessage}]
    /\ chan \in Seq(Envelopes) /\ Len(chan) <= EventCapacity
    /\ eofSeen \in BOOLEAN
    /\ writer \in [pc : WriterPcs, id : WriteIds \cup {0}]
    /\ writeQueue \in Seq([kind : {"write"}, id : WriteIds] \cup {Close})
    /\ Len(writeQueue) <= 1
    /\ writerOpen \in BOOLEAN
    /\ reply \in {"none", "write_ok", "write_error"}
    /\ ptyInput \in Seq(WriteIds)
    /\ waiter \in {"waiting", "exit", "error", "taken"}
    /\ pc \in {"idle", "dropped", "join"} \cup LoopPcs \cup WritePcs
    /\ ret \in {"idle", "post_exit", "tick_exit", "poll_exit"}
    /\ closed \in BOOLEAN /\ pendingExit \in BOOLEAN
    /\ kills \in {"none", "ok", "failed"}
    /\ writes \in Nat /\ runs \in 0..MaxRuns
    /\ exit \in BOOLEAN /\ sawEof \in BOOLEAN
    /\ left \in 0..EventsPerTick
    /\ cmdDue \in BOOLEAN /\ drainDue \in BOOLEAN
    /\ result \in Results
    /\ delivered \in Seq(1..Chunks)
    /\ eofs \in Nat /\ exits \in Nat /\ late \in Nat

(* The callback sees the child's output as it was written: no chunk is     *)
(* lost, repeated or overtaken between the PTY and the callback, over      *)
(* full channels, blocked sends, failed runs and repeated runs.            *)
OutputInOrder == \A i \in DOMAIN delivered : delivered[i] = i

(* The exit status is announced at most once, and only of a child that     *)
(* has exited, over all the runs of a session.                             *)
ExitOnce == exits <= 1 /\ (exits = 1 => child = "exited")

(* A run that returns Ok without drain_timed_out has announced Eof and     *)
(* Exit; unless a read failed it delivered everything the PTY carried.     *)
CompleteRun ==
    pc = "idle" /\ result = "ok" =>
        /\ exits = 1 /\ eofs = 1
        /\ "read" \notin Faults => Len(delivered) = written

(* Past the deadline in force a run takes only what it had already         *)
(* committed to take: one event past the command deadline, and a tick and  *)
(* a poll past the drain deadline, however fast output keeps coming.       *)
PromptAfterDeadline ==
    Running => late <= IF exit THEN EventsPerTick + 1 ELSE 1

(* A runner is not dropped on a running child: either the child's exit was *)
(* taken from the wait thread or a kill was attempted.                     *)
NoAbandonedChild ==
    pc = "dropped" => kills # "none" \/ (waiter = "taken" /\ child = "exited")

(* An acknowledged write reached the PTY, writes reach it in the order     *)
(* they were issued and none reaches it twice, even when an earlier one    *)
(* timed out and is still on its way.                                      *)
WritesInOrder ==
    /\ \A i, j \in DOMAIN ptyInput : i < j => ptyInput[i] < ptyInput[j]
    /\ reply = "write_ok" => \E i \in DOMAIN ptyInput : ptyInput[i] = writes

(* Once the runner has closed, because the exit was observed or because    *)
(* the command timed out, it stays closed and issues no further write.     *)
ClosedForGood == [][closed => closed' /\ writes' = writes]_vars

(* Every run ends: the only way it can stay in progress for ever is a      *)
(* response waiting for room behind a write_all that never returns.        *)
WriterJammed ==
    pc = "write_send" /\ writer.pc = "writing" /\ writeQueue # <<>>
RunTerminates == []<>~Running \/ <>[]WriterJammed

(* Closing the input stops the writer thread, whether or not the Close     *)
(* command found room, unless the thread is inside a write_all.            *)
WriterStops == ~writerOpen ~> writer.pc \in {"done", "writing"}

(* A reader blocked on a full channel does not outlive the runner.         *)
ReaderReleased == (pc = "dropped" /\ reader.pc = "send") ~> reader.pc = "done"

(* What the repository says and the code does not do (see the README).     *)

(* PRD M2 asks that a session whose child exits before the reader's EOF    *)
(* drains until EOF or the drain timeout; a response to drained output is  *)
(* written to an input the runner closed when it observed the exit.  The   *)
(* caller of this session leaves the input open.                           *)
OpenInputSpec == Init /\ [][Next /\ ~CloseInput]_vars

DrainsUntilEofOrTimeout == exit /\ ~Running => sawEof \/ drainDue

(* The test write_input_timeout_does_not_block_caller says a slow PTY      *)
(* costs the caller of write_input no more than the write timeout; the     *)
(* send into a full command channel comes before the timed wait.           *)
WriteInputReturns == (pc \in WritePcs /\ ret = "idle") ~> pc \notin WritePcs

-----------------------------------------------------------------------------
(* The runner implements the event stream it promises.                     *)

Stream == INSTANCE PtyEventStream WITH
    hungUp   <- ~ttyOpen,
    exited   <- child = "exited",
    eof      <- eofs > 0,
    exit     <- exits > 0,
    lossy    <- "read" \in Faults

StreamSpec == Stream!Spec
=============================================================================
