--------------------------- MODULE PtyEventStream ---------------------------
(***************************************************************************)
(* What a PTY session promises the callback of                             *)
(* run_until_exit_with_responses, with no thread, channel or deadline in   *)
(* it: the output of the terminal in order, Eof once and after all of it,  *)
(* Exit once and of a child that has exited, Eof and Exit in either order. *)
(* How far the stream gets is left open: a session may stop anywhere.      *)
(***************************************************************************)
EXTENDS Integers, Sequences

CONSTANTS
    Chunks, \* bound: output chunks the terminal may carry
    lossy   \* reads may fail, and Eof may then come early

VARIABLES
    written,   \* chunks written to the terminal
    hungUp,    \* no process holds the terminal any more
    exited,    \* the child has exited
    delivered, \* chunks handed to the callback
    eof,       \* Eof was handed to the callback
    exit       \* Exit was handed to the callback

vars == <<written, hungUp, exited, delivered, eof, exit>>

Init ==
    /\ written = 0 /\ hungUp = FALSE /\ exited = FALSE
    /\ delivered = <<>> /\ eof = FALSE /\ exit = FALSE

ChildSide ==
    /\ \/ ~hungUp /\ written < Chunks /\ written' = written + 1
          /\ UNCHANGED <<hungUp, exited>>
       \/ hungUp' = TRUE /\ UNCHANGED <<written, exited>>
       \/ exited' = TRUE /\ UNCHANGED <<written, hungUp>>
    /\ UNCHANGED <<delivered, eof, exit>>

Output ==
    /\ ~eof /\ Len(delivered) < written
    /\ delivered' = Append(delivered, Len(delivered) + 1)
    /\ UNCHANGED <<written, hungUp, exited, eof, exit>>

Eof ==
    /\ ~eof
    /\ lossy \/ (hungUp /\ Len(delivered) = written)
    /\ eof' = TRUE
    /\ UNCHANGED <<written, hungUp, exited, delivered, exit>>

Exit ==
    /\ ~exit /\ exited
    /\ exit' = TRUE
    /\ UNCHANGED <<written, hungUp, exited, delivered, eof>>

Next == ChildSide \/ Output \/ Eof \/ Exit

Spec == Init /\ [][Next]_vars
=============================================================================
