--------------------------- MODULE MCRunRecording ---------------------------
(* Constants for the TLC runs of RunRecording.                             *)
EXTENDS RunRecording

(* CSI ?47h.                                                               *)
ShowAlternate == <<Esc, "[", Private, "4", "7", "h">>

Alternating == {ShowAlternate}

(* Pieces of control sequences, cut where a read may cut them.             *)
Pieces ==
    {<<Esc>>, <<"]", "x", "x">>, <<"P", "x">>, <<Bel>>, <<"x", Esc>>, <<Backslash>>,
     <<"[", Digit>>, <<"n", Esc>>, <<Digit, Erase>>, <<Esc, "[", Digit, "n">>,
     <<"]", "x", Esc>>, <<"P", "x", Esc>>, <<"[", Digit, "n", Esc>>,
     <<Esc, "]", "x", "x", Bel>>, ShowAlternate}

(* What the adapter tells apart, one byte at a time.                       *)
SingleBytes == {<<b>> : b \in {Esc, "]", "_", "x", Bel}}

Request(script, source, record) ==
    [command |-> "program", size |-> "80x24", script |-> script, files |-> "usable",
     input |-> source, record |-> record, save_output |-> TRUE]

Refused ==
    {[Request(<<>>, "file", TRUE) EXCEPT !.files = "unusable"],
     [Request(<<>>, "none", TRUE) EXCEPT !.command = "nothing"]}
Shells ==
    {[Request(<<"huge">>, "none", TRUE) EXCEPT !.command = "shell"],
     [Request(<<>>, "none", FALSE) EXCEPT !.command = "shell"]}
Recorded ==
    {Request(<<"100x30">>, "none", TRUE), Request(<<"100x30", "huge">>, "file", TRUE)}
      \cup Refused \cup Shells
Resized == {Request(<<"100x30">>, "none", TRUE)}
Unrecorded == {Request(<<>>, "none", FALSE)}

AllFaults == {"spawn", "resize", "write", "timeout", "emit", "save"}
=============================================================================
