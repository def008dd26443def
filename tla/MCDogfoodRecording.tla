------------------------- MODULE MCDogfoodRecording -------------------------
(* Constants for the TLC runs of DogfoodRecording.                         *)
EXTENDS DogfoodRecording, TLC

(* What happens in a pane: output that shows and output that does not.     *)
Happenings ==
    {Happening("output", <<"x">>, "none"), Happening("output", <<Bel, Esc>>, "none"),
     Happening("output", <<"]", "x", Bel>>, "none"), Happening("input", <<>>, "none"),
     Happening("output", <<Esc, "[", Private, "4", "7", "h">>, "none"),
     Happening("resize", <<>>, "100x24"), Happening("resize", <<>>, "100x30")}
Sessions3 == UNION {[1..n -> Happenings] : n \in 0..3}

HeightOf == [size \in {"80x24", "100x24", "100x30"} |-> IF size = "100x30" THEN 30 ELSE 24]

Honest(session) ==
    [honest |-> TRUE, session |-> session, recording |-> HostRecording("80x24", session)]
Damaged(session, events) ==
    [honest |-> FALSE, session |-> session,
     recording |-> [HostRecording("80x24", session) EXCEPT !.events = events]]

(* An event lost, two swapped, one twice; a size no terminal has.          *)
Swapped(s, i) == [s EXCEPT ![i] = s[i + 1], ![i + 1] = s[i]]
TwoOrThree == {s \in Sessions3 : Len(s) = 2 /\ s[1] # s[2]}
DamagedRecordings ==
    UNION {{Damaged(s, Tail(s)), Damaged(s, Front(s)), Damaged(s, Append(s, s[1])),
            Damaged(s, Swapped(s, 1))} : s \in TwoOrThree}
      \cup {Damaged(<<>>, <<Happening("resize", <<>>, "huge")>>)}
DogfoodRecordings == {Honest(s) : s \in Sessions3} \cup DamagedRecordings

Measured ==
    [size |-> "80x24", lines |-> 3, kept |-> 2, max |-> 3, observed |-> 2, truncated |-> FALSE,
     samples |-> 2, p95 |-> 1, memory |-> 1, blocked |-> FALSE, reasons |-> FALSE]
DogfoodMetrics ==
    {[Measured EXCEPT !.samples = samples, !.p95 = p95, !.memory = memory,
                      !.blocked = blocked, !.reasons = blocked] :
        samples \in {0, 2}, p95 \in {NotMeasured, 1, 3}, memory \in {NotMeasured, 1, 9},
        blocked \in BOOLEAN}
      \cup {[Measured EXCEPT !.lines = 2], [Measured EXCEPT !.kept = 4, !.observed = 4],
            [Measured EXCEPT !.observed = 3], [Measured EXCEPT !.observed = 3, !.truncated = TRUE],
            [Measured EXCEPT !.observed = 1, !.truncated = TRUE],
            [Measured EXCEPT !.memory = 9, !.blocked = TRUE]}
=============================================================================
