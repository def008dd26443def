--------------------------- MODULE MCPublicReplay ---------------------------
(* Constants for the TLC runs of PublicReplay.                             *)
EXTENDS PublicReplay, TLC

PrintOf(newlines, bytes, tail) ==
    [kind |-> "output", newlines |-> newlines, bytes |-> bytes, tail |-> tail, control |-> {}]
Lines(n) == PrintOf(n, 2 * n, FALSE)
Generated(prefix, count) ==
    [kind |-> "generated", prefix |-> prefix, count |-> count, control |-> {}]
(* A line and the cursor at home again; a line, then the other screen.     *)
Doing(scrolls, row, screen) ==
    [Lines(1) EXCEPT !.control = {[scrolls |-> scrolls, row |-> row, screen |-> screen]}]
Home == Doing(0, 0, "primary")
ToAlternate == Doing(1, 0, "alternate")
RowsTo(rows) == [kind |-> "resize", rows |-> rows]
Marker == [kind |-> "marker"]

Policy(min, discards) == [timeout |-> 1, memory |-> 3, min |-> min, discards |-> discards]

Redaction == [passed |-> TRUE, version |-> 1, rejects |-> {"own"}]

M4Fixture(events) ==
    [form |-> "m4", redaction |-> Redaction, rows |-> 3, privacy |-> "synthetic_public",
     shows |-> {}, events |-> events]
M5Fixture(agent, scrollback, policy, events) ==
    [form |-> "m5", redaction |-> Redaction, rows |-> 3,
     privacy |-> IF agent \in {"codex", "claude_code"} THEN "scrubbed_public" ELSE "synthetic_public",
     agent |-> agent,
     source |-> IF agent \in {"codex", "claude_code"} THEN "scrubbed_capture" ELSE "synthetic_stress",
     shows |-> {}, scrollback |-> scrollback, policy |-> policy, events |-> events]

Rapid == M5Fixture("rapid_output", {3}, Policy({5}, FALSE), <<Generated(1, 5), Marker>>)
Long  == M5Fixture("long_session", {3}, Policy({9}, TRUE), <<Generated(1, 10), Marker>>)
Agent == M5Fixture("codex", {3}, Policy({3}, FALSE), <<Lines(4), Marker>>)

SomeDefaults == <<[name |-> 1, fixture |-> Agent], [name |-> 2, fixture |-> Rapid],
                  [name |-> 3, fixture |-> Long]>>

(* Hand-written fixtures: some the loaders must refuse, and every order of *)
(* up to three prints and resizes, one of them control.                    *)
Steps == {Lines(1), Lines(4), PrintOf(1, 3, TRUE), Generated(1, 3), RowsTo(1), RowsTo(4)}
Sessions ==
    UNION {[1..n -> Steps] : n \in 1..3}
      \cup {<<first, control, last>> :
               first \in Steps, control \in {Home, ToAlternate}, last \in Steps}
HandWritten ==
    {M5Fixture("rapid_output", {1}, Policy({}, TRUE), events) : events \in Sessions}
      \cup {M4Fixture(<<Lines(n)>>) : n \in 1..4}
      \cup {M4Fixture(<<Generated(1, 3)>>), [M4Fixture(<<Lines(1)>>) EXCEPT !.privacy = "raw_local"],
            [Rapid EXCEPT !.redaction.passed = FALSE], [Rapid EXCEPT !.redaction.version = 0],
            [Rapid EXCEPT !.shows = {"token"}], [Rapid EXCEPT !.shows = {"own"}],
            [M4Fixture(<<Lines(1)>>) EXCEPT !.shows = {"token"}],
            [M4Fixture(<<Lines(1)>>) EXCEPT !.shows = {"private"}],
            [Rapid EXCEPT !.events = <<Generated(1, 11)>>],
            [Rapid EXCEPT !.events = <<Generated(2, 10), Generated(1, 10)>>],
            [Rapid EXCEPT !.events = <<Generated(1, 10), PrintOf(2, 6, TRUE)>>],
            [Rapid EXCEPT !.scrollback = {0}],
            [Agent EXCEPT !.privacy = "synthetic_public"],
            [Long EXCEPT !.events = <<Lines(4)>>]}

HandWrittenCorpora ==
    {1 :> fixture : fixture \in HandWritten}
      \cup {(4 :> first) @@ (5 :> second) :
              first \in {Agent, Rapid, M4Fixture(<<Lines(1)>>)},
              second \in {Long, M4Fixture(<<Lines(2)>>), [Rapid EXCEPT !.policy = Policy({9}, FALSE)]}}
      \cup {<<>>}
=============================================================================
