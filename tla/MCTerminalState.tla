-------------------------- MODULE MCTerminalState --------------------------
(* Constants for the TLC runs of TerminalState.                            *)
EXTENDS TerminalState

Narrow == [w |-> 1, ink |-> 1]
Wide   == [w |-> 2, ink |-> 2]

OneGlyph  == {Narrow}
TwoWidths == {Narrow, Wide}

Cup(r, c) == [final |-> "H", n |-> r, m |-> c]
Nel(n)    == [final |-> "E", n |-> n, m |-> 0]

SomeMoves  == {Cup(1, 2), Nel(9)}
FewMoves   == {Cup(1, 1)}
EveryErase == {[final |-> "J", n |-> n] : n \in 0..2}
                \cup {[final |-> "K", n |-> n] : n \in 0..3}
                \cup {[final |-> "X", n |-> 0]}

Size3x2   == Size(3, 2)
Size2x2   == Size(2, 2)
Reflowing == {Size(3, 2), Size(2, 2), Size(4, 1), Size(2, 3), Size(0, 2), Size(4, 3)}
Fixed     == {Size(2, 2)}
Two       == {Size(2, 2), Size(3, 1), Size(2, 0), Size(5, 1)}
=============================================================================
