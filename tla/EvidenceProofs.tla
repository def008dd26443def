--------------------------- MODULE EvidenceProofs ---------------------------
(***************************************************************************)
(* What the evidence of M4 to M6 may claim, for all corpora, documents,    *)
(* thresholds, programs, sizes and limits: the invariants of PublicReplay, *)
(* PerformanceReport, HostEvidence and ReleaseEvidence, in this order.     *)
(***************************************************************************)
EXTENDS PerformanceReport, HostEvidence, ReleaseEvidence, FoldProofs, FiniteSetTheorems, TLAPS

-----------------------------------------------------------------------------
(* What one event adds to a replay.                                        *)

(* Events that were loaded.                                                *)
LoadedEvents(E) == \A e \in E : EventTyped(e) /\ M5EventLoads(e)

LEMMA ReplayConstants ==
    /\ MaxReplayBytes \in Nat /\ MaxGeneratedLines \in Nat /\ LineDigits \in Nat
    /\ MaxRows \in Nat /\ DefaultScrollback \in Nat /\ MaxReplayTime \in Nat
    /\ MaxReplayCommands \in Nat /\ SummaryName \in Nat
    /\ MaxGeneratedLines = 10 ^ LineDigits
  BY ReplayAssumption

LEMMA LoadedKinds ==
    ASSUME NEW e, EventTyped(e), M5EventLoads(e)
    PROVE  \/ /\ e.kind = "output" /\ e.bytes \in Nat /\ e.newlines \in Nat /\ e.tail \in BOOLEAN
              /\ e.control \subseteq Moves
           \/ /\ e.kind = "generated" /\ e.prefix \in Nat /\ e.control \subseteq Moves
              /\ e.count \in Nat /\ e.count <= MaxGeneratedLines
           \/ e.kind = "resize" /\ e.rows \in Nat /\ e.rows > 0
           \/ e.kind = "marker"
  BY ReplayConstants DEF EventTyped, M5EventLoads, M4EventLoads, Prints

(* A line number within the limit is as wide as its padding.               *)
LEMMA PaddingHolds ==
    ASSUME NEW line \in Nat, line < MaxGeneratedLines
    PROVE  WrittenDigits(line) = LineDigits
  <1> DEFINE Wide(d) == line < 10 ^ d /\ \A less \in LineDigits..d - 1 : line >= 10 ^ less
  <1>1. LineDigits \in Nat /\ line < 10 ^ LineDigits
    BY ReplayConstants
  <1>2. LineDigits \in LineDigits..LineDigits + 2 /\ LineDigits..LineDigits - 1 = {}
    BY <1>1
  <1>3. Wide(LineDigits)
    BY <1>1, <1>2
  <1>4. ASSUME NEW d \in LineDigits..LineDigits + 2, Wide(d), d # LineDigits
        PROVE  FALSE
    <2>1. LineDigits \in LineDigits..d - 1
      BY <1>1, <1>4
    <2>2. line >= 10 ^ LineDigits
      BY <1>4, <2>1
    <2> DEFINE limit == 10 ^ LineDigits
    <2>3. limit \in Nat /\ line < limit /\ line >= limit
      BY <1>1, <2>2, ReplayConstants
    <2> HIDE DEF limit
    <2> QED
      BY <2>3
  <1>5. WrittenDigits(line) = CHOOSE d \in LineDigits..LineDigits + 2 : Wide(d)
    BY DEF WrittenDigits
  <1> HIDE DEF Wide
  <1> QED
    BY <1>2, <1>3, <1>4, <1>5

(* So generated lines take the bytes they were declared to.                *)
LEMMA GeneratedChain ==
    ASSUME NEW prefix \in Nat, NEW count \in Nat, count <= MaxGeneratedLines
    PROVE  \E h \in [0..count -> Nat] :
              /\ h[0] = 0 /\ h[count] = GeneratedBytes(prefix, count)
              /\ \A k \in 1..count : h[k] = h[k - 1] + (prefix + LineDigits + 2)
  <1> DEFINE E == {line \in Nat : line < MaxGeneratedLines}
             seq == [i \in 1..count |-> i - 1]
             op == [p \in Nat \X E |-> p[1] + (prefix + WrittenDigits(p[2]) + 2)]
             F(g) == [s \in SUBSET (DOMAIN seq) |->
                        IF s = {} THEN 0
                        ELSE g[s \ {Max(s)}] + (prefix + WrittenDigits(seq[Max(s)]) + 2)]
             it == CHOOSE g : g = F(g)
  <1>0. \A line \in E : WrittenDigits(line) = LineDigits
    BY PaddingHolds
  <1>1. op \in [Nat \X E -> Nat]
    BY <1>0, ReplayConstants
  <1>2. \A a \in Nat, e \in E : op[<<a, e>>] = a + (prefix + WrittenDigits(e) + 2)
    OBVIOUS
  <1>21. seq \in Seq(E) /\ Len(seq) = count
    BY ReplayConstants
  <1>7. GeneratedBytes(prefix, count) = it[DOMAIN seq]
    BY DEF GeneratedBytes, FoldLeft, MapThenFoldSet
  <1> HIDE DEF op, seq
  <1>3. Foldable(Nat, E, op, 0, seq)
    BY <1>1, <1>21 DEF Foldable
  <1>4. PICK g : IterationOnA(g, Nat, E, op, 0, seq)
    BY <1>3, IterationOnAExists
  <1>5. g = F(g)
    BY <1>2, <1>4 DEF IterationOnA
  <1>6. it = F(it)
    BY <1>5
  <1> HIDE DEF it
  <1>8. Folds(it, Nat, E, op, 0, seq)
    BY <1>2, <1>3, <1>4, <1>6 DEF Folds, IterationOnA
  <1>9. PICK h : Chain(h, Nat, op, 0, seq, it[DOMAIN seq])
    BY <1>8, ChainOfFold
  <1>10. \A k \in 1..count : h[k - 1] \in Nat /\ seq[k] \in E
    BY <1>9, <1>21 DEF Chain
  <1>11. \A k \in 1..count : h[k] = h[k - 1] + (prefix + LineDigits + 2)
    <2> SUFFICES ASSUME NEW k \in 1..count PROVE h[k] = h[k - 1] + (prefix + LineDigits + 2)
      OBVIOUS
    <2>1. h[k] = op[<<h[k - 1], seq[k]>>]
      BY <1>9, <1>21 DEF Chain
    <2>2. op[<<h[k - 1], seq[k]>>] = h[k - 1] + (prefix + WrittenDigits(seq[k]) + 2)
      BY <1>2, <1>10
    <2>3. WrittenDigits(seq[k]) = LineDigits
      BY <1>0, <1>10
    <2> QED
      BY <2>1, <2>2, <2>3
  <1> QED
    BY <1>7, <1>9, <1>11, <1>21 DEF Chain

LEMMA GeneratedAsDeclared ==
    ASSUME NEW prefix \in Nat, NEW count \in Nat, count <= MaxGeneratedLines
    PROVE  GeneratedBytes(prefix, count) = (prefix + LineDigits + 2) * count
  <1> DEFINE c == prefix + LineDigits + 2
  <1>1. c \in Nat
    BY ReplayConstants
  <1>2. PICK h \in [0..count -> Nat] :
              /\ h[0] = 0 /\ h[count] = GeneratedBytes(prefix, count)
              /\ \A k \in 1..count : h[k] = h[k - 1] + c
    BY GeneratedChain
  <1> HIDE DEF c
  <1> DEFINE T == {k \in 0..count : h[k] = c * k}
  <1>3. 0 \in T
    BY <1>1, <1>2
  <1>4. ASSUME NEW k \in 1..count, k - 1 \in T PROVE k \in T
    <2>1. k \in Nat /\ k - 1 \in Nat /\ k \in 0..count
      OBVIOUS
    <2>2. h[k] = c * (k - 1) + c
      BY <1>2, <1>4
    <2>3. c * (k - 1) + c = c * k
      BY <1>1, <2>1
    <2> QED
      BY <2>1, <2>2, <2>3
  <1>5. count \in T
    <2> HIDE DEF T
    <2>1. \A k \in 0..count : k \in T
      BY <1>3, <1>4, UpTo
    <2> QED
      BY <2>1
  <1> QED
    BY <1>2, <1>5 DEF c

LEMMA WrittenAsDeclared ==
    ASSUME NEW e, EventTyped(e), M5EventLoads(e)
    PROVE  WrittenBytes(e) = DeclaredBytes(e) /\ DeclaredBytes(e) \in Nat /\ LogicalLines(e) \in Nat
  <1>1. CASE e.kind = "output"
    BY <1>1, LoadedKinds DEF WrittenBytes, DeclaredBytes, LogicalLines
  <1>2. CASE e.kind = "generated"
    <2>1. e.prefix \in Nat /\ e.count \in Nat /\ e.count <= MaxGeneratedLines
      BY <1>2, LoadedKinds
    <2>2. GeneratedBytes(e.prefix, e.count) = (e.prefix + LineDigits + 2) * e.count
      BY <2>1, GeneratedAsDeclared
    <2>3. (e.prefix + LineDigits + 2) * e.count \in Nat
      BY <2>1, ReplayConstants
    <2> QED
      BY <1>2, <2>1, <2>2, <2>3 DEF WrittenBytes, DeclaredBytes, LogicalLines
  <1>3. CASE e.kind \notin {"output", "generated"}
    BY <1>3 DEF WrittenBytes, DeclaredBytes, LogicalLines
  <1> QED
    BY <1>1, <1>2, <1>3

-----------------------------------------------------------------------------
(* The rows of a terminal.                                                 *)

RowCounts ==
    {t \in [rows : Nat, limit : Nat, history : Nat, cursor : Nat, screen : {"primary", "alternate"},
            evicted : Nat] : t.cursor < t.rows}

(* The lines a terminal was given and has not been given to forget.        *)
Held(t) == t.history + t.cursor + t.evicted

LEMMA RowCount ==
    ASSUME NEW rows \in Nat, NEW limit \in Nat, NEW history \in Nat, NEW cursor \in Nat,
           NEW screen \in {"primary", "alternate"}, NEW evicted \in Nat, cursor < rows
    PROVE  /\ [rows |-> rows, limit |-> limit, history |-> history, cursor |-> cursor,
               screen |-> screen, evicted |-> evicted] \in RowCounts
           /\ Held([rows |-> rows, limit |-> limit, history |-> history, cursor |-> cursor,
                    screen |-> screen, evicted |-> evicted]) = history + cursor + evicted
  BY DEF RowCounts, Held

LEMMA ScrollParts ==
    ASSUME NEW t \in RowCounts, NEW n \in Nat
    PROVE  \E kept \in Nat, gone \in Nat :
              /\ kept + gone = t.history + n
              /\ Scroll(t, n) = [rows |-> t.rows, limit |-> t.limit, history |-> kept,
                                 cursor |-> t.cursor, screen |-> t.screen,
                                 evicted |-> t.evicted + gone]
  <1> DEFINE kept == Least(t.limit, t.history + n)
  <1>1. /\ t.history \in Nat /\ t.limit \in Nat /\ t.evicted \in Nat
        /\ t = [rows |-> t.rows, limit |-> t.limit, history |-> t.history,
                cursor |-> t.cursor, screen |-> t.screen, evicted |-> t.evicted]
    BY DEF RowCounts
  <1>2. kept \in Nat /\ kept <= t.history + n
    BY <1>1 DEF Least
  <1>3. Scroll(t, n) = [t EXCEPT !.history = kept, !.evicted = @ + t.history + n - kept]
    BY DEF Scroll
  <1> HIDE DEF kept
  <1>4. t.history + n - kept \in Nat /\ kept + (t.history + n - kept) = t.history + n
    BY <1>1, <1>2
  <1>5. t.evicted + t.history + n - kept = t.evicted + (t.history + n - kept)
    BY <1>1, <1>2
  <1>6. Scroll(t, n) = [rows |-> t.rows, limit |-> t.limit, history |-> kept,
                        cursor |-> t.cursor, screen |-> t.screen,
                        evicted |-> t.evicted + (t.history + n - kept)]
    BY <1>1, <1>3, <1>5
  <1> QED
    BY <1>2, <1>4, <1>6

LEMMA FeedHolds ==
    ASSUME NEW t \in RowCounts, NEW n \in Nat
    PROVE  /\ Feed(t, n) \in RowCounts /\ Feed(t, n).screen = t.screen
           /\ t.screen = "primary" => Held(Feed(t, n)) = Held(t) + n
  <1> DEFINE below == t.cursor + n
             over  == IF t.screen = "primary" THEN Minus(below, t.rows - 1) ELSE 0
             row   == Least(below, t.rows - 1)
  <1>1. t.rows \in Nat /\ t.cursor \in Nat /\ t.cursor < t.rows /\ t.limit \in Nat
        /\ t.history \in Nat /\ t.evicted \in Nat /\ t.screen \in {"primary", "alternate"}
    BY DEF RowCounts
  <1>2. over \in Nat /\ row \in Nat /\ row < t.rows /\ (t.screen = "primary" => row + over = below)
    <2>1. CASE below < t.rows - 1
      BY <1>1, <2>1 DEF Minus, Least
    <2>2. CASE ~(below < t.rows - 1)
      BY <1>1, <2>2 DEF Minus, Least
    <2> QED
      BY <2>1, <2>2
  <1>3. Feed(t, n) = [Scroll(t, over) EXCEPT !.cursor = row]
    BY DEF Feed
  <1>4. below = t.cursor + n
    OBVIOUS
  <1> HIDE DEF over, row, below
  <1>5. PICK kept \in Nat, gone \in Nat :
              /\ kept + gone = t.history + over
              /\ Scroll(t, over) = [rows |-> t.rows, limit |-> t.limit, history |-> kept,
                                    cursor |-> t.cursor, screen |-> t.screen,
                                    evicted |-> t.evicted + gone]
    BY <1>2, ScrollParts
  <1>6. Feed(t, n) = [rows |-> t.rows, limit |-> t.limit, history |-> kept,
                      cursor |-> row, screen |-> t.screen, evicted |-> t.evicted + gone]
    BY <1>3, <1>5
  <1>7. t.evicted + gone \in Nat
    BY <1>1
  <1>71. row \in Nat /\ row < t.rows
    BY <1>2
  <1>8. Feed(t, n) \in RowCounts /\ Held(Feed(t, n)) = kept + row + (t.evicted + gone)
    <2> DEFINE out == t.evicted + gone
    <2>1. Feed(t, n) = [rows |-> t.rows, limit |-> t.limit, history |-> kept,
                        cursor |-> row, screen |-> t.screen, evicted |-> out]
      BY <1>6
    <2>2. /\ out \in Nat /\ t.rows \in Nat /\ t.limit \in Nat /\ kept \in Nat
          /\ t.screen \in {"primary", "alternate"}
      BY <1>1, <1>7
    <2> HIDE DEF out
    <2>3. Feed(t, n) \in RowCounts /\ Held(Feed(t, n)) = kept + row + out
      BY <1>71, <2>1, <2>2, RowCount
    <2> QED
      BY <2>3 DEF out
  <1>9. ASSUME t.screen = "primary"
        PROVE  kept + row + (t.evicted + gone) = t.history + t.cursor + t.evicted + n
    <2>1. \A a, b, c, d, e, f, g, m \in Nat :
             a + b = c + d /\ e + d = f + m => a + e + (g + b) = c + f + g + m
      OBVIOUS
    <2>2. row + over = t.cursor + n /\ kept + gone = t.history + over
      BY <1>2, <1>4, <1>5, <1>9
    <2>3. row \in Nat /\ over \in Nat /\ t.cursor \in Nat /\ t.history \in Nat /\ t.evicted \in Nat
      BY <1>1, <1>2
    <2> QED
      BY <2>1, <2>2, <2>3, Z3
  <1>10. Feed(t, n).screen = t.screen
    BY <1>6
  <1> QED
    BY <1>8, <1>9, <1>10 DEF Held

LEMMA MovedHolds ==
    ASSUME NEW t \in RowCounts, NEW move \in Moves
    PROVE  Moved(t, move) \in RowCounts
  <1> DEFINE row == Least(move.row, t.rows - 1)
  <1>1. /\ t.rows \in Nat /\ t.cursor \in Nat /\ t.cursor < t.rows /\ t.limit \in Nat
        /\ t.evicted \in Nat
        /\ move.scrolls \in Nat /\ move.row \in Nat /\ move.screen \in {"primary", "alternate"}
    BY DEF RowCounts, Moves
  <1>2. row \in Nat /\ row < t.rows
    BY <1>1 DEF Least
  <1>3. Moved(t, move) = [Scroll(t, move.scrolls) EXCEPT !.cursor = row, !.screen = move.screen]
    BY DEF Moved
  <1> HIDE DEF row
  <1>4. PICK kept \in Nat, gone \in Nat :
              /\ kept + gone = t.history + move.scrolls
              /\ Scroll(t, move.scrolls) =
                    [rows |-> t.rows, limit |-> t.limit, history |-> kept, cursor |-> t.cursor,
                     screen |-> t.screen, evicted |-> t.evicted + gone]
    BY <1>1, ScrollParts
  <1>5. Moved(t, move) = [rows |-> t.rows, limit |-> t.limit, history |-> kept, cursor |-> row,
                          screen |-> move.screen, evicted |-> t.evicted + gone]
    <2> DEFINE u == [rows |-> t.rows, limit |-> t.limit, history |-> kept, cursor |-> t.cursor,
                     screen |-> t.screen, evicted |-> t.evicted + gone]
    <2>1. Moved(t, move) = [u EXCEPT !.cursor = row, !.screen = move.screen]
      BY <1>3, <1>4
    <2> QED
      BY <2>1
  <1>6. t.evicted + gone \in Nat
    BY <1>1
  <1> QED
    BY <1>1, <1>2, <1>5, <1>6, RowCount

LEMMA PrintHolds ==
    ASSUME NEW t \in RowCounts, NEW e, e.control \subseteq Moves, NEW n \in Nat
    PROVE  /\ ApplyText(t, e, n) \in RowCounts
           /\ e.control = {} /\ t.screen = "primary" =>
                ApplyText(t, e, n).screen = "primary" /\ Held(ApplyText(t, e, n)) = Held(t) + n
  <1>1. CASE e.control = {}
    <2>1. ApplyText(t, e, n) = Feed(t, n)
      BY <1>1 DEF ApplyText
    <2> QED
      BY <2>1, FeedHolds
  <1>2. CASE e.control # {}
    <2> DEFINE move == CHOOSE m \in e.control : TRUE
    <2>1. ApplyText(t, e, n) = Moved(t, move)
      BY <1>2 DEF ApplyText
    <2>2. move \in Moves
      BY <1>2
    <2> HIDE DEF move
    <2> QED
      BY <1>2, <2>1, <2>2, MovedHolds
  <1> QED
    BY <1>1, <1>2

LEMMA ResizePrimaryHolds ==
    ASSUME NEW t \in RowCounts, NEW rows \in Nat, rows > 0
    PROVE  /\ ResizePrimary(t, rows) \in RowCounts
           /\ ResizePrimary(t, rows).screen = t.screen
           /\ Held(ResizePrimary(t, rows)) = Held(t)
  <1>1. /\ t.rows \in Nat /\ t.cursor \in Nat /\ t.cursor < t.rows /\ t.limit \in Nat
        /\ t.history \in Nat /\ t.evicted \in Nat /\ t.screen \in {"primary", "alternate"}
        /\ t = [rows |-> t.rows, limit |-> t.limit, history |-> t.history,
                cursor |-> t.cursor, screen |-> t.screen, evicted |-> t.evicted]
    BY DEF RowCounts
  <1>2. CASE rows < t.rows
    <2> DEFINE scrolled == Minus(t.cursor + 1, rows)
    <2>1. scrolled \in Nat /\ scrolled <= t.cursor /\ t.cursor - scrolled < rows
      BY <1>1 DEF Minus
    <2>2. ResizePrimary(t, rows) =
            [Scroll(t, scrolled) EXCEPT !.rows = rows, !.cursor = @ - scrolled]
      BY <1>2 DEF ResizePrimary
    <2> HIDE DEF scrolled
    <2>3. PICK kept \in Nat, gone \in Nat :
              /\ kept + gone = t.history + scrolled
              /\ Scroll(t, scrolled) = [rows |-> t.rows, limit |-> t.limit, history |-> kept,
                                        cursor |-> t.cursor, screen |-> t.screen,
                                        evicted |-> t.evicted + gone]
      BY <2>1, ScrollParts
    <2>4. ResizePrimary(t, rows) = [rows |-> rows, limit |-> t.limit, history |-> kept,
                                    cursor |-> t.cursor - scrolled, screen |-> t.screen,
                                    evicted |-> t.evicted + gone]
      <3> DEFINE u == [rows |-> t.rows, limit |-> t.limit, history |-> kept,
                       cursor |-> t.cursor, screen |-> t.screen,
                       evicted |-> t.evicted + gone]
      <3>1. ResizePrimary(t, rows) = [u EXCEPT !.rows = rows, !.cursor = u.cursor - scrolled]
        BY <2>2, <2>3
      <3> QED
        BY <3>1
    <2>5. t.evicted + gone \in Nat /\ t.cursor - scrolled \in Nat
      BY <1>1, <2>1
    <2>6. /\ ResizePrimary(t, rows) \in RowCounts
          /\ Held(ResizePrimary(t, rows)) = kept + (t.cursor - scrolled) + (t.evicted + gone)
      BY <1>1, <2>1, <2>4, <2>5, RowCount
    <2>7. kept + (t.cursor - scrolled) + (t.evicted + gone) = t.history + t.cursor + t.evicted
      BY <1>1, <2>1, <2>3
    <2>8. ResizePrimary(t, rows).screen = t.screen
      BY <2>4
    <2> QED
      BY <2>6, <2>7, <2>8 DEF Held
  <1>3. CASE ~(rows < t.rows)
    <2> DEFINE back == Least(rows - t.rows, t.history)
    <2>1. back \in Nat /\ back <= t.history /\ t.cursor + back < rows
      BY <1>1, <1>3 DEF Least
    <2>2. ResizePrimary(t, rows) =
            [t EXCEPT !.rows = rows, !.history = @ - back, !.cursor = @ + back]
      BY <1>3 DEF ResizePrimary
    <2> HIDE DEF back
    <2>3. ResizePrimary(t, rows) = [rows |-> rows, limit |-> t.limit, history |-> t.history - back,
                                    cursor |-> t.cursor + back, screen |-> t.screen,
                                    evicted |-> t.evicted]
      BY <1>1, <2>2
    <2>4. t.history - back \in Nat /\ t.cursor + back \in Nat
      BY <1>1, <2>1
    <2>5. /\ ResizePrimary(t, rows) \in RowCounts
          /\ Held(ResizePrimary(t, rows)) = (t.history - back) + (t.cursor + back) + t.evicted
      BY <1>1, <2>1, <2>3, <2>4, RowCount
    <2>6. (t.history - back) + (t.cursor + back) + t.evicted = t.history + t.cursor + t.evicted
      BY <1>1, <2>1
    <2>7. ResizePrimary(t, rows).screen = t.screen
      BY <2>3
    <2> QED
      BY <2>5, <2>6, <2>7 DEF Held
  <1> QED
    BY <1>2, <1>3

LEMMA ResizeHolds ==
    ASSUME NEW t \in RowCounts, NEW rows \in Nat, rows > 0
    PROVE  /\ ResizeRows(t, rows) \in RowCounts
           /\ t.screen = "primary" => ResizeRows(t, rows).screen = "primary" /\ Held(ResizeRows(t, rows)) = Held(t)
  <1>1. CASE t.screen = "primary"
    <2>1. ResizeRows(t, rows) = ResizePrimary(t, rows)
      BY <1>1 DEF ResizeRows
    <2> QED
      BY <1>1, <2>1, ResizePrimaryHolds
  <1>2. CASE t.screen # "primary"
    <2> DEFINE row == Least(t.cursor, rows - 1)
    <2>1. /\ t.cursor \in Nat /\ t.limit \in Nat /\ t.history \in Nat /\ t.evicted \in Nat
          /\ t.screen \in {"primary", "alternate"}
          /\ t = [rows |-> t.rows, limit |-> t.limit, history |-> t.history,
                  cursor |-> t.cursor, screen |-> t.screen, evicted |-> t.evicted]
      BY DEF RowCounts
    <2>2. row \in Nat /\ row < rows
      BY <2>1 DEF Least
    <2>3. ResizeRows(t, rows) = [t EXCEPT !.rows = rows, !.cursor = row]
      BY <1>2 DEF ResizeRows
    <2> HIDE DEF row
    <2>4. ResizeRows(t, rows) = [rows |-> rows, limit |-> t.limit, history |-> t.history,
                                 cursor |-> row, screen |-> t.screen, evicted |-> t.evicted]
      BY <2>1, <2>3
    <2> QED
      BY <1>2, <2>1, <2>2, <2>4, RowCount
  <1> QED
    BY <1>1, <1>2

-----------------------------------------------------------------------------
(* Replaying a fixture.                                                    *)

Dones == [terminal : RowCounts, bytes : Nat, lines : Nat]

Finished(e) ==
    /\ Prints(e) => e.control = {}
    /\ e.kind = "output" => ~e.tail

(* The lines of the primary screen are accounted for.                      *)
Accounts(t, u, lines) == t.screen = "primary" => u.screen = "primary" /\ Held(u) = Held(t) + lines

LEMMA TerminalAfter ==
    ASSUME NEW done \in Dones, NEW e, EventTyped(e), M5EventLoads(e)
    PROVE  /\ ApplyEvent(done, e).terminal \in RowCounts
           /\ Finished(e) =>
                Accounts(done.terminal, ApplyEvent(done, e).terminal, LogicalLines(e))
  <1> DEFINE t == done.terminal
             u == ApplyEvent(done, e).terminal
  <1>1. t \in RowCounts /\ Held(t) \in Nat
    BY DEF Dones, RowCounts, Held
  <1>2. u = CASE e.kind = "output"    -> ApplyText(t, e, e.newlines)
              [] e.kind = "generated" -> ApplyText(t, e, e.count)
              [] e.kind = "resize"    -> ResizeRows(t, e.rows)
              [] OTHER                -> t
    BY DEF ApplyEvent
  <1> HIDE DEF t, u
  <1>3. CASE e.kind = "output"
    <2>1. /\ u = ApplyText(t, e, e.newlines) /\ e.newlines \in Nat /\ e.tail \in BOOLEAN
          /\ e.control \subseteq Moves
      BY <1>2, <1>3, LoadedKinds
    <2>2. u \in RowCounts /\ (e.control = {} => Accounts(t, u, e.newlines))
      BY <1>1, <2>1, PrintHolds DEF Accounts
    <2>3. Finished(e) => LogicalLines(e) = e.newlines /\ e.control = {}
      BY <1>3, <2>1 DEF Finished, LogicalLines, Prints
    <2> QED
      BY <2>2, <2>3 DEF t, u
  <1>4. CASE e.kind = "generated"
    <2>1. u = ApplyText(t, e, e.count) /\ e.count \in Nat /\ e.control \subseteq Moves
      BY <1>2, <1>4, LoadedKinds
    <2>2. u \in RowCounts /\ (e.control = {} => Accounts(t, u, e.count))
      BY <1>1, <2>1, PrintHolds DEF Accounts
    <2>3. LogicalLines(e) = e.count /\ (Finished(e) => e.control = {})
      BY <1>4 DEF LogicalLines, Finished, Prints
    <2> QED
      BY <2>2, <2>3 DEF t, u
  <1>5. CASE e.kind = "resize"
    <2>1. u = ResizeRows(t, e.rows) /\ e.rows \in Nat /\ e.rows > 0
      BY <1>2, <1>5, LoadedKinds
    <2>2. u \in RowCounts /\ (t.screen = "primary" => u.screen = "primary" /\ Held(u) = Held(t))
      BY <1>1, <2>1, ResizeHolds
    <2>3. LogicalLines(e) = 0
      BY <1>5 DEF LogicalLines
    <2> QED
      BY <1>1, <2>2, <2>3 DEF t, u, Accounts
  <1>6. CASE e.kind = "marker"
    <2>1. u = t /\ LogicalLines(e) = 0
      BY <1>2, <1>6 DEF LogicalLines
    <2> QED
      BY <1>1, <2>1 DEF t, u, Accounts
  <1> QED
    BY <1>3, <1>4, <1>5, <1>6, LoadedKinds

LEMMA EventApplied ==
    ASSUME NEW done \in Dones, NEW e, EventTyped(e), M5EventLoads(e)
    PROVE  /\ ApplyEvent(done, e) \in Dones
           /\ ApplyEvent(done, e).bytes = done.bytes + DeclaredBytes(e)
           /\ ApplyEvent(done, e).lines = done.lines + LogicalLines(e)
           /\ Finished(e) =>
                Accounts(done.terminal, ApplyEvent(done, e).terminal, LogicalLines(e))
  <1> DEFINE u == ApplyEvent(done, e)
             wrote == WrittenBytes(e)
             many == LogicalLines(e)
  <1>1. u = [terminal |-> u.terminal, bytes |-> done.bytes + wrote, lines |-> done.lines + many]
    BY DEF ApplyEvent
  <1>2. done.bytes \in Nat /\ done.lines \in Nat
    BY DEF Dones
  <1>3. wrote = DeclaredBytes(e) /\ wrote \in Nat /\ many \in Nat
    BY WrittenAsDeclared
  <1>4. u.terminal \in RowCounts
    BY TerminalAfter
  <1>5. Finished(e) => Accounts(done.terminal, u.terminal, many)
    BY TerminalAfter
  <1> HIDE DEF u, wrote, many
  <1>6. u \in Dones /\ u.bytes = done.bytes + wrote /\ u.lines = done.lines + many
    BY <1>1, <1>2, <1>3, <1>4 DEF Dones
  <1>7. wrote = WrittenBytes(e) /\ many = LogicalLines(e) /\ u = ApplyEvent(done, e)
    BY DEF u, wrote, many
  <1> QED
    BY <1>3, <1>5, <1>6, <1>7

ReplayFrom(start, events) == FoldLeft(ApplyEvent, start, events)

(* The chains of results that ReplayOnce and the sum of the declared bytes *)
(* go through.                                                             *)
LEMMA ReplayChain ==
    ASSUME NEW E, LoadedEvents(E), NEW start \in Dones, NEW events \in Seq(E)
    PROVE  \E h \in [0..Len(events) -> Dones] :
              /\ h[0] = start /\ h[Len(events)] = ReplayFrom(start, events)
              /\ \A k \in 1..Len(events) : h[k] = ApplyEvent(h[k - 1], events[k])
  <1> DEFINE op == [p \in Dones \X E |-> ApplyEvent(p[1], p[2])]
             F(g) == [s \in SUBSET (DOMAIN events) |->
                        IF s = {} THEN start ELSE ApplyEvent(g[s \ {Max(s)}], events[Max(s)])]
             it == CHOOSE g : g = F(g)
  <1>0. \A d \in Dones, e \in E : ApplyEvent(d, e) \in Dones
    BY EventApplied DEF LoadedEvents
  <1>1. op \in [Dones \X E -> Dones]
    BY <1>0
  <1>2. \A d \in Dones, e \in E : op[<<d, e>>] = ApplyEvent(d, e)
    OBVIOUS
  <1>7. ReplayFrom(start, events) = it[DOMAIN events]
    BY DEF ReplayFrom, FoldLeft, MapThenFoldSet
  <1> HIDE DEF op
  <1>3. Foldable(Dones, E, op, start, events)
    BY <1>1 DEF Foldable
  <1>4. PICK g : IterationOnA(g, Dones, E, op, start, events)
    BY <1>3, IterationOnAExists
  <1>5. g = F(g)
    BY <1>2, <1>4 DEF IterationOnA
  <1>6. it = F(it)
    BY <1>5
  <1> HIDE DEF it
  <1>8. Folds(it, Dones, E, op, start, events)
    BY <1>2, <1>3, <1>4, <1>6 DEF Folds, IterationOnA
  <1>9. PICK h : Chain(h, Dones, op, start, events, it[DOMAIN events])
    BY <1>8, ChainOfFold
  <1>10. \A k \in 1..Len(events) : h[k - 1] \in Dones /\ events[k] \in E
    BY <1>9 DEF Chain
  <1>11. \A k \in 1..Len(events) : h[k] = ApplyEvent(h[k - 1], events[k])
    BY <1>2, <1>9, <1>10 DEF Chain
  <1> QED
    BY <1>7, <1>9, <1>11 DEF Chain

LEMMA DeclaredChain ==
    ASSUME NEW E, LoadedEvents(E), NEW events \in Seq(E)
    PROVE  \E h \in [0..Len(events) -> Nat] :
              /\ h[0] = 0 /\ h[Len(events)] = Total(events, DeclaredBytes)
              /\ \A k \in 1..Len(events) : h[k] = h[k - 1] + DeclaredBytes(events[k])
  <1> DEFINE op == [p \in Nat \X E |-> p[1] + DeclaredBytes(p[2])]
             F(g) == [s \in SUBSET (DOMAIN events) |->
                        IF s = {} THEN 0 ELSE g[s \ {Max(s)}] + DeclaredBytes(events[Max(s)])]
             it == CHOOSE g : g = F(g)
  <1>0. \A e \in E : DeclaredBytes(e) \in Nat
    BY WrittenAsDeclared DEF LoadedEvents
  <1>1. op \in [Nat \X E -> Nat]
    BY <1>0
  <1>2. \A a \in Nat, e \in E : op[<<a, e>>] = a + DeclaredBytes(e)
    OBVIOUS
  <1>7. Total(events, DeclaredBytes) = it[DOMAIN events]
    BY DEF Total, FoldLeft, MapThenFoldSet
  <1> HIDE DEF op
  <1>3. Foldable(Nat, E, op, 0, events)
    BY <1>1 DEF Foldable
  <1>4. PICK g : IterationOnA(g, Nat, E, op, 0, events)
    BY <1>3, IterationOnAExists
  <1>5. g = F(g)
    BY <1>2, <1>4 DEF IterationOnA
  <1>6. it = F(it)
    BY <1>5
  <1> HIDE DEF it
  <1>8. Folds(it, Nat, E, op, 0, events)
    BY <1>2, <1>3, <1>4, <1>6 DEF Folds, IterationOnA
  <1>9. PICK h : Chain(h, Nat, op, 0, events, it[DOMAIN events])
    BY <1>8, ChainOfFold
  <1>10. \A k \in 1..Len(events) : h[k - 1] \in Nat /\ events[k] \in E
    BY <1>9 DEF Chain
  <1>11. \A k \in 1..Len(events) : h[k] = h[k - 1] + DeclaredBytes(events[k])
    BY <1>2, <1>9, <1>10 DEF Chain
  <1> QED
    BY <1>7, <1>9, <1>11 DEF Chain

LoadedFixture(fixture) ==
    fixture.form \in Forms /\ FixtureTyped(fixture) /\ ReplayLoads(fixture.form, fixture)

LEMMA LoadedParts ==
    ASSUME NEW fixture, LoadedFixture(fixture)
    PROVE  /\ fixture.events \in Seq(Range(fixture.events)) /\ LoadedEvents(Range(fixture.events))
           /\ fixture.rows \in Nat /\ fixture.rows > 0 /\ ScrollbackOf(fixture) \in Nat
           /\ Total(fixture.events, DeclaredBytes) <= MaxReplayBytes
  <1>1. fixture.form \in {"m4", "m5"} /\ FixtureTyped(fixture) /\ ReplayLoads(fixture.form, fixture)
    BY DEF LoadedFixture, Forms
  <1>2. /\ fixture.events \in Seq(Range(fixture.events))
        /\ \A e \in Range(fixture.events) : EventTyped(e)
    BY <1>1 DEF FixtureTyped
  <1>3. \A i \in DOMAIN fixture.events : EventLoads(fixture.form, fixture.events[i])
    BY <1>1 DEF ReplayLoads
  <1>4. \A i \in DOMAIN fixture.events : M5EventLoads(fixture.events[i])
    BY <1>1, <1>3 DEF EventLoads, M5EventLoads
  <1>5. LoadedEvents(Range(fixture.events))
    BY <1>2, <1>4 DEF LoadedEvents, Range
  <1>6. fixture.rows \in Nat /\ fixture.rows > 0
    BY <1>1, ReplayConstants DEF ReplayLoads
  <1>7. ScrollbackOf(fixture) \in Nat
    <2>1. CASE fixture.form = "m5" /\ fixture.scrollback # {}
      <3> DEFINE asked == CHOOSE limit \in fixture.scrollback : TRUE
      <3>1. asked \in Nat
        BY <1>1, <2>1 DEF FixtureTyped
      <3>2. ScrollbackOf(fixture) = Least(DefaultScrollback, asked)
        BY <2>1 DEF ScrollbackOf
      <3> HIDE DEF asked
      <3> QED
        BY <3>1, <3>2, ReplayConstants DEF Least
    <2>2. CASE ~(fixture.form = "m5" /\ fixture.scrollback # {})
      <3>1. ScrollbackOf(fixture) = DefaultScrollback
        BY <2>2 DEF ScrollbackOf
      <3> QED
        BY <3>1, ReplayConstants
    <2> QED
      BY <2>1, <2>2
  <1>8. Total(fixture.events, DeclaredBytes) <= MaxReplayBytes
    BY <1>1 DEF ReplayLoads
  <1> QED
    BY <1>2, <1>5, <1>6, <1>7, <1>8

(* A replay writes the bytes its fixture declares, and of output of whole  *)
(* lines each line is on the screen, in the history or evicted.            *)
LEMMA ReplayAccounts ==
    ASSUME NEW fixture, LoadedFixture(fixture)
    PROVE  /\ ReplayOnce(fixture) \in Dones
           /\ ReplayOnce(fixture).bytes = Total(fixture.events, DeclaredBytes)
           /\ OfWholeLines(fixture) =>
                ReplayOnce(fixture).lines = Held(ReplayOnce(fixture).terminal)
  <1> DEFINE events == fixture.events
             E == Range(fixture.events)
             n == Len(events)
             start == [terminal |-> Rows(fixture.rows, ScrollbackOf(fixture)), bytes |-> 0, lines |-> 0]
  <1>1. events \in Seq(E) /\ LoadedEvents(E) /\ n \in Nat /\ DOMAIN events = 1..n
    BY LoadedParts
  <1>2. /\ start \in Dones /\ start.bytes = 0 /\ start.lines = 0 /\ Held(start.terminal) = 0
        /\ start.terminal.screen = "primary"
    <2>1. /\ Rows(fixture.rows, ScrollbackOf(fixture)) \in RowCounts
          /\ Held(Rows(fixture.rows, ScrollbackOf(fixture))) = 0
          /\ Rows(fixture.rows, ScrollbackOf(fixture)).screen = "primary"
      BY LoadedParts, RowCount DEF Rows
    <2> QED
      BY <2>1 DEF Dones
  <1>3. ReplayOnce(fixture) = ReplayFrom(start, events)
    BY DEF ReplayOnce, ReplayFrom
  <1> HIDE DEF start, E
  <1>4. PICK h \in [0..n -> Dones] :
              /\ h[0] = start /\ h[n] = ReplayOnce(fixture)
              /\ \A k \in 1..n : h[k] = ApplyEvent(h[k - 1], events[k])
    BY <1>1, <1>2, <1>3, ReplayChain
  <1>5. PICK g \in [0..n -> Nat] :
              /\ g[0] = 0 /\ g[n] = Total(events, DeclaredBytes)
              /\ \A k \in 1..n : g[k] = g[k - 1] + DeclaredBytes(events[k])
    BY <1>1, DeclaredChain
  <1>6. OfWholeLines(fixture) => \A k \in 1..n : Finished(events[k])
    BY <1>1 DEF OfWholeLines, Finished
  <1> DEFINE Kept(d) == d.terminal.screen = "primary" /\ d.lines = Held(d.terminal)
  <1> DEFINE T == {k \in 0..n : /\ h[k].bytes = g[k]
                                /\ OfWholeLines(fixture) => Kept(h[k])}
  <1>7. 0 \in T
    BY <1>1, <1>2, <1>4, <1>5
  <1>8. ASSUME NEW k \in 1..n, k - 1 \in T PROVE k \in T
    <2> DEFINE e == events[k]
               d == h[k - 1]
               u == h[k]
    <2>0. k \in 0..n /\ k - 1 \in 0..n
      BY <1>1
    <2>1. d \in Dones /\ u = ApplyEvent(d, e) /\ e \in E /\ EventTyped(e) /\ M5EventLoads(e)
      BY <1>1, <1>4, <2>0 DEF LoadedEvents
    <2>2. /\ u.bytes = d.bytes + DeclaredBytes(e)
          /\ u.lines = d.lines + LogicalLines(e)
          /\ Finished(e) => Accounts(d.terminal, u.terminal, LogicalLines(e))
      BY <2>1, EventApplied
    <2>3. d.bytes = g[k - 1] /\ (OfWholeLines(fixture) => Kept(d))
      BY <1>8
    <2>4. g[k] = g[k - 1] + DeclaredBytes(e)
      BY <1>5
    <2>5. OfWholeLines(fixture) => Finished(e)
      BY <1>6
    <2> HIDE DEF d, e, u
    <2>6. u.bytes = g[k] /\ (OfWholeLines(fixture) => Kept(u))
      BY <2>2, <2>3, <2>4, <2>5 DEF Accounts
    <2> QED
      BY <2>0, <2>6 DEF u
  <1>9. n \in T
    <2> HIDE DEF T
    <2>1. \A k \in 0..n : k \in T
      BY <1>1, <1>7, <1>8, UpTo
    <2> QED
      BY <1>1, <2>1
  <1>10. ReplayOnce(fixture) \in Dones
    BY <1>1, <1>4
  <1> QED
    BY <1>4, <1>5, <1>9, <1>10

-----------------------------------------------------------------------------
(* The names of a directory, in order.                                     *)

Rising(order, names) ==
    /\ order \in [1..Cardinality(names) -> names]
    /\ \A i, j \in 1..Cardinality(names) : i < j => order[i] < order[j]

LEMMA OrderExists ==
    ASSUME NEW names, IsFiniteSet(names), names \subseteq Nat
    PROVE  \E order : Rising(order, names)
  <1> DEFINE n == Cardinality(names)
             T == {k \in 0..n : \A some \in SUBSET names :
                                   Cardinality(some) = k => \E order : Rising(order, some)}
  <1>1. n \in Nat
    BY FS_CardinalityType
  <1>2. \A some \in SUBSET names : IsFiniteSet(some) /\ Cardinality(some) \in Nat
    BY FS_Subset, FS_CardinalityType
  <1>3. 0 \in T
    <2>1. ASSUME NEW some \in SUBSET names, Cardinality(some) = 0
          PROVE  \E order : Rising(order, some)
      <3>1. [i \in 1..0 |-> i] \in [1..0 -> some] /\ 1..0 = {}
        OBVIOUS
      <3>2. Rising([i \in 1..0 |-> i], some)
        BY <2>1, <3>1 DEF Rising
      <3> QED
        BY <3>2
    <2> QED
      BY <1>1, <2>1
  <1>4. ASSUME NEW k \in 1..n, k - 1 \in T PROVE k \in T
    <2>1. ASSUME NEW some \in SUBSET names, Cardinality(some) = k
          PROVE  \E order : Rising(order, some)
      <3>1. some # {} /\ some \subseteq Nat
        BY <2>1, FS_EmptySet
      <3>2. PICK x \in some : \A y \in some : x <= y
        BY <3>1, LeastElement
      <3> DEFINE rest == some \ {x}
      <3>3. rest \in SUBSET names /\ Cardinality(rest) = k - 1
        BY <1>2, <2>1, <3>2, FS_RemoveElement
      <3>4. \A y \in rest : y \in some /\ x < y /\ y \in Nat
        BY <3>1, <3>2
      <3> HIDE DEF rest
      <3>5. PICK order : Rising(order, rest)
        BY <1>4, <3>3
      <3>6. /\ order \in [1..(k - 1) -> rest]
            /\ \A i, j \in 1..(k - 1) : i < j => order[i] < order[j]
        BY <3>3, <3>5 DEF Rising
      <3> DEFINE more == [i \in 1..k |-> IF i = 1 THEN x ELSE order[i - 1]]
      <3>7. \A i \in 1..k : i # 1 => i - 1 \in 1..(k - 1) /\ order[i - 1] \in rest
        BY <3>6
      <3>8. more \in [1..k -> some]
        BY <3>2, <3>4, <3>7
      <3>9. ASSUME NEW i \in 1..k, NEW j \in 1..k, i < j PROVE more[i] < more[j]
        <4>1. j # 1 /\ more[j] = order[j - 1] /\ order[j - 1] \in rest
          BY <3>7, <3>9
        <4>2. CASE i = 1
          BY <3>4, <4>1, <4>2
        <4>3. CASE i # 1
          BY <3>6, <3>7, <3>9, <4>1, <4>3
        <4> QED
          BY <4>2, <4>3
      <3> HIDE DEF more
      <3>10. Rising(more, some)
        BY <2>1, <3>8, <3>9 DEF Rising
      <3> QED
        BY <3>10
    <2>2. k \in 0..n
      BY <1>1
    <2> QED
      BY <2>1, <2>2
  <1>5. n \in T
    <2> HIDE DEF T
    <2>1. \A k \in 0..n : k \in T
      BY <1>1, <1>3, <1>4, UpTo
    <2> QED
      BY <1>1, <2>1
  <1> QED
    BY <1>5

(* InOrder lists every name, and none twice.                               *)
LEMMA InOrderLists ==
    ASSUME NEW names, IsFiniteSet(names), names \subseteq Nat
    PROVE  /\ InOrder(names) \in Seq(names) /\ Range(InOrder(names)) = names
           /\ \A i, j \in DOMAIN InOrder(names) : i # j => InOrder(names)[i] # InOrder(names)[j]
  <1> DEFINE order == InOrder(names)
             n == Cardinality(names)
  <1>1. PICK some : Rising(some, names)
    BY OrderExists
  <1>2. Rising(order, names)
    BY <1>1 DEF InOrder, Rising
  <1> HIDE DEF order
  <1>3. n \in Nat
    BY FS_CardinalityType
  <1>4. order \in [1..n -> names] /\ \A i, j \in 1..n : i < j => order[i] < order[j]
    BY <1>2 DEF Rising
  <1>5. order \in Seq(names) /\ DOMAIN order = 1..n
    BY <1>3, <1>4
  <1>6. ASSUME NEW i \in 1..n, NEW j \in 1..n, i # j PROVE order[i] # order[j]
    <2>1. order[i] \in Nat /\ order[j] \in Nat
      BY <1>4
    <2>2. i < j \/ j < i
      BY <1>6
    <2> QED
      BY <1>4, <2>1, <2>2
  <1>7. order \in Injection(1..n, names)
    BY <1>4, <1>6 DEF Injection, IsInjective
  <1>8. IsFiniteSet(1..n) /\ Cardinality(1..n) = n
    BY <1>3, FS_Interval
  <1>9. order \in Surjection(1..n, names)
    BY <1>7, <1>8, FS_Injection
  <1>10. Range(order) = names
    BY <1>4, <1>9 DEF Surjection, Range
  <1> QED
    BY <1>5, <1>6, <1>10 DEF order

-----------------------------------------------------------------------------
(* What a report says.                                                     *)

GoodReport(r) ==
    /\ LoadedFixture(r.fixture)
    /\ r.bytes = Total(r.fixture.events, DeclaredBytes) /\ r.bytes <= MaxReplayBytes
    /\ OfWholeLines(r.fixture) => r.discarded <= r.evicted
    /\ r.passed /\ r.fixture.form = "m5" =>
         /\ r.elapsed <= r.fixture.policy.timeout
         /\ \A min \in r.fixture.policy.min : r.lines >= min
         /\ r.fixture.policy.discards /\ OfWholeLines(r.fixture) => r.evicted > 0

LEMMA DiscardedLeft ==
    ASSUME NEW fixture, LoadedFixture(fixture), OfWholeLines(fixture)
    PROVE  /\ Discarded(ReplayOnce(fixture)) \in Nat /\ ReplayOnce(fixture).terminal.evicted \in Nat
           /\ Discarded(ReplayOnce(fixture)) <= ReplayOnce(fixture).terminal.evicted
  <1> DEFINE done == ReplayOnce(fixture)
             t == done.terminal
             shown == t.history + t.rows
  <1>1. done.lines = t.history + t.cursor + t.evicted /\ t \in RowCounts
    BY ReplayAccounts DEF Dones, Held
  <1>2. t.history \in Nat /\ t.cursor \in Nat /\ t.evicted \in Nat /\ t.rows \in Nat
        /\ t.cursor < t.rows
    BY <1>1 DEF RowCounts
  <1>3. Discarded(done) = Minus(done.lines, shown)
    BY DEF Discarded
  <1> HIDE DEF t
  <1>4. shown \in Nat /\ done.lines \in Nat /\ done.lines <= shown + t.evicted
    BY <1>1, <1>2
  <1> HIDE DEF done, shown
  <1>5. Discarded(done) \in Nat /\ Discarded(done) <= t.evicted
    <2>1. CASE done.lines < shown
      BY <1>2, <1>3, <2>1 DEF Minus
    <2>2. CASE ~(done.lines < shown)
      BY <1>2, <1>3, <1>4, <2>2 DEF Minus
    <2> QED
      BY <2>1, <2>2
  <1> QED
    BY <1>2, <1>5 DEF done, t

LEMMA ReportIsGood ==
    ASSUME NEW name, NEW fixture, LoadedFixture(fixture), NEW r \in Reports(name, fixture)
    PROVE  r.name = name /\ r.fixture = fixture /\ GoodReport(r)
  <1> DEFINE done == ReplayOnce(fixture)
             m4 == M4Report(name, fixture)
             total == Total(fixture.events, DeclaredBytes)
  <1>1. /\ done \in Dones /\ done.bytes = total /\ total <= MaxReplayBytes
        /\ done.terminal.evicted \in Nat
    BY ReplayAccounts, LoadedParts DEF Dones, RowCounts
  <1>2. OfWholeLines(fixture) => /\ Discarded(done) \in Nat
                                 /\ Discarded(done) <= done.terminal.evicted
    BY DiscardedLeft
  <1>3. m4 = [name |-> name, fixture |-> fixture, elapsed |-> 0, lines |-> done.lines,
              bytes |-> done.bytes, discarded |-> 0, evicted |-> done.terminal.evicted,
              passed |-> TRUE]
    BY DEF M4Report
  <1> HIDE DEF done, m4, total
  <1>4. CASE fixture.form = "m4"
    <2>1. r = m4
      BY <1>4 DEF Reports, m4
    <2>2. /\ r.name = name /\ r.fixture = fixture /\ r.bytes = done.bytes /\ r.discarded = 0
          /\ r.evicted = done.terminal.evicted
      BY <1>3, <2>1
    <2> QED
      BY <1>1, <1>4, <2>2 DEF GoodReport, total
  <1>5. CASE fixture.form # "m4"
    <2>1. PICK elapsed \in 0..MaxReplayTime : r = M5Report(name, fixture, elapsed)
      BY <1>5 DEF Reports
    <2> DEFINE within == WithinPolicy(fixture, done, elapsed)
               lost == Discarded(done)
    <2>2. r = [m4 EXCEPT !.elapsed = elapsed, !.discarded = lost, !.passed = within]
      BY <2>1 DEF M5Report, done, m4
    <2>3. within => /\ elapsed <= fixture.policy.timeout
                    /\ \A min \in fixture.policy.min : done.lines >= min
                    /\ fixture.policy.discards => lost > 0
      BY DEF WithinPolicy
    <2> HIDE DEF within, lost
    <2>4. r = [name |-> name, fixture |-> fixture, elapsed |-> elapsed, lines |-> done.lines,
               bytes |-> done.bytes, discarded |-> lost, evicted |-> done.terminal.evicted,
               passed |-> within]
      BY <1>3, <2>2
    <2>5. /\ r.name = name /\ r.fixture = fixture /\ r.bytes = done.bytes /\ r.discarded = lost
          /\ r.evicted = done.terminal.evicted /\ r.elapsed = elapsed /\ r.lines = done.lines
          /\ r.passed = within
      BY <2>4
    <2>6. OfWholeLines(fixture) => lost \in Nat /\ lost <= done.terminal.evicted
      BY <1>2 DEF lost
    <2>7. fixture.policy.discards /\ OfWholeLines(fixture) /\ within => done.terminal.evicted > 0
      BY <1>1, <2>3, <2>6
    <2> QED
      BY <1>1, <2>3, <2>5, <2>6, <2>7 DEF GoodReport, total
  <1> QED
    BY <1>4, <1>5

-----------------------------------------------------------------------------
(* The invariant.                                                          *)

Named(rs) == {rs[i].name : i \in DOMAIN rs}

ReportsKept ==
    /\ reports \in Seq(Range(reports))
    /\ \A i \in DOMAIN reports : GoodReport(reports[i])
    /\ \A i, j \in DOMAIN reports : i # j => reports[i].name # reports[j].name

(* What a verification has yet to look at is the rest of the directory.    *)
Unverified(work) ==
    /\ work \in Seq(DOMAIN corpus)
    /\ \A i, j \in DOMAIN work : i # j => work[i] # work[j]
    /\ DOMAIN corpus \subseteq Range(work) \cup Named(reports)
    /\ \A i \in DOMAIN work : work[i] \notin Named(reports)

QueueKept ==
    /\ replayCommand = "none" => queue = <<>>
    /\ replayCommand = "generate" => queue \in Seq(Range(DefaultFixtures)) /\ reports = <<>>
    /\ replayCommand = "export" => (\E name \in DOMAIN corpus : queue = <<name>>) /\ reports = <<>>
    /\ replayCommand \in {"verify-m4", "verify-m5"} => Unverified(queue)

VerdictKept ==
    replayCommand = "none" /\ replayVerdict = "success" /\ reports # <<>> =>
        /\ DOMAIN corpus \ {SummaryName} \subseteq Named(reports)
        /\ \A i \in DOMAIN reports : reports[i].passed

StreamKept == \A i \in DOMAIN stream : stream[i].kind # "generated"

WordsKept ==
    /\ replayCommand \in {"none", "generate", "export", "verify-m4", "verify-m5"}
    /\ summaryPlace \in {"none", "elsewhere", "beside"}
    /\ replayVerdict \in {"none", "success", "failure"}
    /\ replayCommands \in 0..MaxReplayCommands

ReplayInv ==
    /\ Directory(corpus) /\ ReportsKept /\ QueueKept /\ VerdictKept /\ StreamKept /\ WordsKept

LEMMA InvGivesReplayType ==
    ReplayInv => ReplayTypeOK
  <1>1. {"none", "generate", "export"} \cup {VerifyCommand(form) : form \in Forms}
          = {"none", "generate", "export", "verify-m4", "verify-m5"}
    BY DEF Forms, VerifyCommand
  <1> QED
    BY <1>1 DEF ReplayInv, ReplayTypeOK, Directory, ReportsKept, QueueKept, StreamKept, WordsKept

LEMMA InvGivesBudget ==
    ReplayInv => BudgetIsSpent
  BY DEF ReplayInv, ReportsKept, GoodReport, BudgetIsSpent

LEMMA InvGivesDiscards ==
    ReplayInv => DiscardsAreReal
  BY DEF ReplayInv, ReportsKept, GoodReport, DiscardsAreReal

LEMMA InvGivesSummary ==
    ReplayInv => SummaryIsWhole
  BY DEF ReplayInv, ReportsKept, VerdictKept, GoodReport, SummaryIsWhole, Named

LEMMA NothingReported ==
    ASSUME reports = <<>>
    PROVE  ReportsKept /\ Named(reports) = {}
  <1>1. Range(<<>>) = {} /\ <<>> \in Seq({}) /\ DOMAIN <<>> = {}
    BY DEF Range
  <1> QED
    BY <1>1 DEF ReportsKept, Named

LEMMA ReplayInitKept ==
    ReplayInit => ReplayInv
  <1> SUFFICES ASSUME ReplayInit PROVE ReplayInv
    OBVIOUS
  <1>1. Directory(corpus)
    BY ReplayAssumption DEF ReplayInit
  <1>2. ReportsKept
    BY NothingReported DEF ReplayInit
  <1>3. StreamKept
    <2>1. DOMAIN <<>> = {}
      OBVIOUS
    <2> QED
      BY <2>1 DEF ReplayInit, StreamKept
  <1> QED
    BY <1>1, <1>2, <1>3, ReplayConstants
       DEF ReplayInv, ReplayInit, QueueKept, VerdictKept, WordsKept

-----------------------------------------------------------------------------
(* The steps.                                                              *)

(* A begun begins: what it has to deal with is as the begun needs it.  *)
LEMMA BeginKept ==
    ASSUME ReplayInv, NEW begun, NEW work, NEW where, BeginReplay(begun, work, where),
           begun \in {"generate", "export", "verify-m4", "verify-m5"},
           where \in {"none", "elsewhere", "beside"},
           begun = "generate" => work \in Seq(Range(DefaultFixtures)),
           begun = "export" => \E name \in DOMAIN corpus : work = <<name>>,
           begun \in {"verify-m4", "verify-m5"} =>
             /\ work \in Seq(DOMAIN corpus) /\ Range(work) = DOMAIN corpus
             /\ \A i, j \in DOMAIN work : i # j => work[i] # work[j]
    PROVE  ReplayInv'
  <1>1. /\ replayCommand' = begun /\ queue' = work /\ summaryPlace' = where
        /\ reports' = <<>> /\ replayVerdict' = "none" /\ corpus' = corpus /\ stream' = stream
        /\ replayCommands < MaxReplayCommands /\ replayCommands' = replayCommands + 1
    BY DEF BeginReplay
  <1>2. Directory(corpus)'
    BY <1>1 DEF ReplayInv
  <1>3. ReportsKept' /\ Named(reports)' = {}
    <2>1. Range(<<>>) = {} /\ <<>> \in Seq({}) /\ DOMAIN <<>> = {}
      BY DEF Range
    <2> QED
      BY <1>1, <2>1 DEF ReportsKept, Named
  <1>4. begun \in {"verify-m4", "verify-m5"} => Unverified(queue)'
    BY <1>1, <1>3 DEF Unverified
  <1>5. QueueKept'
    BY <1>1, <1>4 DEF QueueKept
  <1>6. WordsKept'
    <2>1. replayCommands \in 0..MaxReplayCommands
      BY DEF ReplayInv, WordsKept
    <2>2. replayCommands' \in 0..MaxReplayCommands
      BY <1>1, <2>1, ReplayConstants
    <2> QED
      BY <1>1, <2>2 DEF WordsKept
  <1>7. VerdictKept' /\ StreamKept'
    BY <1>1 DEF VerdictKept, ReplayInv, StreamKept
  <1> QED
    BY <1>2, <1>3, <1>5, <1>6, <1>7 DEF ReplayInv

LEMMA ExportBeginsKept ==
    ASSUME ReplayInv, Export PROVE ReplayInv'
  <1>1. PICK name \in DOMAIN corpus : BeginReplay("export", <<name>>, "none")
    BY DEF Export
  <1> QED
    BY <1>1, BeginKept

LEMMA GenerateKept ==
    ASSUME ReplayInv, Generate PROVE ReplayInv'
  <1>1. DefaultFixtures \in Seq(Range(DefaultFixtures))
    BY ReplayAssumption
  <1>2. BeginReplay("generate", DefaultFixtures, "none")
    BY DEF Generate
  <1> QED
    BY <1>1, <1>2, BeginKept

LEMMA VerifyKept ==
    ASSUME ReplayInv, NEW form \in Forms, NEW where \in {"none", "elsewhere", "beside"},
           Verify(form, where)
    PROVE  ReplayInv'
  <1> DEFINE order == InOrder(DOMAIN corpus)
  <1>1. IsFiniteSet(DOMAIN corpus) /\ DOMAIN corpus \subseteq Nat
    BY DEF ReplayInv, Directory
  <1>2. /\ order \in Seq(DOMAIN corpus) /\ Range(order) = DOMAIN corpus
        /\ \A i, j \in DOMAIN order : i # j => order[i] # order[j]
    BY <1>1, InOrderLists
  <1>3. BeginReplay(VerifyCommand(form), order, where)
    BY DEF Verify
  <1>4. VerifyCommand(form) \in {"verify-m4", "verify-m5"}
    BY DEF VerifyCommand, Forms
  <1> HIDE DEF order
  <1> QED
    BY <1>2, <1>3, <1>4, BeginKept

LEMMA ExportStreamKept ==
    ASSUME ReplayInv, ExportStream PROVE ReplayInv'
  <1>1. /\ replayCommand' = "none" /\ queue' = <<>> /\ replayVerdict' \in {"success", "failure"}
        /\ UNCHANGED <<corpus, summaryPlace, reports, replayCommands>>
    BY DEF ExportStream, Return
  <1>2. replayCommand = "export"
    BY DEF ExportStream
  <1>3. reports = <<>>
    BY <1>2 DEF ReplayInv, QueueKept
  <1>4. StreamKept'
    <2>1. PICK name \in DOMAIN corpus : queue = <<name>>
      BY <1>2 DEF ReplayInv, QueueKept
    <2> DEFINE fixture == corpus[name]
               events == fixture.events
               lines == PublicStream(fixture)
    <2>2. Head(queue) = name
      BY <2>1
    <2>3. CASE stream' = stream
      BY <2>3 DEF ReplayInv, StreamKept
    <2>4. CASE stream' # stream
      <3>1. /\ ReplayLoads("m4", fixture)
            /\ \/ stream' = lines
               \/ \E n \in 0..Len(events) : stream' = SubSeq(lines, 1, n)
        BY <2>2, <2>4 DEF ExportStream
      <3>2. FixtureTyped(fixture) /\ fixture.form = "m4"
        BY <3>1 DEF ReplayInv, Directory, ReplayLoads
      <3>3. events \in Seq(Range(events)) /\ DOMAIN events = 1..Len(events) /\ Len(events) \in Nat
        BY <3>2 DEF FixtureTyped
      <3>4. \A i \in 1..Len(events) : events[i].kind # "generated"
        BY <3>1, <3>3 DEF ReplayLoads, EventLoads, M4EventLoads
      <3> DEFINE n == Len(events)
                 head == <<PublicLine([kind |-> "header"], fixture.privacy)>>
                 rest == [i \in DOMAIN events |-> PublicLine(events[i], fixture.privacy)]
                 Line == {l \in {PublicLine([kind |-> "header"], fixture.privacy)}
                                  \cup {rest[i] : i \in 1..n} : l.kind # "generated"}
      <3>5. head \in Seq(Line)
        BY DEF PublicLine
      <3>6. rest \in Seq(Line)
        BY <3>3, <3>4 DEF PublicLine
      <3>7. lines = head \o rest
        BY DEF PublicStream
      <3>8. \A l \in Line : l.kind # "generated"
        OBVIOUS
      <3> HIDE DEF head, rest, Line, lines
      <3>9. lines \in Seq(Line)
        BY <3>5, <3>6, <3>7
      <3>91. Len(lines) = n + 1
        <4>1. Len(head) = 1 /\ Len(rest) = n
          BY <3>3 DEF head, rest
        <4>2. Len(head \o rest) = Len(head) + Len(rest)
          BY <3>5, <3>6, ConcatProperties
        <4>3. n \in Nat
          BY <3>3
        <4> HIDE DEF n
        <4> QED
          BY <3>7, <4>1, <4>2, <4>3
      <3>10. stream' \in Seq(Line)
        <4>1. ASSUME NEW k \in 0..n PROVE SubSeq(lines, 1, k) \in Seq(Line)
          <5>1. \A i \in 1..k : i \in 1..Len(lines) /\ lines[i] \in Line
            BY <3>3, <3>9, <3>91
          <5> QED
            BY <3>3, <3>9, <5>1, SubSeqProperties
        <4> QED
          BY <3>1, <3>9, <4>1
      <3>11. \A i \in DOMAIN stream' : stream'[i] \in Line
        BY <3>10
      <3> QED
        BY <3>8, <3>11 DEF StreamKept
    <2> QED
      BY <2>3, <2>4
  <1>5. Directory(corpus)' /\ ReportsKept'
    BY <1>1 DEF ReplayInv, ReportsKept
  <1>6. QueueKept' /\ VerdictKept'
    BY <1>1, <1>3 DEF QueueKept, VerdictKept
  <1>7. WordsKept'
    BY <1>1 DEF ReplayInv, WordsKept
  <1> QED
    BY <1>4, <1>5, <1>6, <1>7 DEF ReplayInv

LEMMA WriteFileKept ==
    ASSUME Directory(corpus), NEW name \in Nat, NEW content, FixtureTyped(content),
           WriteFile(name, content)
    PROVE  Directory(corpus)' /\ DOMAIN corpus' = DOMAIN corpus \cup {name}
  <1>1. corpus' = [n \in DOMAIN corpus \cup {name} |-> IF n = name THEN content ELSE corpus[n]]
    BY DEF WriteFile
  <1>2. DOMAIN corpus' = DOMAIN corpus \cup {name}
    BY <1>1
  <1>3. IsFiniteSet(DOMAIN corpus \cup {name}) /\ DOMAIN corpus \cup {name} \subseteq Nat
    BY FS_AddElement DEF Directory
  <1>4. \A n \in DOMAIN corpus' : FixtureTyped(corpus'[n])
    BY <1>1 DEF Directory
  <1> QED
    BY <1>2, <1>3, <1>4 DEF Directory

LEMMA SummaryTyped ==
    FixtureTyped(SummaryFile) /\ FixtureTyped(TornFile)
  BY DEF FixtureTyped, SummaryFile, TornFile

LEMMA WriteFailsKept ==
    ASSUME Directory(corpus), NEW name \in Nat, WriteFails(name)
    PROVE  Directory(corpus)'
  BY WriteFileKept, SummaryTyped DEF WriteFails

LEMMA SequenceOfItsRange ==
    ASSUME NEW S, NEW s \in Seq(S)
    PROVE  s \in Seq(Range(s))
  <1>1. Len(s) \in Nat /\ s \in [1..Len(s) -> S]
    OBVIOUS
  <1>2. \A i \in 1..Len(s) : s[i] \in Range(s)
    BY <1>1 DEF Range
  <1>3. s \in [1..Len(s) -> Range(s)]
    BY <1>1, <1>2
  <1> QED
    BY <1>1, <1>3

(* What is left of a queue.                                                *)
LEMMA TailParts ==
    ASSUME NEW S, NEW work \in Seq(S), work # <<>>
    PROVE  /\ Head(work) \in S /\ Head(work) = work[1] /\ 1 \in DOMAIN work
           /\ Tail(work) \in Seq(S)
           /\ \A i \in DOMAIN Tail(work) : i + 1 \in DOMAIN work /\ Tail(work)[i] = work[i + 1]
           /\ \A i \in DOMAIN work : i # 1 => i - 1 \in DOMAIN Tail(work)
  OBVIOUS

LEMMA WriteDerivativeKept ==
    ASSUME ReplayInv, WriteDerivative PROVE ReplayInv'
  <1> DEFINE name == Head(queue).name
             fixture == Head(queue).fixture
  <1>1. /\ replayCommand = "generate" /\ queue # <<>>
        /\ UNCHANGED <<stream, summaryPlace, reports, replayCommands>>
    BY DEF WriteDerivative
  <1>2. queue \in Seq(Range(DefaultFixtures)) /\ reports = <<>>
    BY <1>1 DEF ReplayInv, QueueKept
  <1>3. Head(queue) \in Range(DefaultFixtures) /\ Tail(queue) \in Seq(Range(DefaultFixtures))
    BY <1>1, <1>2, TailParts
  <1>4. name \in Nat /\ FixtureTyped(fixture)
    BY <1>3, ReplayAssumption DEF Range
  <1>5. Directory(corpus)
    BY DEF ReplayInv
  <1>6. \/ /\ WriteFile(name, fixture) /\ queue' = Tail(queue)
           /\ UNCHANGED <<replayCommand, replayVerdict>>
        \/ /\ WriteFails(name) \/ UNCHANGED corpus
           /\ Return("failure")
    BY DEF WriteDerivative
  <1>7. Directory(corpus)'
    BY <1>4, <1>5, <1>6, WriteFileKept, WriteFailsKept
  <1>8. ReportsKept' /\ StreamKept'
    BY <1>1 DEF ReplayInv, ReportsKept, StreamKept
  <1>9. QueueKept'
    BY <1>1, <1>2, <1>3, <1>6 DEF QueueKept, Return
  <1>10. VerdictKept'
    BY <1>1, <1>2 DEF VerdictKept
  <1>11. WordsKept'
    BY <1>1, <1>6 DEF ReplayInv, WordsKept, Return
  <1> QED
    BY <1>7, <1>8, <1>9, <1>10, <1>11 DEF ReplayInv

LEMMA DerivativesWrittenKept ==
    ASSUME ReplayInv, DerivativesWritten PROVE ReplayInv'
  <1>1. /\ replayCommand = "generate" /\ replayCommand' = "none" /\ queue' = <<>>
        /\ replayVerdict' = "success"
        /\ UNCHANGED <<corpus, stream, summaryPlace, reports, replayCommands>>
    BY DEF DerivativesWritten, Return
  <1>2. reports' = <<>>
    BY <1>1 DEF ReplayInv, QueueKept
  <1>3. Directory(corpus)' /\ ReportsKept' /\ StreamKept'
    BY <1>1 DEF ReplayInv, ReportsKept, StreamKept
  <1>4. QueueKept' /\ VerdictKept'
    BY <1>1, <1>2 DEF QueueKept, VerdictKept
  <1>5. WordsKept'
    BY <1>1 DEF ReplayInv, WordsKept
  <1> QED
    BY <1>3, <1>4, <1>5 DEF ReplayInv

LEMMA VerifyFixtureKept ==
    ASSUME ReplayInv, NEW form \in Forms, VerifyFixture(form) PROVE ReplayInv'
  <1> DEFINE name == Head(queue)
             rest == Tail(queue)
  <1>1. /\ replayCommand = VerifyCommand(form) /\ queue # <<>>
        /\ UNCHANGED <<corpus, stream, summaryPlace, replayCommands>>
    BY DEF VerifyFixture
  <1>2. replayCommand \in {"verify-m4", "verify-m5"}
    BY <1>1 DEF VerifyCommand, Forms
  <1>3. Unverified(queue) /\ ReportsKept /\ Directory(corpus)
    BY <1>2 DEF ReplayInv, QueueKept
  <1>4. /\ name \in DOMAIN corpus /\ name = queue[1] /\ 1 \in DOMAIN queue
        /\ rest \in Seq(DOMAIN corpus)
        /\ \A i \in DOMAIN rest : i + 1 \in DOMAIN queue /\ rest[i] = queue[i + 1]
        /\ \A i \in DOMAIN queue : i # 1 => i - 1 \in DOMAIN rest
    BY <1>1, <1>3, TailParts DEF Unverified
  <1>5. Directory(corpus)' /\ StreamKept'
    BY <1>1 DEF ReplayInv, StreamKept
  <1> DEFINE Verified ==
               /\ ReplayLoads(form, corpus[name])
               /\ \E r \in Reports(name, corpus[name]) : reports' = Append(reports, r)
               /\ queue' = rest
               /\ UNCHANGED <<replayCommand, replayVerdict>>
  <1>6. CASE ~Verified
    <2>1. /\ replayCommand' = "none" /\ queue' = <<>> /\ replayVerdict' = "failure"
          /\ reports' = reports
      BY <1>6 DEF VerifyFixture, Return
    <2>2. ReportsKept'
      BY <1>3, <2>1 DEF ReportsKept
    <2>3. QueueKept' /\ VerdictKept'
      BY <2>1 DEF QueueKept, VerdictKept
    <2>4. WordsKept'
      BY <1>1, <2>1 DEF ReplayInv, WordsKept
    <2> QED
      BY <1>5, <2>2, <2>3, <2>4 DEF ReplayInv
  <1>7. CASE Verified
    <2>1. PICK r \in Reports(name, corpus[name]) : reports' = Append(reports, r)
      BY <1>7
    <2>2. queue' = rest /\ UNCHANGED <<replayCommand, replayVerdict>>
      BY <1>7
    <2>3. LoadedFixture(corpus[name])
      <3>1. corpus[name].form = form
        BY <1>7 DEF ReplayLoads
      <3> QED
        BY <1>3, <1>4, <1>7, <3>1 DEF LoadedFixture, Directory
    <2>4. r.name = name /\ GoodReport(r)
      BY <2>1, <2>3, ReportIsGood
    <2> DEFINE n == Len(reports)
               S == Range(reports) \cup {r}
    <2>5. reports \in Seq(S) /\ r \in S /\ n \in Nat /\ DOMAIN reports = 1..n
      <3>1. reports \in Seq(Range(reports))
        BY <1>3 DEF ReportsKept
      <3> QED
        BY <3>1
    <2>51. \A i \in 1..n : reports[i].name \in Named(reports)
      BY <2>5 DEF Named
    <2> HIDE DEF S
    <2>6. /\ DOMAIN reports' = 1..n + 1 /\ reports'[n + 1] = r
          /\ \A i \in 1..n : reports'[i] = reports[i]
          /\ reports' \in Seq(S)
      BY <2>1, <2>5, AppendProperties
    <2>61. \A i \in 1..n + 1 : i = n + 1 \/ i \in 1..n
      BY <2>5
    <2>62. 1..n \subseteq 1..n + 1 /\ n + 1 \in 1..n + 1 /\ n + 1 \notin 1..n
      BY <2>5
    <2> HIDE DEF n
    <2>7. name \notin Named(reports)
      BY <1>3, <1>4 DEF Unverified
    <2>8. ReportsKept'
      <3>1. reports' \in Seq(Range(reports'))
        <4> DEFINE s == reports'
        <4>1. s \in Seq(S)
          BY <2>6
        <4> HIDE DEF s
        <4>2. s \in Seq(Range(s))
          BY <4>1, SequenceOfItsRange
        <4> QED
          BY <4>2 DEF s
      <3>2. \A i \in DOMAIN reports' : GoodReport(reports'[i])
        BY <1>3, <2>4, <2>5, <2>6, <2>61 DEF ReportsKept
      <3>3. ASSUME NEW i \in DOMAIN reports', NEW j \in DOMAIN reports', i # j
            PROVE  reports'[i].name # reports'[j].name
        <4>1. CASE i \in 1..n /\ j \in 1..n
          BY <1>3, <2>5, <2>6, <3>3, <4>1 DEF ReportsKept
        <4>2. CASE i \in 1..n /\ j = n + 1
          BY <2>4, <2>51, <2>6, <2>7, <4>2
        <4>3. CASE i = n + 1 /\ j \in 1..n
          BY <2>4, <2>51, <2>6, <2>7, <4>3
        <4> QED
          BY <2>6, <2>61, <3>3, <4>1, <4>2, <4>3
      <3> QED
        BY <3>1, <3>2, <3>3 DEF ReportsKept
    <2>9. Named(reports)' = Named(reports) \cup {name}
      <3>1. \A i \in 1..n : reports'[i].name = reports[i].name
        BY <2>6
      <3> QED
        BY <2>4, <2>5, <2>6, <2>61, <2>62, <3>1 DEF Named
    <2> HIDE DEF rest, name
    <2>10. Unverified(queue)'
      <3>0. queue' = rest /\ corpus' = corpus
        BY <1>1, <2>2
      <3>1. rest \in Seq(DOMAIN corpus)
        BY <1>4
      <3>2. \A i, j \in DOMAIN rest : i # j => rest[i] # rest[j]
        <4> SUFFICES ASSUME NEW i \in DOMAIN rest, NEW j \in DOMAIN rest, i # j
                     PROVE  rest[i] # rest[j]
          OBVIOUS
        <4>1. i \in Nat /\ j \in Nat
          BY <3>1
        <4>2. i + 1 # j + 1 /\ i + 1 \in DOMAIN queue /\ j + 1 \in DOMAIN queue
          BY <1>4, <4>1
        <4> QED
          BY <1>3, <1>4, <4>2 DEF Unverified
      <3>3. DOMAIN corpus \subseteq Range(rest) \cup (Named(reports) \cup {name})
        <4> SUFFICES ASSUME NEW file \in DOMAIN corpus, file \notin Named(reports), file # name
                     PROVE  file \in Range(rest)
          OBVIOUS
        <4>1. PICK i \in DOMAIN queue : queue[i] = file
          BY <1>3 DEF Unverified, Range
        <4>2. i # 1 /\ i \in Nat
          BY <1>3, <1>4, <4>1 DEF Unverified
        <4>3. i - 1 \in DOMAIN rest /\ rest[i - 1] = queue[(i - 1) + 1]
          BY <1>4, <4>2
        <4>4. (i - 1) + 1 = i
          BY <4>2
        <4> QED
          BY <4>1, <4>3, <4>4 DEF Range
      <3>4. \A i \in DOMAIN rest : rest[i] \notin Named(reports) \cup {name}
        <4> SUFFICES ASSUME NEW i \in DOMAIN rest PROVE rest[i] \notin Named(reports) \cup {name}
          OBVIOUS
        <4>1. i \in Nat /\ i >= 1
          BY <3>1
        <4>2. i + 1 \in DOMAIN queue /\ rest[i] = queue[i + 1] /\ i + 1 # 1
          BY <1>4, <4>1
        <4> QED
          BY <1>3, <1>4, <4>2 DEF Unverified
      <3> QED
        BY <2>9, <3>0, <3>1, <3>2, <3>3, <3>4 DEF Unverified
    <2>11. QueueKept'
      <3>1. replayCommand' \in {"verify-m4", "verify-m5"}
        BY <1>2, <2>2
      <3> QED
        BY <2>10, <3>1 DEF QueueKept
    <2>12. VerdictKept' /\ WordsKept'
      BY <1>1, <1>2, <2>2 DEF VerdictKept, ReplayInv, WordsKept
    <2> QED
      BY <1>5, <2>8, <2>11, <2>12 DEF ReplayInv
  <1> QED
    BY <1>6, <1>7

LEMMA SummarizeKept ==
    ASSUME ReplayInv, NEW form \in Forms, Summarize(form) PROVE ReplayInv'
  <1>1. /\ replayCommand = VerifyCommand(form) /\ queue = <<>>
        /\ UNCHANGED <<stream, summaryPlace, reports, replayCommands>>
        /\ replayCommand' = "none" /\ queue' = <<>> /\ replayVerdict' \in {"success", "failure"}
    BY DEF Summarize, Return
  <1>2. replayCommand \in {"verify-m4", "verify-m5"}
    BY <1>1 DEF VerifyCommand, Forms
  <1>3. Unverified(queue) /\ ReportsKept /\ Directory(corpus)
    BY <1>2 DEF ReplayInv, QueueKept
  <1>4. SummaryName \in Nat
    BY ReplayConstants
  <1>5. Directory(corpus)'
    <2>1. \/ corpus' = corpus \/ WriteFile(SummaryName, SummaryFile) \/ WriteFails(SummaryName)
      BY DEF Summarize
    <2>2. CASE corpus' = corpus
      BY <1>3, <2>2
    <2>3. CASE WriteFile(SummaryName, SummaryFile)
      BY <1>3, <1>4, <2>3, SummaryTyped, WriteFileKept
    <2>4. CASE WriteFails(SummaryName)
      BY <1>3, <1>4, <2>4, WriteFailsKept
    <2> QED
      BY <2>1, <2>2, <2>3, <2>4
  <1>6. ReportsKept' /\ StreamKept' /\ Named(reports)' = Named(reports)
    BY <1>1, <1>3 DEF ReplayInv, ReportsKept, StreamKept, Named
  <1>7. QueueKept'
    BY <1>1 DEF QueueKept
  <1>8. VerdictKept'
    <2> SUFFICES ASSUME replayVerdict' = "success", reports # <<>>
                 PROVE  /\ DOMAIN corpus' \ {SummaryName} \subseteq Named(reports)
                        /\ \A i \in DOMAIN reports : reports[i].passed
      BY <1>1, <1>6 DEF VerdictKept
    <2>1. /\ SummaryPasses(reports)
          /\ corpus' = corpus \/ WriteFile(SummaryName, SummaryFile)
      BY DEF Summarize, Return
    <2>2. DOMAIN corpus' \subseteq DOMAIN corpus \cup {SummaryName}
      BY <1>3, <1>4, <2>1, SummaryTyped, WriteFileKept
    <2>3. DOMAIN corpus \subseteq Named(reports)
      BY <1>1, <1>3 DEF Unverified, Range
    <2> QED
      BY <2>1, <2>2, <2>3 DEF SummaryPasses
  <1>9. WordsKept'
    BY <1>1 DEF ReplayInv, WordsKept
  <1> QED
    BY <1>5, <1>6, <1>7, <1>8, <1>9 DEF ReplayInv

LEMMA ReplayStutterKept ==
    ASSUME ReplayInv, UNCHANGED replayVars PROVE ReplayInv'
  <1>1. /\ corpus' = corpus /\ stream' = stream /\ replayCommand' = replayCommand
        /\ queue' = queue /\ summaryPlace' = summaryPlace /\ reports' = reports
        /\ replayVerdict' = replayVerdict /\ replayCommands' = replayCommands
    BY DEF replayVars
  <1>2. (Directory(corpus) /\ ReportsKept /\ VerdictKept /\ StreamKept /\ WordsKept)'
    BY <1>1 DEF ReplayInv, ReportsKept, VerdictKept, StreamKept, WordsKept, Named
  <1>3. QueueKept'
    BY <1>1 DEF ReplayInv, QueueKept, Unverified, Named
  <1> QED
    BY <1>2, <1>3 DEF ReplayInv

LEMMA ReplayStepKept ==
    ReplayInv /\ [PublicNext]_replayVars => ReplayInv'
  <1> SUFFICES ASSUME ReplayInv, [PublicNext]_replayVars PROVE ReplayInv'
    OBVIOUS
  <1>1. CASE PublicNext
    BY <1>1, ExportBeginsKept, ExportStreamKept, GenerateKept, WriteDerivativeKept,
       DerivativesWrittenKept, VerifyKept, VerifyFixtureKept, SummarizeKept DEF PublicNext
  <1> QED
    BY <1>1, ReplayStutterKept

LEMMA ReplayInvariant ==
    PublicSpec => []ReplayInv
  <1> QED
    BY ReplayInitKept, ReplayStepKept, PTL DEF PublicSpec

(* In every run, the commands, the directory and the public stream are     *)
(* what they should be, and no fixture is reported twice.                  *)
THEOREM ReplayTyped ==
    PublicSpec => []ReplayTypeOK
  <1> QED
    BY ReplayInvariant, InvGivesReplayType, PTL

(* For every corpus, limit and padding: a replay writes the bytes its      *)
(* fixture was accepted for, generated lines included, and no more than    *)
(* the budget.                                                             *)
THEOREM BudgetSpent ==
    PublicSpec => []BudgetIsSpent
  <1> QED
    BY ReplayInvariant, InvGivesBudget, PTL

(* Through any resizes and any output of whole lines, no more rows are     *)
(* reported as discarded than left the terminal.                           *)
THEOREM DiscardsReal ==
    PublicSpec => []DiscardsAreReal
  <1> QED
    BY ReplayInvariant, InvGivesDiscards, PTL

(* A verification that succeeds has looked at each file of the directory,  *)
(* however many there are, and each kept to its policy.                    *)
THEOREM SummaryWhole ==
    PublicSpec => []SummaryIsWhole
  <1> QED
    BY ReplayInvariant, InvGivesSummary, PTL

-----------------------------------------------------------------------------
(* The performance evidence.                                               *)

LEMMA PerformanceConstants ==
    /\ Times \subseteq Nat /\ Scenarios \subseteq Nat /\ TimeoutEvery \in Nat \ {0}
    /\ ProfileRows \in Nat \ {0} /\ ProfileBudget \in Nat /\ MaxCommands \in Nat
    /\ \A list \in ThresholdFiles : ThresholdsTyped(list)
  BY PerformanceAssumption

(* What statuses add up to.                                                *)
LEMMA RollupParts ==
    ASSUME NEW statuses \in SUBSET PerformanceStatuses
    PROVE  /\ RollupStatus(statuses) \in PerformanceStatuses
           /\ statuses = {} => RollupStatus(statuses) = "fail"
           /\ RollupStatus(statuses) = "pass" =>
                statuses \subseteq {"pass", "unstable_excluded"} /\ "pass" \in statuses
  <1> DEFINE s == RollupStatus(statuses)
  <1>0. s = RollupStatus(statuses)
    OBVIOUS
  <1> HIDE DEF s
  <1>1. CASE statuses = {} \/ "fail" \in statuses
    <2>1. s = "fail"
      BY <1>0, <1>1 DEF RollupStatus, Gaps
    <2> QED
      BY <1>0, <2>1 DEF PerformanceStatuses
  <1>2. CASE statuses # {} /\ "fail" \notin statuses /\ statuses \cap Gaps # {}
    <2>1. s = "partial"
      BY <1>0, <1>2 DEF RollupStatus, Gaps
    <2> QED
      BY <1>0, <1>2, <2>1 DEF PerformanceStatuses, Gaps
  <1>3. CASE /\ statuses # {} /\ "fail" \notin statuses /\ statuses \cap Gaps = {}
             /\ "baseline_created" \in statuses
    <2>1. s = "baseline_created"
      BY <1>0, <1>3 DEF RollupStatus, Gaps
    <2> QED
      BY <1>0, <1>3, <2>1 DEF PerformanceStatuses
  <1>4. CASE /\ statuses # {} /\ "fail" \notin statuses /\ statuses \cap Gaps = {}
             /\ "baseline_created" \notin statuses
    <2>1. statuses \subseteq {"pass", "unstable_excluded"}
      BY <1>4 DEF PerformanceStatuses
    <2>2. CASE "pass" \in statuses
      <3>1. s = "pass"
        BY <1>0, <1>4, <2>1, <2>2 DEF RollupStatus, Gaps
      <3> QED
        BY <1>0, <1>4, <2>1, <2>2, <3>1 DEF PerformanceStatuses
    <2>3. CASE "pass" \notin statuses
      <3>1. statuses = {"unstable_excluded"}
        BY <1>4, <2>1, <2>3
      <3>2. s = "unstable_excluded"
        BY <1>0, <3>1 DEF RollupStatus, Gaps
      <3> QED
        BY <1>0, <1>4, <3>2 DEF PerformanceStatuses
    <2> QED
      BY <2>2, <2>3
  <1> QED
    BY <1>1, <1>2, <1>3, <1>4

(* The first threshold that names a metric is one of the list.             *)
LEMMA FirstThreshold ==
    ASSUME NEW list \in ThresholdFiles, NEW metric
    PROVE  \/ ThresholdFor(list, metric) = 0
           \/ /\ ThresholdFor(list, metric) # 0
              /\ \A field \in {"nanos", "bytes"} :
                   /\ list[ThresholdFor(list, metric)][field] \subseteq Nat
                   /\ \A max, other \in list[ThresholdFor(list, metric)][field] : max = other
              /\ list[ThresholdFor(list, metric)].unstable \in BOOLEAN
              /\ list[ThresholdFor(list, metric)].hardGate \in BOOLEAN
  <1> DEFINE I == {i \in 1..Len(list) : list[i].metric = metric}
             found == ThresholdFor(list, metric)
  <1>1. /\ list \in Seq(Range(list)) /\ DOMAIN list = 1..Len(list)
        /\ \A threshold \in Range(list) :
             /\ threshold.unstable \in BOOLEAN /\ threshold.hardGate \in BOOLEAN
             /\ \A field \in {"nanos", "bytes"} :
                  /\ threshold[field] \subseteq Nat
                  /\ \A max, other \in threshold[field] : max = other
    BY PerformanceConstants DEF ThresholdsTyped
  <1>2. found = IF I # {} THEN Min(I) ELSE 0
    BY DEF ThresholdFor, SelectInSeq
  <1>3. CASE I = {}
    BY <1>2, <1>3
  <1>4. CASE I # {}
    <2>1. I \subseteq Nat /\ I \subseteq DOMAIN list /\ 0 \notin I
      BY <1>1
    <2>2. \E x \in I : \A y \in I : x <= y
      BY <1>4, <2>1, LeastElement
    <2>3. Min(I) \in I
      BY <2>2 DEF Min
    <2>4. found \in DOMAIN list /\ found # 0
      BY <1>2, <1>4, <2>1, <2>3
    <2> HIDE DEF found, I
    <2>5. list[found] \in Range(list)
      BY <2>4 DEF Range
    <2> QED
      BY <1>1, <2>4, <2>5 DEF found
  <1> QED
    BY <1>3, <1>4

LEMMA ComparePasses ==
    ASSUME NEW observed \in Nat, NEW max \in Nat, NEW hardGate \in BOOLEAN
    PROVE  /\ Compare(observed, max, hardGate) \in PerformanceStatuses
           /\ Compare(observed, max, hardGate) = "pass" => observed <= max
           /\ Compare(observed, max, hardGate) # "unstable_excluded"
  <1>1. CASE observed <= max
    <2>1. ~(observed > max)
      BY <1>1
    <2>2. Compare(observed, max, hardGate) = "pass"
      BY <1>1, <2>1 DEF Compare
    <2> QED
      BY <1>1, <2>2 DEF PerformanceStatuses
  <1>2. CASE ~(observed <= max)
    <2>1. observed > max
      BY <1>2
    <2>2. Compare(observed, max, hardGate) \in {"fail", "partial"}
      BY <1>2, <2>1 DEF Compare
    <2> QED
      BY <2>2 DEF PerformanceStatuses, Gaps
  <1> QED
    BY <1>1, <1>2

(* The maximum that is compared is the only one stated.                    *)
LEMMA StatedMaximum ==
    ASSUME NEW list \in ThresholdFiles, NEW metric, NEW field \in {"nanos", "bytes"},
           ThresholdFor(list, metric) # 0,
           list[ThresholdFor(list, metric)][field] # {}
    PROVE  /\ (CHOOSE max \in list[ThresholdFor(list, metric)][field] : TRUE) \in Nat
           /\ MaximaFor(list, metric, field)
                = {CHOOSE max \in list[ThresholdFor(list, metric)][field] : TRUE}
  <1> DEFINE maxima == list[ThresholdFor(list, metric)][field]
             one == CHOOSE max \in maxima : TRUE
  <1>1. maxima \subseteq Nat /\ \A max, other \in maxima : max = other
    BY FirstThreshold
  <1>2. one \in maxima
    OBVIOUS
  <1>3. MaximaFor(list, metric, field) = maxima
    BY DEF MaximaFor
  <1> HIDE DEF maxima, one
  <1>4. one \in Nat /\ maxima = {one}
    BY <1>1, <1>2
  <1> QED
    BY <1>3, <1>4 DEF one, maxima

LEMMA NanosEvaluated ==
    ASSUME NEW list \in ThresholdFiles, NEW id, NEW result,
           result.nanos \in Nat, result.status \in {"baseline_created", "fail"}
    PROVE  /\ EvaluateNanos(list, id, result) \in PerformanceStatuses
           /\ EvaluateNanos(list, id, result) \in {"pass", "unstable_excluded"} =>
                /\ result.status = "baseline_created"
                /\ Allows(list, id, result.nanos, "nanos") \/ Excludes(list, id)
           /\ EvaluateNanos(list, id, result) = "pass" => MaximaFor(list, id, "nanos") # {}
  <1> DEFINE found == ThresholdFor(list, id)
             e == EvaluateNanos(list, id, result)
  <1>1. CASE result.status \in Carried
    <2>1. e = result.status
      BY <1>1 DEF EvaluateNanos
    <2> QED
      BY <2>1, <1>1 DEF PerformanceStatuses, Carried, Gaps
  <1>2. CASE result.status \notin Carried /\ found = 0
    <2>1. e = "baseline_created"
      BY <1>2 DEF EvaluateNanos
    <2> QED
      BY <2>1 DEF PerformanceStatuses
  <1>3. CASE result.status \notin Carried /\ found # 0
    <2>1. e = IF list[found].unstable THEN "unstable_excluded"
              ELSE IF list[found].nanos = {} THEN "baseline_created"
              ELSE Compare(result.nanos, CHOOSE max \in list[found].nanos : TRUE, list[found].hardGate)
      BY <1>3 DEF EvaluateNanos
    <2>2. result.status = "baseline_created"
      BY <1>3 DEF Carried
    <2>3. CASE list[found].unstable
      <3>1. e = "unstable_excluded" /\ Excludes(list, id)
        BY <1>3, <2>1, <2>3 DEF Excludes
      <3> QED
        BY <2>2, <3>1 DEF PerformanceStatuses
    <2>4. CASE ~list[found].unstable /\ list[found].nanos = {}
      <3>1. e = "baseline_created"
        BY <2>1, <2>4
      <3> QED
        BY <3>1 DEF PerformanceStatuses
    <2>5. CASE ~list[found].unstable /\ list[found].nanos # {}
      <3> DEFINE max == CHOOSE m \in list[found].nanos : TRUE
      <3>1. e = Compare(result.nanos, max, list[found].hardGate)
        BY <2>1, <2>5
      <3>2. max \in Nat /\ MaximaFor(list, id, "nanos") = {max}
        <4>1. list[found]["nanos"] # {}
          BY <2>5
        <4> QED
          BY <1>3, <4>1, StatedMaximum
      <3>3. list[found].hardGate \in BOOLEAN
        BY <1>3, FirstThreshold
      <3> HIDE DEF max, e
      <3>4. /\ e \in PerformanceStatuses /\ e # "unstable_excluded"
            /\ e = "pass" => result.nanos <= max
        BY <3>1, <3>2, <3>3, ComparePasses
      <3>5. e = "pass" => Allows(list, id, result.nanos, "nanos")
        BY <1>3, <3>2, <3>4 DEF Allows
      <3> QED
        BY <2>2, <3>2, <3>4, <3>5 DEF e
    <2> QED
      BY <2>3, <2>4, <2>5
  <1> QED
    BY <1>1, <1>2, <1>3

LEMMA BytesEvaluated ==
    ASSUME NEW list \in ThresholdFiles, NEW id, NEW result,
           result.bytes \in Nat, result.status \in {"pass", "fail", "blocked"}
    PROVE  /\ EvaluateBytes(list, id, result) \in PerformanceStatuses \ {"unstable_excluded"}
           /\ EvaluateBytes(list, id, result) = "pass" =>
                /\ result.status = "pass"
                /\ Allows(list, id, result.bytes, "bytes")
                /\ MaximaFor(list, id, "bytes") # {}
  <1> DEFINE found == ThresholdFor(list, id)
             e == EvaluateBytes(list, id, result)
  <1>1. CASE result.status \in Carried
    <2>1. e = result.status
      BY <1>1 DEF EvaluateBytes
    <2> QED
      BY <2>1, <1>1 DEF PerformanceStatuses, Carried, Gaps
  <1>2. CASE result.status \notin Carried /\ (found = 0 \/ list[found].bytes = {})
    <2>1. e = "baseline_created"
      BY <1>2 DEF EvaluateBytes
    <2> QED
      BY <2>1 DEF PerformanceStatuses
  <1>3. CASE result.status \notin Carried /\ found # 0 /\ list[found].bytes # {}
    <2> DEFINE max == CHOOSE m \in list[found].bytes : TRUE
    <2>1. e = Compare(result.bytes, max, list[found].hardGate)
      BY <1>3 DEF EvaluateBytes
    <2>2. result.status = "pass"
      BY <1>3 DEF Carried, Gaps
    <2>3. max \in Nat /\ MaximaFor(list, id, "bytes") = {max}
      <3>1. list[found]["bytes"] # {}
        BY <1>3
      <3> QED
        BY <1>3, <3>1, StatedMaximum
    <2>4. list[found].hardGate \in BOOLEAN
      BY <1>3, FirstThreshold
    <2> HIDE DEF max, e
    <2>5. /\ e \in PerformanceStatuses /\ e # "unstable_excluded"
          /\ e = "pass" => result.bytes <= max
      BY <2>1, <2>3, <2>4, ComparePasses
    <2>6. e = "pass" => Allows(list, id, result.bytes, "bytes")
      BY <1>3, <2>3, <2>5 DEF Allows
    <2> QED
      BY <2>2, <2>3, <2>5, <2>6 DEF e
  <1> QED
    BY <1>1, <1>2, <1>3

-----------------------------------------------------------------------------
(* What was measured.                                                      *)

LEMMA BenchmarkResults ==
    ASSUME NEW results \in BenchmarkRuns
    PROVE  /\ results = <<>> \/ DOMAIN results = Operations
           /\ \A id \in DOMAIN results :
                results[id].nanos \in Nat /\ results[id].status \in {"baseline_created", "fail"}
           /\ StatusesOf(results) \subseteq PerformanceStatuses
           /\ results = <<>> => StatusesOf(results) = {}
  <1>0. DOMAIN <<>> = {}
    OBVIOUS
  <1>1. results = <<>> \/ results \in [Operations -> {Measurement(ok, nanos) : ok \in BOOLEAN, nanos \in Times}]
    BY DEF BenchmarkRuns
  <1>2. ASSUME NEW id \in DOMAIN results
        PROVE  results[id].nanos \in Nat /\ results[id].status \in {"baseline_created", "fail"}
    <2>1. PICK ok \in BOOLEAN, nanos \in Times : results[id] = Measurement(ok, nanos)
      BY <1>0, <1>1
    <2>2. nanos \in Nat
      BY PerformanceConstants
    <2> QED
      BY <2>1, <2>2 DEF Measurement
  <1>3. StatusesOf(results) \subseteq PerformanceStatuses
    BY <1>2 DEF StatusesOf, PerformanceStatuses
  <1>4. results = <<>> => StatusesOf(results) = {}
    BY <1>0 DEF StatusesOf
  <1> QED
    BY <1>1, <1>2, <1>3, <1>4

LEMMA ScenarioParts ==
    ASSUME NEW lines, NEW processed \in Nat, NEW blocked \in BOOLEAN
    PROVE  /\ Scenario(lines, processed, blocked).bytes \in Nat
           /\ Scenario(lines, processed, blocked).processed = processed
           /\ Scenario(lines, processed, blocked).status \in {"pass", "fail", "blocked"}
  <1> DEFINE t == Feed(Rows(ProfileRows, ProfileBudget), processed)
             s == Scenario(lines, processed, blocked)
  <1>1. Rows(ProfileRows, ProfileBudget) \in RowCounts
    BY PerformanceConstants, RowCount DEF Rows
  <1>2. t.history \in Nat
    BY <1>1, FeedHolds DEF RowCounts
  <1>3. s = [processed |-> processed, bytes |-> t.history,
             status |-> CASE blocked -> "blocked"
                          [] ~blocked /\ t.history > ProfileBudget -> "fail"
                          [] OTHER -> "pass"]
    BY DEF Scenario
  <1> HIDE DEF t, s
  <1>4. s.processed = processed /\ s.bytes = t.history
    BY <1>3
  <1>5. CASE blocked
    <2>1. s.status = "blocked"
      BY <1>3, <1>5
    <2> QED
      BY <1>2, <1>4, <2>1 DEF s
  <1>6. CASE ~blocked
    <2>1. s.status \in {"fail", "pass"}
      BY <1>3, <1>6
    <2> QED
      BY <1>2, <1>4, <1>6, <2>1 DEF s
  <1> QED
    BY <1>5, <1>6

LEMMA ProfileResults ==
    ASSUME NEW results \in ProfileRuns
    PROVE  /\ DOMAIN results = Scenarios
           /\ \A id \in Scenarios :
                /\ results[id].bytes \in Nat /\ results[id].status \in {"pass", "fail", "blocked"}
                /\ results[id].status = "pass" => results[id].processed = id
           /\ StatusesOf(results) \subseteq PerformanceStatuses
           /\ results = <<>> => StatusesOf(results) = {}
  <1>1. DOMAIN results = Scenarios /\ \A id \in Scenarios : results[id] \in ScenarioRuns(id)
    BY DEF ProfileRuns
  <1>2. ASSUME NEW id \in Scenarios
        PROVE  /\ results[id].bytes \in Nat /\ results[id].status \in {"pass", "fail", "blocked"}
               /\ results[id].status = "pass" => results[id].processed = id
    <2>0. id \in Nat
      BY PerformanceConstants
    <2>1. CASE results[id] = Scenario(id, id, FALSE)
      <3> DEFINE no == FALSE
      <3>1. no \in BOOLEAN /\ results[id] = Scenario(id, id, no)
        BY <2>1
      <3> HIDE DEF no
      <3> QED
        BY <2>0, <3>1, ScenarioParts
    <2>2. CASE results[id] # Scenario(id, id, FALSE)
      <3> DEFINE yes == TRUE
      <3>1. PICK n \in StopsAt(id) : results[id] = Scenario(id, n, yes)
        BY <1>1, <2>2 DEF ScenarioRuns
      <3>2. n \in Nat
        BY <2>0 DEF StopsAt
      <3>3. yes \in BOOLEAN /\ Scenario(id, n, yes).status = "blocked"
        BY DEF Scenario
      <3> HIDE DEF yes
      <3>4. results[id].bytes \in Nat /\ results[id].status = "blocked"
        BY <3>1, <3>2, <3>3, ScenarioParts
      <3> QED
        BY <3>4
    <2> QED
      BY <2>1, <2>2
  <1>3. StatusesOf(results) \subseteq PerformanceStatuses
    BY <1>1, <1>2 DEF StatusesOf, PerformanceStatuses, Gaps
  <1>4. results = <<>> => StatusesOf(results) = {}
    <2>1. DOMAIN <<>> = {}
      OBVIOUS
    <2> QED
      BY <2>1 DEF StatusesOf
  <1> QED
    BY <1>1, <1>2, <1>3, <1>4

GoodBenchmark(b) ==
    b.results \in BenchmarkRuns /\ b.status = RollupStatus(StatusesOf(b.results))
GoodProfile(p) ==
    p.results \in ProfileRuns /\ p.status = RollupStatus(StatusesOf(p.results))

MeasuredPass(list, bench, memory) ==
    LET nanos == bench.results
        bytes == memory.results
    IN  /\ DOMAIN nanos = Operations /\ DOMAIN bytes = Scenarios
        /\ \A id \in Operations :
             /\ nanos[id].status = "baseline_created"
             /\ Allows(list, id, nanos[id].nanos, "nanos") \/ Excludes(list, id)
        /\ \A id \in Scenarios :
             /\ bytes[id].processed = id /\ bytes[id].status = "pass"
             /\ Allows(list, id, bytes[id].bytes, "bytes")
        /\ \/ \E id \in Operations : MaximaFor(list, id, "nanos") # {}
           \/ \E id \in Scenarios : MaximaFor(list, id, "bytes") # {}

LEMMA PassMeasured ==
    ASSUME NEW list \in ThresholdFiles, NEW bench, NEW memory,
           GoodBenchmark(bench), GoodProfile(memory)
    PROVE  /\ ReportOn(list, bench, memory).status \in PerformanceStatuses
           /\ ReportOn(list, bench, memory).status = "pass" => MeasuredPass(list, bench, memory)
  <1> DEFINE nanos == bench.results
             bytes == memory.results
             all == Evaluations(list, bench, memory)
             N(id) == EvaluateNanos(list, id, nanos[id])
             B(id) == EvaluateBytes(list, id, bytes[id])
  <1>1. nanos \in BenchmarkRuns /\ bytes \in ProfileRuns
    BY DEF GoodBenchmark, GoodProfile
  <1>2. /\ nanos = <<>> \/ DOMAIN nanos = Operations
        /\ \A id \in DOMAIN nanos :
             nanos[id].nanos \in Nat /\ nanos[id].status \in {"baseline_created", "fail"}
    BY <1>1, BenchmarkResults
  <1>3. /\ DOMAIN bytes = Scenarios
        /\ \A id \in Scenarios :
             /\ bytes[id].bytes \in Nat /\ bytes[id].status \in {"pass", "fail", "blocked"}
             /\ bytes[id].status = "pass" => bytes[id].processed = id
    BY <1>1, ProfileResults
  <1>4. /\ bench.status \in PerformanceStatuses
        /\ nanos = <<>> => bench.status = "fail"
    BY <1>1, BenchmarkResults, RollupParts DEF GoodBenchmark
  <1>5. /\ memory.status \in PerformanceStatuses
        /\ bytes = <<>> => memory.status = "fail"
    BY <1>1, ProfileResults, RollupParts DEF GoodProfile
  <1>6. all = {N(id) : id \in DOMAIN nanos} \cup SourceStatus(bench)
                \cup {B(id) : id \in DOMAIN bytes} \cup SourceStatus(memory)
    BY DEF Evaluations
  <1>7. SourceStatus(bench) \subseteq {"fail"} /\ SourceStatus(memory) \subseteq {"fail"}
    BY <1>4, <1>5 DEF SourceStatus
  <1>8. nanos = <<>> => "fail" \in all
    BY <1>4, <1>6 DEF SourceStatus
  <1>9. ReportOn(list, bench, memory).status = RollupStatus(all)
    BY DEF ReportOn
  <1>10. \A id \in DOMAIN nanos :
           /\ N(id) \in PerformanceStatuses
           /\ N(id) \in {"pass", "unstable_excluded"} =>
                /\ nanos[id].status = "baseline_created"
                /\ Allows(list, id, nanos[id].nanos, "nanos") \/ Excludes(list, id)
           /\ N(id) = "pass" => MaximaFor(list, id, "nanos") # {}
    BY <1>2, NanosEvaluated
  <1>11. \A id \in Scenarios :
           /\ B(id) \in PerformanceStatuses \ {"unstable_excluded"}
           /\ B(id) = "pass" =>
                /\ bytes[id].status = "pass"
                /\ Allows(list, id, bytes[id].bytes, "bytes")
                /\ MaximaFor(list, id, "bytes") # {}
    BY <1>3, BytesEvaluated
  <1> HIDE DEF N, B, all, nanos, bytes
  <1>12. all \subseteq PerformanceStatuses
    <2>1. "fail" \in PerformanceStatuses
      BY DEF PerformanceStatuses
    <2> QED
      BY <1>3, <1>6, <1>7, <1>10, <1>11, <2>1
  <1>13. /\ RollupStatus(all) \in PerformanceStatuses
         /\ RollupStatus(all) = "pass" =>
              all \subseteq {"pass", "unstable_excluded"} /\ "pass" \in all
    BY <1>12, RollupParts
  <1>14. ASSUME all \subseteq {"pass", "unstable_excluded"}, "pass" \in all
         PROVE  MeasuredPass(list, bench, memory)
    <2>1. DOMAIN nanos = Operations
      BY <1>2, <1>8, <1>14
    <2>2. ASSUME NEW id \in Operations
          PROVE  /\ nanos[id].status = "baseline_created"
                 /\ Allows(list, id, nanos[id].nanos, "nanos") \/ Excludes(list, id)
      BY <1>6, <1>10, <1>14, <2>1
    <2>3. ASSUME NEW id \in Scenarios
          PROVE  /\ bytes[id].processed = id /\ bytes[id].status = "pass"
                 /\ Allows(list, id, bytes[id].bytes, "bytes")
      <3>1. B(id) \in all
        BY <1>3, <1>6
      <3>2. B(id) = "pass"
        BY <1>11, <1>14, <3>1
      <3> QED
        BY <1>3, <1>11, <3>2
    <2>4. \/ \E id \in Operations : MaximaFor(list, id, "nanos") # {}
          \/ \E id \in Scenarios : MaximaFor(list, id, "bytes") # {}
      <3>1. "pass" \notin SourceStatus(bench) /\ "pass" \notin SourceStatus(memory)
        BY <1>7
      <3>2. (\E id \in DOMAIN nanos : N(id) = "pass") \/ (\E id \in DOMAIN bytes : B(id) = "pass")
        BY <1>6, <1>14, <3>1
      <3> QED
        BY <1>3, <1>10, <1>11, <2>1, <3>2
    <2> QED
      BY <1>3, <2>1, <2>2, <2>3, <2>4 DEF MeasuredPass, nanos, bytes
  <1> QED
    BY <1>9, <1>13, <1>14

-----------------------------------------------------------------------------
(* The commands, the files and the report.                                 *)

GoodReportFile(file) ==
    /\ file.kind \in {"nothing", "broken", "report"}
    /\ file.kind = "report" =>
         /\ file.status \in PerformanceStatuses
         /\ file.status = "pass" => MeasuredPass(file.thresholds, file.benchmark, file.profile)

BenchmarkKept ==
    /\ benchmark.kind \in {"nothing", "broken", "benchmark"}
    /\ benchmark.kind = "benchmark" => GoodBenchmark(benchmark)
ProfileKept ==
    /\ profile.kind \in {"nothing", "broken", "profile"}
    /\ profile.kind = "profile" => GoodProfile(profile)

PerformanceInv ==
    /\ commit \in 1..2 /\ thresholds \in ThresholdFiles
    /\ exitCode \in {"none", "0", "1"} /\ commands \in 0..MaxCommands
    /\ BenchmarkKept /\ ProfileKept
    /\ GoodReportFile(report) /\ GoodReportFile(markdown)

LEMMA UnwrittenFiles ==
    /\ NothingWritten.kind = "nothing" /\ BrokenFile.kind = "broken"
    /\ GoodReportFile(NothingWritten) /\ GoodReportFile(BrokenFile)
  BY DEF NothingWritten, BrokenFile, GoodReportFile

LEMMA InvGivesPerformanceType ==
    PerformanceInv => PerformanceTypeOK
  <1> SUFFICES ASSUME PerformanceInv PROVE PerformanceTypeOK
    OBVIOUS
  <1>1. benchmark.kind = "benchmark" => benchmark.status \in PerformanceStatuses
    BY BenchmarkResults, RollupParts DEF PerformanceInv, BenchmarkKept, GoodBenchmark
  <1>2. profile.kind = "profile" => profile.status \in PerformanceStatuses
    BY ProfileResults, RollupParts DEF PerformanceInv, ProfileKept, GoodProfile
  <1> QED
    BY <1>1, <1>2 DEF PerformanceInv, PerformanceTypeOK, BenchmarkKept, ProfileKept, GoodReportFile

LEMMA InvGivesMeasured ==
    PerformanceInv => PassIsMeasured
  BY DEF PerformanceInv, GoodReportFile, PassIsMeasured, MeasuredPass

LEMMA PerformanceInitKept ==
    PerformanceInit => PerformanceInv
  <1>1. 0 \in 0..MaxCommands
    BY PerformanceConstants
  <1> QED
    BY <1>1, UnwrittenFiles DEF PerformanceInit, PerformanceInv, BenchmarkKept, ProfileKept

LEMMA CommandRun ==
    ASSUME PerformanceInv, RunCommand
    PROVE  commands' \in 0..MaxCommands
  BY PerformanceConstants DEF PerformanceInv, RunCommand

LEMMA CodeOfStatus ==
    ASSUME NEW status PROVE CodeOf(status) \in {"none", "0", "1"}
  BY DEF CodeOf

LEMMA BenchmarkStep ==
    ASSUME PerformanceInv, Benchmark PROVE PerformanceInv'
  <1>1. PICK results \in BenchmarkRuns :
          \/ /\ benchmark' = Evidence("benchmark", results)
             /\ exitCode' = CodeOf(Evidence("benchmark", results).status)
          \/ benchmark' \in NotWritten(benchmark) /\ exitCode' = "1"
    BY DEF Benchmark
  <1>2. commands' \in 0..MaxCommands /\ UNCHANGED <<commit, thresholds, profile, report, markdown>>
    BY CommandRun DEF Benchmark
  <1>3. /\ Evidence("benchmark", results).kind = "benchmark"
        /\ GoodBenchmark(Evidence("benchmark", results))
    BY DEF Evidence, GoodBenchmark
  <1>4. exitCode' \in {"none", "0", "1"}
    BY <1>1, CodeOfStatus
  <1>5. BenchmarkKept'
    BY <1>1, <1>3, UnwrittenFiles DEF NotWritten, PerformanceInv, BenchmarkKept
  <1> QED
    BY <1>2, <1>4, <1>5 DEF PerformanceInv, ProfileKept

LEMMA ProfileStep ==
    ASSUME PerformanceInv, MemoryProfile PROVE PerformanceInv'
  <1>1. PICK results \in ProfileRuns :
          \/ /\ profile' = Evidence("profile", results)
             /\ exitCode' = CodeOf(Evidence("profile", results).status)
          \/ profile' \in NotWritten(profile) /\ exitCode' = "1"
    BY DEF MemoryProfile
  <1>2. commands' \in 0..MaxCommands /\ UNCHANGED <<commit, thresholds, benchmark, report, markdown>>
    BY CommandRun DEF MemoryProfile
  <1>3. Evidence("profile", results).kind = "profile" /\ GoodProfile(Evidence("profile", results))
    BY DEF Evidence, GoodProfile
  <1>4. exitCode' \in {"none", "0", "1"}
    BY <1>1, CodeOfStatus
  <1>5. ProfileKept'
    BY <1>1, <1>3, UnwrittenFiles DEF NotWritten, PerformanceInv, ProfileKept
  <1> QED
    BY <1>2, <1>4, <1>5 DEF PerformanceInv, BenchmarkKept

LEMMA ReportStep ==
    ASSUME PerformanceInv, PerformanceReportCommand PROVE PerformanceInv'
  <1> DEFINE made == ReportOn(thresholds, benchmark, profile)
  <1>1. commands' \in 0..MaxCommands /\ UNCHANGED <<commit, thresholds, benchmark, profile>>
    BY CommandRun DEF PerformanceReportCommand
  <1>2. BothReadable => GoodReportFile(made)
    <2> SUFFICES ASSUME BothReadable PROVE GoodReportFile(made)
      OBVIOUS
    <2>1. GoodBenchmark(benchmark) /\ GoodProfile(profile) /\ thresholds \in ThresholdFiles
      BY DEF PerformanceInv, BenchmarkKept, ProfileKept, BothReadable
    <2>2. /\ made.status \in PerformanceStatuses
          /\ made.status = "pass" => MeasuredPass(thresholds, benchmark, profile)
      BY <2>1, PassMeasured
    <2>3. /\ made.kind = "report" /\ made.thresholds = thresholds
          /\ made.benchmark = benchmark /\ made.profile = profile
      BY DEF ReportOn
    <2> HIDE DEF made
    <2> QED
      BY <2>2, <2>3 DEF GoodReportFile
  <1>3. \/ ~BothReadable /\ exitCode' = "1" /\ UNCHANGED <<report, markdown>>
        \/ /\ BothReadable
           /\ \/ report' = made /\ markdown' = made /\ exitCode' = CodeOf(made.status)
              \/ report' = made /\ markdown' \in NotWritten(markdown) /\ exitCode' = "1"
              \/ report' \in NotWritten(report) /\ exitCode' = "1" /\ UNCHANGED markdown
    BY DEF PerformanceReportCommand
  <1> HIDE DEF made
  <1>4. exitCode' \in {"none", "0", "1"}
    BY <1>3, CodeOfStatus
  <1>5. GoodReportFile(report) /\ GoodReportFile(markdown)
    BY DEF PerformanceInv
  <1>6. GoodReportFile(report') /\ GoodReportFile(markdown')
    BY <1>2, <1>3, <1>5, UnwrittenFiles DEF NotWritten
  <1> QED
    BY <1>1, <1>4, <1>6 DEF PerformanceInv, BenchmarkKept, ProfileKept

LEMMA WorkGoesOnStep ==
    ASSUME PerformanceInv, WorkGoesOn PROVE PerformanceInv'
  BY DEF PerformanceInv, WorkGoesOn, BenchmarkKept, ProfileKept

LEMMA PerformanceStepKept ==
    PerformanceInv /\ [PerformanceNext]_performanceVars => PerformanceInv'
  <1> SUFFICES ASSUME PerformanceInv, [PerformanceNext]_performanceVars PROVE PerformanceInv'
    OBVIOUS
  <1>1. CASE PerformanceNext
    BY <1>1, BenchmarkStep, ProfileStep, ReportStep, WorkGoesOnStep DEF PerformanceNext
  <1>2. CASE UNCHANGED performanceVars
    BY <1>2 DEF performanceVars, PerformanceInv, BenchmarkKept, ProfileKept
  <1> QED
    BY <1>1, <1>2

LEMMA PerformanceInvariant ==
    PerformanceSpec => []PerformanceInv
  <1> QED
    BY PerformanceInitKept, PerformanceStepKept, PTL DEF PerformanceSpec

(* Whatever commands run, in whatever order and whichever of them fail, a  *)
(* file is absent, broken or of its own kind with a status.                *)
THEOREM PerformanceTyped ==
    PerformanceSpec => []PerformanceTypeOK
  <1> QED
    BY PerformanceInvariant, InvGivesPerformanceType, PTL

(* For any operations, scenarios and thresholds, and files of any age: a   *)
(* report that claims a pass rests on complete measurements within the     *)
(* thresholds it was made with.                                            *)
THEOREM PassMeasuredAlways ==
    PerformanceSpec => []PassIsMeasured
  <1> QED
    BY PerformanceInvariant, InvGivesMeasured, PTL


-----------------------------------------------------------------------------
(* HostEvidence: what the exit evidence is accepted for was counted from   *)
(* the documents the manifest names, for any number of panes, any metrics  *)
(* and any file the host rewrites meanwhile.                               *)

ExitCommand == "validate-m6-exit-evidence"

-----------------------------------------------------------------------------
(* Arithmetic of the roll-up.                                              *)

(* A saturating sum is zero only if both its terms are.                    *)
LEMMA AddIsZero ==
    ASSUME NEW a \in Nat, NEW b \in Nat
    PROVE  /\ Add(a, b) \in 0..MaxCount
           /\ Add(a, b) = 0 => a = 0 /\ b = 0
  BY HostAssumption DEF Add

(* The larger of two numbers is one of them and exceeds neither.           *)
LEMMA LargerIsBound ==
    ASSUME NEW a \in Int, NEW b \in Int
    PROVE  /\ Larger(a, b) \in {a, b}
           /\ a <= Larger(a, b) /\ b <= Larger(a, b)
  BY DEF Larger

-----------------------------------------------------------------------------
(* Type correctness.                                                       *)

(* FileOf is a file.                                                       *)
LEMMA FilesOfArtifacts ==
    ASSUME manifest \in Manifests, NEW i \in 1..Len(manifest.artifacts)
    PROVE  FileOf(i) \in Files
  <1> DEFINE Entry == [form : BOOLEAN, path : Paths, digest : Metrics, run : STRING, rev : Nat]
  <1>1. manifest.artifacts \in Seq(Entry) 
    BY HostDocumentsAssumption
  <1>2. manifest.artifacts[i] \in Entry
    <2> HIDE DEF Entry
    <2> QED
      BY <1>1
  <1>3. manifest.artifacts[i].path \in Paths
    BY <1>2
  <1> QED
    BY <1>3, HostAssumption DEF FileOf

(* One more document keeps the roll-up in its type.                        *)
LEMMA RollupTyped ==
    ASSUME HostTypeOK, NEW m \in Metrics
    PROVE  LET r == AddMetrics(rollup, m) IN
           /\ r.panes \in 0..MaxPanes /\ r.seconds \in Nat
           /\ \A field \in {"p0", "unsupported", "fallbacks", "dropped", "samples"} :
                r[field] \in 0..MaxCount
           /\ r.p95 \in Opt(Nat) /\ r.peak \in Opt(Nat)
  <1> DEFINE r == AddMetrics(rollup, m)
  <1>1. /\ m.seconds \in Nat /\ m.p0 \in Nat /\ m.unsupported \in Nat /\ m.fallbacks \in Nat
        /\ m.dropped \in Nat /\ m.samples \in Nat /\ m.p95 \in Opt(Nat) /\ m.peak \in Opt(Nat)
    BY HostDocumentsAssumption DEF Metric
  <1>2. /\ rollup.panes \in 0..MaxPanes /\ rollup.seconds \in Nat
        /\ rollup.p0 \in Nat /\ rollup.unsupported \in Nat /\ rollup.fallbacks \in Nat
        /\ rollup.dropped \in Nat /\ rollup.samples \in Nat
        /\ rollup.p95 \in Opt(Nat) /\ rollup.peak \in Opt(Nat)
    BY DEF HostTypeOK
  <1>3. r.panes \in 0..MaxPanes
    BY <1>2, HostAssumption DEF AddMetrics
  <1>4. r.seconds \in Nat /\ r.p95 \in Opt(Nat) /\ r.peak \in Opt(Nat)
    BY <1>1, <1>2 DEF AddMetrics, Larger, Opt, None
  <1>5. /\ r.p0 \in 0..MaxCount /\ r.unsupported \in 0..MaxCount /\ r.fallbacks \in 0..MaxCount
        /\ r.dropped \in 0..MaxCount /\ r.samples \in 0..MaxCount
    BY <1>1, <1>2, AddIsZero DEF AddMetrics
  <1> QED
    BY <1>3, <1>4, <1>5

(* Every variable keeps its type (HostTypeOK).                             *)
THEOREM HostTypeCorrect == HostSpec => []HostTypeOK
  <1>1. HostInit => HostTypeOK
    <2> SUFFICES ASSUME HostInit PROVE HostTypeOK
      OBVIOUS
    <2>1. manifest.artifacts \in Seq([form : BOOLEAN, path : Paths, digest : Metrics, run : STRING, rev : Nat])
      BY HostDocumentsAssumption DEF HostInit
    <2>2. disk \in [Files -> Metrics \cup {NoFile}]
      BY HostAssumption DEF HostInit
    <2> QED
      BY <2>1, <2>2, HostAssumption DEF HostInit, HostTypeOK, NoRollup, Opt
  <1>2. HostTypeOK /\ [HostNext]_hostVars => HostTypeOK'
    <2> SUFFICES ASSUME HostTypeOK, [HostNext]_hostVars PROVE HostTypeOK'
      OBVIOUS
    <2>0. Len(manifest.artifacts) \in Nat
      BY HostDocumentsAssumption DEF HostTypeOK
    <2>1. CASE ValidateHostEvidence
      BY <2>1 DEF ValidateHostEvidence, HostTypeOK, Documents, Accept, Proceed, FileOf
    <2>2. CASE ValidateExitEvidence
      BY <2>2 DEF ValidateExitEvidence, HostTypeOK, Documents, Accept, Proceed
    <2>3. CASE CheckArtifact
      BY <2>0, <2>3 DEF CheckArtifact, HostTypeOK, Documents, Accept, Proceed
    <2>4. CASE ArtifactsChecked
      BY <2>0, <2>4 DEF ArtifactsChecked, HostTypeOK, Documents, Proceed
    <2>5. CASE RollUpArtifact
      <3> DEFINE m == disk[FileOf(at)]
      <3>1. CASE m = NoFile
        BY <2>5, <3>1 DEF RollUpArtifact, HostTypeOK, Documents, Proceed
      <3>2. CASE m # NoFile
        <4>1. m \in Metrics
          BY <2>0, <2>5, <3>2, FilesOfArtifacts DEF RollUpArtifact, HostTypeOK
        <4>2. /\ rollup' = AddMetrics(rollup, m) /\ counted' = Append(counted, m)
              /\ at' = at + 1 /\ at <= Len(manifest.artifacts)
              /\ UNCHANGED <<command, stage, evidence, manifest, disk, touched>>
          BY <2>5, <3>2 DEF RollUpArtifact, Documents
        <4>3. counted' \in Seq(Metrics) /\ at' \in 1..Len(manifest.artifacts) + 1
          BY <2>0, <4>1, <4>2 DEF HostTypeOK
        <4> QED
          BY <4>1, <4>2, <4>3, RollupTyped DEF HostTypeOK
      <3> QED
        BY <3>1, <3>2
    <2>6. CASE CompareRollup
      BY <2>6 DEF CompareRollup, HostTypeOK, Documents, Accept, Proceed
    <2>7. CASE HostWrites
      BY <2>7 DEF HostWrites, HostTypeOK, Documents
    <2>8. CASE UNCHANGED hostVars
      BY <2>8 DEF hostVars, HostTypeOK
    <2> QED
      BY <2>1, <2>2, <2>3, <2>4, <2>5, <2>6, <2>7, <2>8 DEF HostNext
  <1> QED
    BY <1>1, <1>2, PTL DEF HostSpec

-----------------------------------------------------------------------------
(* Digests.                                                                *)

(* An artifact that was checked names a sound document of the run, and its *)
(* file still holds that unless the host rewrote it.                       *)
Checked(i) ==
    LET digest == manifest.artifacts[i].digest IN
    /\ digest.run = manifest.run /\ MetricsValid(digest)
    /\ FileOf(i) \in touched \/ disk[FileOf(i)] = digest

(* The artifacts before `at` are checked, all of them once they are rolled *)
(* up, and what was counted is of the artifacts up to `at`.                *)
ChecksHold ==
    /\ stage = "check" => \A i \in 1..at - 1 : Checked(i)
    /\ stage = "roll" => \A i \in 1..Len(manifest.artifacts) : Checked(i)
    /\ stage \in {"idle", "check"} => counted = <<>> /\ rollup = NoRollup
    /\ stage = "idle" => at = 1
    /\ stage = "roll" => Len(counted) = at - 1
    /\ command = "none" => stage = "idle"

DigestInv == ChecksHold /\ BoundToDigests

(* A checked artifact stays checked whatever the host writes.              *)
LEMMA ChecksSurvive ==
    ASSUME HostTypeOK, NEW i \in 1..Len(manifest.artifacts), Checked(i), HostWrites
    PROVE  Checked(i)'
  <1>1. FileOf(i) \in Files
    BY FilesOfArtifacts DEF HostTypeOK
  <1>2. PICK f \in Files, m \in Metrics \cup {NoFile} :
           disk' = [disk EXCEPT ![f] = m] /\ touched' = touched \cup {f}
    BY DEF HostWrites
  <1>3. FileOf(i)' = FileOf(i)
    BY DEF HostWrites, Documents, FileOf
  <1>4. CASE FileOf(i) = f
    BY <1>2, <1>3, <1>4 DEF Checked, HostWrites, Documents
  <1>5. CASE FileOf(i) # f
    BY <1>1, <1>2, <1>3, <1>5 DEF Checked, HostWrites, Documents, HostTypeOK
  <1> QED
    BY <1>4, <1>5

(* Every step keeps the digests bound to what was counted.                 *)
LEMMA DigestStep ==
    ASSUME HostTypeOK, DigestInv, [HostNext]_hostVars
    PROVE  DigestInv'
  <1>0. /\ Len(manifest.artifacts) \in Nat /\ at \in Nat /\ counted \in Seq(Metrics)
        /\ at <= Len(manifest.artifacts) + 1
    BY HostDocumentsAssumption DEF HostTypeOK
  <1>1. CASE ValidateHostEvidence \/ ValidateExitEvidence
    BY <1>1 DEF ValidateHostEvidence, ValidateExitEvidence, Documents, Accept, Proceed,
                DigestInv, ChecksHold, BoundToDigests
  <1>2. CASE CheckArtifact
    <2>1. stage = "check" /\ stage' \in {"check", "rejected"} /\ at' = at + 1
          /\ (stage' = "check" => ArtifactValid(at))
          /\ UNCHANGED <<command, evidence, manifest, disk, touched, rollup, counted>>
      BY <1>2 DEF CheckArtifact, Documents, Accept, Proceed
    <2>2. stage' = "check" => Checked(at)
      BY <2>1 DEF ArtifactValid, Checked
    <2>3. ASSUME NEW i \in 1..at, stage' = "check" PROVE Checked(i)'
      <3>1. Checked(i)
        BY <1>0, <2>1, <2>2, <2>3 DEF DigestInv, ChecksHold
      <3> QED
        BY <2>1, <3>1 DEF Checked, FileOf
    <2>4. ChecksHold'
      BY <1>0, <2>1, <2>3 DEF DigestInv, ChecksHold
    <2> QED
      BY <2>1, <2>4 DEF DigestInv, BoundToDigests, FileOf
  <1>3. CASE ArtifactsChecked
    <2>1. /\ stage = "check" /\ stage' \in {"accepted", "roll"}
          /\ at > Len(manifest.artifacts) /\ at' = 1
          /\ UNCHANGED <<command, evidence, manifest, disk, touched, rollup, counted>>
      BY <1>3 DEF ArtifactsChecked, Documents, Proceed
    <2>2. ASSUME NEW i \in 1..Len(manifest.artifacts) PROVE Checked(i)'
      <3>1. Checked(i)
        BY <1>0, <2>1 DEF DigestInv, ChecksHold
      <3> QED
        BY <2>1, <3>1 DEF Checked, FileOf
    <2>3. ChecksHold'
      BY <1>0, <2>1, <2>2 DEF DigestInv, ChecksHold
    <2> QED
      BY <2>1, <2>3 DEF DigestInv, BoundToDigests, FileOf
  <1>4. CASE RollUpArtifact
    <2> DEFINE m == disk[FileOf(at)]
    <2>1. CASE m = NoFile
      BY <1>4, <2>1 DEF RollUpArtifact, Documents, Proceed,
                        DigestInv, ChecksHold, BoundToDigests, FileOf
    <2>2. CASE m # NoFile
      <3>1. /\ stage = "roll" /\ at <= Len(manifest.artifacts)
            /\ counted' = Append(counted, m) /\ at' = at + 1
            /\ UNCHANGED <<command, stage, evidence, manifest, disk, touched>>
        BY <1>4, <2>2 DEF RollUpArtifact, Documents
      <3>2. Len(counted) = at - 1 /\ Checked(at) /\ \A i \in 1..Len(manifest.artifacts) : Checked(i)
        BY <1>0, <3>1 DEF DigestInv, ChecksHold, HostTypeOK
      <3>3. ASSUME NEW i \in 1..Len(manifest.artifacts) PROVE Checked(i)'
        BY <3>1, <3>2 DEF Checked, FileOf
      <3>4. Len(counted') = at' - 1 /\ counted' \in Seq(Metrics \cup {m})
        BY <1>0, <3>1, <3>2
      <3>5. ChecksHold'
        BY <3>1, <3>3, <3>4 DEF DigestInv, ChecksHold
      <3>6. ASSUME NEW i \in DOMAIN counted', FileOf(i)' \notin touched'
            PROVE  /\ counted'[i] = manifest'.artifacts[i].digest
                   /\ counted'[i].run = manifest'.run /\ MetricsValid(counted'[i])
        <4>1. CASE i = at
          <5>1. counted'[i] = m
            BY <1>0, <3>1, <3>2, <4>1
          <5> QED
            BY <3>1, <3>2, <3>6, <4>1, <5>1 DEF Checked, FileOf
        <4>2. CASE i # at
          <5>1. i \in DOMAIN counted /\ counted'[i] = counted[i]
            BY <1>0, <3>1, <3>2, <3>6, <4>2
          <5> QED
            BY <3>1, <3>6, <5>1 DEF DigestInv, BoundToDigests, FileOf
        <4> QED
          BY <4>1, <4>2
      <3> QED
        BY <3>5, <3>6 DEF DigestInv, BoundToDigests, MetricsValid
    <2> QED
      BY <2>1, <2>2
  <1>5. CASE CompareRollup
    BY <1>5 DEF CompareRollup, Documents, Accept, Proceed, DigestInv, ChecksHold,
                BoundToDigests, FileOf
  <1>6. CASE HostWrites
    <2>1. \A i \in 1..Len(manifest.artifacts) : Checked(i) => Checked(i)'
      BY <1>6, ChecksSurvive
    <2>2. /\ touched \subseteq touched'
          /\ UNCHANGED <<command, stage, evidence, manifest, at, rollup, counted>>
      BY <1>6 DEF HostWrites, Documents
    <2>3. ChecksHold'
      BY <1>0, <2>1, <2>2 DEF DigestInv, ChecksHold
    <2> QED
      BY <2>2, <2>3 DEF DigestInv, BoundToDigests, FileOf
  <1>7. CASE UNCHANGED hostVars
    BY <1>7 DEF hostVars, DigestInv, ChecksHold, Checked, BoundToDigests, FileOf
  <1> QED
    BY <1>1, <1>2, <1>3, <1>4, <1>5, <1>6, <1>7 DEF HostNext

(* What is counted for an artifact is the sound document of the run its    *)
(* digest names, unless the host rewrote that file during the command      *)
(* (BoundToDigests).                                                       *)
THEOREM CountedAreDigested == HostSpec => []BoundToDigests
  <1>1. HostInit => DigestInv
    BY DEF HostInit, DigestInv, ChecksHold, BoundToDigests
  <1>2. DigestInv => BoundToDigests
    BY DEF DigestInv
  <1> QED
    BY <1>1, <1>2, HostTypeCorrect, DigestStep, PTL DEF HostSpec

-----------------------------------------------------------------------------
(* The roll-up.                                                            *)

(* What the roll-up says of the documents counted: no more panes than      *)
(* documents, a zero counter only over zeros, maxima that bound every      *)
(* document, and a longest time that one of them has.                      *)
RollupBounds(r, seen) ==
    /\ r.panes <= Len(seen)
    /\ r.p0 = 0 => \A i \in DOMAIN seen : seen[i].p0 = 0
    /\ r.unsupported = 0 => \A i \in DOMAIN seen : seen[i].unsupported = 0
    /\ r.fallbacks = 0 => \A i \in DOMAIN seen : seen[i].fallbacks = 0
    /\ r.dropped = 0 => \A i \in DOMAIN seen : seen[i].dropped = 0
    /\ \A i \in DOMAIN seen : seen[i].p95 <= r.p95
    /\ r.seconds = 0 \/ \E i \in DOMAIN seen : seen[i].seconds = r.seconds

(* The exit evidence was validated before anything was counted for it, and *)
(* what is accepted matches the roll-up over the whole manifest.           *)
ExitInv ==
    /\ RollupBounds(rollup, counted)
    /\ command = ExitCommand /\ stage \in {"check", "roll"} => ExitValid(evidence)
    /\ stage = "roll" => command = ExitCommand
    /\ Accepted =>
         /\ ExitValid(evidence) /\ HostRollupMatches(evidence.canary, rollup)
         /\ Len(counted) = Len(manifest.artifacts)

(* A latency that was not measured is a number too.                        *)
LEMMA LatencyTyped == \A d \in Metrics : d.p95 \in Int
  <1> SUFFICES ASSUME NEW d \in Metrics PROVE d.p95 \in Int
    OBVIOUS
  <1>1. d.p95 \in Opt(Nat)
    BY HostDocumentsAssumption DEF Metric
  <1> QED
    BY <1>1 DEF Opt, None

(* Counting one more document keeps the bounds.                            *)
LEMMA BoundsSurvive ==
    ASSUME HostTypeOK, RollupBounds(rollup, counted), NEW m \in Metrics
    PROVE  RollupBounds(AddMetrics(rollup, m), Append(counted, m))
  <1> DEFINE r == AddMetrics(rollup, m)
             seen == Append(counted, m)
  <1>1. /\ m.seconds \in Nat /\ m.p0 \in Nat /\ m.unsupported \in Nat /\ m.fallbacks \in Nat
        /\ m.dropped \in Nat /\ m.p95 \in Opt(Nat)
    BY HostDocumentsAssumption DEF Metric
  <1>2. /\ rollup.panes \in 0..MaxPanes /\ rollup.seconds \in Nat
        /\ rollup.p0 \in Nat /\ rollup.unsupported \in Nat /\ rollup.fallbacks \in Nat
        /\ rollup.dropped \in Nat /\ rollup.p95 \in Opt(Nat)
    BY DEF HostTypeOK
  <1>3. /\ counted \in Seq(Metrics) /\ seen \in Seq(Metrics)
        /\ Len(seen) = Len(counted) + 1 /\ seen[Len(seen)] = m
        /\ \A i \in DOMAIN counted : i \in DOMAIN seen /\ seen[i] = counted[i]
        /\ \A i \in DOMAIN seen : i \in DOMAIN counted \/ i = Len(seen)
        /\ Len(seen) \in DOMAIN seen
    BY DEF HostTypeOK
  <1> HIDE DEF seen
  <1>4. r.panes <= Len(seen)
    BY <1>2, <1>3, HostAssumption DEF RollupBounds, AddMetrics
  <1>5. /\ r.p0 = Add(rollup.p0, m.p0) /\ r.unsupported = Add(rollup.unsupported, m.unsupported)
         /\ r.fallbacks = Add(rollup.fallbacks, m.fallbacks) /\ r.dropped = Add(rollup.dropped, m.dropped)
    BY DEF AddMetrics
  <1> HIDE DEF r
  <1>6. r.p0 = 0 => \A i \in DOMAIN seen : seen[i].p0 = 0
    <2> SUFFICES ASSUME r.p0 = 0, NEW i \in DOMAIN seen PROVE seen[i].p0 = 0
      OBVIOUS
    <2>1. rollup.p0 = 0 /\ m.p0 = 0
      BY <1>1, <1>2, <1>5, AddIsZero
    <2> QED
      BY <1>3, <2>1 DEF RollupBounds
  <1>7. r.unsupported = 0 => \A i \in DOMAIN seen : seen[i].unsupported = 0
    <2> SUFFICES ASSUME r.unsupported = 0, NEW i \in DOMAIN seen PROVE seen[i].unsupported = 0
      OBVIOUS
    <2>1. rollup.unsupported = 0 /\ m.unsupported = 0
      BY <1>1, <1>2, <1>5, AddIsZero
    <2> QED
      BY <1>3, <2>1 DEF RollupBounds
  <1>8. r.fallbacks = 0 => \A i \in DOMAIN seen : seen[i].fallbacks = 0
    <2> SUFFICES ASSUME r.fallbacks = 0, NEW i \in DOMAIN seen PROVE seen[i].fallbacks = 0
      OBVIOUS
    <2>1. rollup.fallbacks = 0 /\ m.fallbacks = 0
      BY <1>1, <1>2, <1>5, AddIsZero
    <2> QED
      BY <1>3, <2>1 DEF RollupBounds
  <1>9. r.dropped = 0 => \A i \in DOMAIN seen : seen[i].dropped = 0
    <2> SUFFICES ASSUME r.dropped = 0, NEW i \in DOMAIN seen PROVE seen[i].dropped = 0
      OBVIOUS
    <2>1. rollup.dropped = 0 /\ m.dropped = 0
      BY <1>1, <1>2, <1>5, AddIsZero
    <2> QED
      BY <1>3, <2>1 DEF RollupBounds
  <1>10. \A i \in DOMAIN seen : seen[i].p95 <= r.p95
    <2>1. rollup.p95 \in Int /\ m.p95 \in Int /\ r.p95 = Larger(rollup.p95, m.p95)
      BY <1>1, <1>2 DEF Opt, None, AddMetrics, r
    <2>2. rollup.p95 <= r.p95 /\ m.p95 <= r.p95 /\ r.p95 \in Int
      BY <2>1, LargerIsBound
    <2>3. \A i \in DOMAIN counted : counted[i].p95 \in Int /\ counted[i].p95 <= rollup.p95
      <3>1. \A i \in DOMAIN counted : counted[i] \in Metrics
        BY <1>3
      <3> QED
        BY <3>1, LatencyTyped DEF RollupBounds
    <2> QED
      BY <1>3, <2>1, <2>2, <2>3
  <1>11. r.seconds = 0 \/ \E i \in DOMAIN seen : seen[i].seconds = r.seconds
    <2>1. r.seconds = rollup.seconds \/ r.seconds = m.seconds
      BY <1>1, <1>2 DEF AddMetrics, Larger, r
    <2> QED
      BY <1>3, <2>1 DEF RollupBounds
  <1> QED
    BY <1>4, <1>6, <1>7, <1>8, <1>9, <1>10, <1>11 DEF RollupBounds, seen, r

(* Every step keeps what ExitInv says.                                     *)
LEMMA ExitStep ==
    ASSUME HostTypeOK, DigestInv, ExitInv, [HostNext]_hostVars
    PROVE  ExitInv'
  <1>0. Len(manifest.artifacts) \in Nat /\ at \in Nat /\ at <= Len(manifest.artifacts) + 1
    BY HostDocumentsAssumption DEF HostTypeOK
  <1>1. CASE ValidateHostEvidence
    BY <1>1 DEF ValidateHostEvidence, Documents, Accept, Proceed, ExitInv, Accepted, ExitCommand,
                DigestInv, ChecksHold
  <1>2. CASE ValidateExitEvidence
    BY <1>2 DEF ValidateExitEvidence, Documents, Accept, Proceed, ExitInv, Accepted, ExitCommand,
                DigestInv, ChecksHold
  <1>3. CASE CheckArtifact
    BY <1>3 DEF CheckArtifact, Documents, Accept, Proceed, ExitInv, Accepted
  <1>4. CASE ArtifactsChecked
    <2>1. command \in {"validate-m6-host-evidence", ExitCommand}
      BY <1>4 DEF ArtifactsChecked, DigestInv, ChecksHold, HostTypeOK, ExitCommand
    <2> QED
      BY <1>4, <2>1 DEF ArtifactsChecked, Documents, Proceed, ExitInv, Accepted, ExitCommand
  <1>5. CASE RollUpArtifact
    <2> DEFINE m == disk[FileOf(at)]
    <2>1. CASE m = NoFile
      BY <1>5, <2>1 DEF RollUpArtifact, Documents, Proceed, ExitInv, Accepted
    <2>2. CASE m # NoFile
      <3>1. m \in Metrics
        BY <1>0, <1>5, <2>2, FilesOfArtifacts DEF RollUpArtifact, HostTypeOK
      <3>2. /\ rollup' = AddMetrics(rollup, m) /\ counted' = Append(counted, m)
            /\ stage = "roll" /\ UNCHANGED <<command, stage, evidence>>
        BY <1>5, <2>2 DEF RollUpArtifact, Documents
      <3>3. RollupBounds(rollup', counted')
        BY <3>1, <3>2, BoundsSurvive DEF ExitInv
      <3> QED
        BY <3>2, <3>3 DEF ExitInv, Accepted
    <2> QED
      BY <2>1, <2>2
  <1>6. CASE CompareRollup
    <2>1. /\ stage = "roll" /\ at > Len(manifest.artifacts)
          /\ stage' \in {"accepted", "rejected"}
          /\ stage' = "accepted" => HostRollupMatches(evidence.canary, rollup)
          /\ UNCHANGED <<command, evidence, manifest, rollup, counted>>
      BY <1>6 DEF CompareRollup, Documents, Accept, Proceed
    <2>2. Len(counted) = Len(manifest.artifacts) /\ ExitValid(evidence)
      BY <1>0, <2>1 DEF DigestInv, ChecksHold, ExitInv
    <2> QED
      BY <2>1, <2>2 DEF ExitInv, Accepted
  <1>7. CASE HostWrites
    BY <1>7 DEF HostWrites, Documents, ExitInv, Accepted
  <1>8. CASE UNCHANGED hostVars
    BY <1>8 DEF hostVars, ExitInv, Accepted
  <1> QED
    BY <1>1, <1>2, <1>3, <1>4, <1>5, <1>6, <1>7, <1>8 DEF HostNext

(* A passing canary rests on every document of the manifest, at least two, *)
(* none of which dropped output, fell back, mismatched or was too slow,    *)
(* and one of which lasted the hour (PassIsObserved).                      *)
THEOREM PassesAreObserved == HostSpec => []PassIsObserved
  <1>1. HostInit => DigestInv /\ ExitInv
    BY DEF HostInit, DigestInv, ChecksHold, BoundToDigests, ExitInv, RollupBounds, NoRollup,
           Accepted, ExitCommand
  <1>2. HostTypeOK /\ ExitInv => PassIsObserved
    <2> SUFFICES ASSUME HostTypeOK, ExitInv, Accepted, evidence.canary.status = "pass"
                 PROVE  /\ Len(counted) = Len(manifest.artifacts) /\ Len(counted) >= 2
                        /\ \A i \in DOMAIN counted :
                             /\ counted[i].dropped = 0 /\ counted[i].fallbacks = 0
                             /\ counted[i].p0 = 0 /\ counted[i].unsupported = 0
                             /\ counted[i].p95 <= MaxLatency
                        /\ \E i \in DOMAIN counted : counted[i].seconds >= MinSeconds
      BY DEF PassIsObserved
    <2>1. PassingMeasurements(evidence.canary) /\ HostRollupMatches(evidence.canary, rollup)
      BY DEF ExitInv, ExitValid, PartsValid, CanaryValid
    <2>2. /\ rollup.panes >= 2 /\ rollup.seconds >= MinSeconds /\ rollup.p95 <= MaxLatency
          /\ rollup.p0 = 0 /\ rollup.unsupported = 0 /\ rollup.fallbacks = 0 /\ rollup.dropped = 0
      BY <2>1 DEF PassingMeasurements, HostRollupMatches
    <2>3. RollupBounds(rollup, counted) /\ Len(counted) = Len(manifest.artifacts)
      BY DEF ExitInv
    <2>4. Len(counted) >= 2
      BY <2>2, <2>3 DEF RollupBounds, HostTypeOK
    <2>5. \A i \in DOMAIN counted : counted[i].p95 <= MaxLatency
      <3>1. \A i \in DOMAIN counted : counted[i].p95 \in Int
        <4>1. \A i \in DOMAIN counted : counted[i] \in Metrics
          BY DEF HostTypeOK
        <4> QED
          BY <4>1, LatencyTyped
      <3>2. rollup.p95 \in Int
        BY DEF HostTypeOK, Opt, None
      <3> QED
        BY <2>2, <2>3, <3>1, <3>2, HostAssumption DEF RollupBounds
    <2>6. \E i \in DOMAIN counted : counted[i].seconds >= MinSeconds
      <3>1. rollup.seconds # 0
        BY <2>2, HostAssumption
      <3> QED
        BY <2>2, <2>3, <3>1 DEF RollupBounds
    <2> QED
      BY <2>2, <2>3, <2>4, <2>5, <2>6 DEF RollupBounds
  <1> QED
    BY <1>1, <1>2, HostTypeCorrect, DigestStep, ExitStep, PTL DEF HostSpec

-----------------------------------------------------------------------------
(* The decision.                                                           *)

(* Whatever was measured, some decision is acceptable: nobody has to       *)
(* misstate a measurement to have one (M6ExitEvidence::validate).          *)
THEOREM DecisionAvailable ==
    ASSUME NEW Canaries, NEW RowSets,
           NEW e \in [form : BOOLEAN, rev : Nat, default : Statuses, canary : Canaries,
                      platforms : RowSets, decision : Decisions, blockers : BOOLEAN],
           PartsValid(e)
    PROVE  \E d \in Decisions : ExitValid([e EXCEPT !.decision = d])
  <1>1. PartsValid([e EXCEPT !.decision = "targeted_host_hardening"])
        /\ PartsValid([e EXCEPT !.decision = "replacement_experiment_blocked"])
    BY DEF PartsValid
  <1>2. CASE WindowsPass(e)
    BY <1>1, <1>2 DEF ExitValid, DecisionValid, WindowsPass, Decisions
  <1>3. CASE ~WindowsPass(e)
    BY <1>1, <1>3 DEF ExitValid, DecisionValid, WindowsPass, Decisions
  <1> QED
    BY <1>2, <1>3


-----------------------------------------------------------------------------
(* ReleaseEvidence: for any programs, crates, tools and hand-written plans,*)
(* any number of commands and a kill at any moment, what a document says   *)
(* passed did pass, where it says so, and the document the tests read is   *)
(* there when they run.                                                    *)

OutcomeKinds == {"success", "failure", "unavailable", "unarchived"}
Hosts == RuntimePlatforms \cup {"other", "none"}
PlatformFile == "platform-runtime-evidence"

(* The document that blocks every platform, written before a measurement.  *)
Bootstrap == PlatformDocument(TRUE, "none", <<>>)

-----------------------------------------------------------------------------
(* What a document made of outcomes is like.                               *)

LEMMA Lengths ==
    ASSUME NEW S, NEW s \in Seq(S)
    PROVE  /\ Len(s) \in Nat /\ DOMAIN s = 1..Len(s) /\ \A i \in DOMAIN s : s[i] \in S
           /\ s # <<>> => 1 \in DOMAIN s
  OBVIOUS

LEMMA ResultOfOutcome ==
    ASSUME NEW o \in OutcomeKinds
    PROVE  /\ ResultValid(Result(o))
           /\ Result(o).status \in {"pass", "failed", "blocked"}
           /\ Result(o).status = "pass" <=> o \in {"success", "unarchived"}
           /\ Result(o).status = "failed" <=> o = "failure"
           /\ Result(o).status = "blocked" <=> o = "unavailable"
  BY DEF OutcomeKinds, Result, Success, ResultValid

LEMMA RollupOfResults ==
    ASSUME NEW results
    PROVE  /\ Rollup(results) \in {"pass", "failed", "blocked"}
           /\ Rollup(results) = "failed" <=> Having(results, "failed") # {}
           /\ Rollup(results) = "blocked" <=>
                Having(results, "failed") = {} /\ Having(results, "blocked") # {}
  BY DEF Rollup

LEMMA MeasuredRowValid ==
    ASSUME NEW did \in Seq(OutcomeKinds), Len(did) = Len(PlatformPrograms)
    PROVE  RuntimeRowValid(MeasuredRow(Results(did)))
  <1>1. DOMAIN Results(did) = DOMAIN PlatformPrograms
    BY ReleaseAssumption, Lengths DEF Results
  <1>2. ASSUME NEW i \in DOMAIN Results(did) PROVE ResultValid(Results(did)[i])
    <2>1. did[i] \in OutcomeKinds
      BY Lengths DEF Results
    <2> QED
      BY <2>1, ResultOfOutcome DEF Results
  <1> QED
    BY <1>1, <1>2, RollupOfResults DEF MeasuredRow, RuntimeRowValid

LEMMA BlockedRowValid == RuntimeRowValid(BlockedRow)
  <1>1. 1 \in DOMAIN PlatformPrograms
    BY ReleaseAssumption, Lengths
  <1>2. /\ ResultValid(Result("unavailable")) /\ Result("unavailable").status = "blocked"
    BY DEF Result, Success, ResultValid
  <1>3. /\ DOMAIN BlockedRow.results = DOMAIN PlatformPrograms
        /\ \A i \in DOMAIN BlockedRow.results : BlockedRow.results[i] = Result("unavailable")
        /\ BlockedRow.status = "blocked" /\ BlockedRow.reason
    BY DEF BlockedRow
  <1>4. Having(BlockedRow.results, "blocked") # {} /\ Having(BlockedRow.results, "failed") = {}
    BY <1>1, <1>2, <1>3 DEF Having
  <1> QED
    BY <1>2, <1>3, <1>4 DEF RuntimeRowValid

LEMMA PlatformMade ==
    ASSUME NEW did \in Seq(OutcomeKinds), NEW host \in Hosts, NEW form \in BOOLEAN
    PROVE  LET doc == PlatformDocument(form, host, did) IN
           /\ doc.kind = "platform" /\ doc.form = form
           /\ \A p \in RuntimePlatforms :
                doc.rows[p] = IF p = host THEN MeasuredRow(Results(did)) ELSE BlockedRow
           /\ form /\ (host \in RuntimePlatforms => Len(did) = Len(PlatformPrograms))
                => Valid(doc)
  <1> DEFINE doc == PlatformDocument(form, host, did)
  <1>1. /\ doc.kind = "platform" /\ doc.form = form
        /\ \A p \in RuntimePlatforms :
             doc.rows[p] = IF p = host THEN MeasuredRow(Results(did)) ELSE BlockedRow
    BY DEF PlatformDocument
  <1>2. ASSUME form, host \in RuntimePlatforms => Len(did) = Len(PlatformPrograms)
        PROVE  Valid(doc)
    <2>1. \A p \in RuntimePlatforms : RuntimeRowValid(doc.rows[p])
      BY <1>1, <1>2, MeasuredRowValid, BlockedRowValid
    <2> HIDE DEF doc
    <2> QED
      BY <1>1, <1>2, <2>1 DEF Valid, PlatformValid
  <1> QED
    BY <1>1, <1>2

(* A set of positions of a document is empty when its size is zero.        *)
LEMMA NobodyCounted ==
    ASSUME NEW n \in Nat, NEW S \in SUBSET (1..n)
    PROVE  /\ Cardinality(S) \in Nat
           /\ Cardinality(S) = 0 <=> S = {}
  <1>1. IsFiniteSet(1..n)
    BY FS_Interval
  <1>2. IsFiniteSet(S)
    BY <1>1, FS_Subset
  <1> QED
    BY <1>2, FS_EmptySet, FS_CardinalityType

LEMMA ReadinessMade ==
    ASSUME NEW did \in Seq(OutcomeKinds), NEW form \in BOOLEAN
    PROVE  LET doc == ReadinessDocument(form, did) IN
           /\ doc.status = "pass" =>
                \A i \in DOMAIN did : did[i] \notin {"failure", "unavailable"}
           /\ form /\ Len(did) = Len(PublishOrder)
                /\ (\A i \in DOMAIN did : did[i] # "unarchived") => Valid(doc)
  <1> DEFINE doc == ReadinessDocument(form, did)
             crates == [i \in DOMAIN did |-> PackageCrate(did[i])]
  <1>1. /\ doc.kind = "readiness" /\ doc.form = form /\ doc.crates = crates
        /\ doc.status = IF \A i \in DOMAIN did : crates[i].status = "pass"
                        THEN "pass" ELSE "blocked"
    BY DEF ReadinessDocument
  <1>2. ASSUME NEW i \in DOMAIN did
        PROVE  /\ did[i] \in OutcomeKinds
               /\ crates[i].dry_run = Result(did[i])
               /\ did[i] # "unarchived" => crates[i].archive
               /\ crates[i].status = "pass" <=> Result(did[i]).status = "pass"
    BY Lengths DEF PackageCrate, CrateStatus
  <1>3. DOMAIN crates = DOMAIN did
    OBVIOUS
  <1> HIDE DEF doc, crates
  <1>4. ASSUME doc.status = "pass", NEW i \in DOMAIN did
        PROVE  did[i] \notin {"failure", "unavailable"}
    <2>1. crates[i].status = "pass"
      BY <1>1, <1>4
    <2> QED
      BY <1>2, <2>1, ResultOfOutcome
  <1>5. ASSUME form, Len(did) = Len(PublishOrder), \A i \in DOMAIN did : did[i] # "unarchived"
        PROVE  Valid(doc)
    <2>1. 1 \in DOMAIN did
      BY <1>5, ReleaseAssumption, Lengths
    <2>2. crates # <<>>
      BY <1>3, <2>1
    <2>3. ASSUME NEW i \in DOMAIN crates
          PROVE  /\ ResultValid(crates[i].dry_run)
                 /\ crates[i].dry_run.status = "pass" => crates[i].archive
                 /\ crates[i].status = "pass" => crates[i].dry_run.status = "pass"
                 /\ doc.status = "pass" => crates[i].status = "pass"
      <3>1. i \in DOMAIN did
        BY <1>3
      <3>2. ResultValid(crates[i].dry_run) /\ crates[i].archive
        BY <1>2, <1>5, <3>1, ResultOfOutcome
      <3>3. crates[i].status = "pass" => crates[i].dry_run.status = "pass"
        BY <1>2, <3>1
      <3>4. doc.status = "pass" => crates[i].status = "pass"
        BY <1>1, <3>1
      <3> QED
        BY <3>2, <3>3, <3>4
    <2> QED
      BY <1>1, <1>5, <2>2, <2>3 DEF Valid, ReadinessValid
  <1> QED
    BY <1>4, <1>5 DEF doc

LEMMA AuditMade ==
    ASSUME NEW did \in Seq(OutcomeKinds), Len(did) = 1, NEW form \in BOOLEAN
    PROVE  LET doc == AuditDocument(form, did) IN
           /\ doc.status = "pass" => \A i \in DOMAIN did : did[i] # "failure"
           /\ form => Valid(doc)
  <1> DEFINE doc == AuditDocument(form, did)
  <1>1. DOMAIN did = {1} /\ did[1] \in OutcomeKinds
    BY Lengths
  <1>2. /\ doc.kind = "audit" /\ doc.form = form /\ doc.semver = Result(did[1])
        /\ doc.status = IF Result(did[1]).status = "failed" THEN "blocked" ELSE "pass"
    BY DEF AuditDocument
  <1> HIDE DEF doc
  <1>3. doc.status = "pass" => did[1] # "failure"
    BY <1>1, <1>2, ResultOfOutcome
  <1>4. form => Valid(doc)
    BY <1>1, <1>2, ResultOfOutcome DEF Valid, AuditValid
  <1> QED
    BY <1>1, <1>3, <1>4 DEF doc

LEMMA SecurityMade ==
    ASSUME NEW did \in Seq(OutcomeKinds), NEW form \in BOOLEAN
    PROVE  LET doc == SecurityDocument(form, did) IN
           /\ doc.status = "pass" =>
                \A i \in DOMAIN did : did[i] \notin {"failure", "unavailable"}
           /\ form /\ Len(did) = Len(SecurityTools) => Valid(doc)
  <1> DEFINE doc == SecurityDocument(form, did)
             tools == [i \in DOMAIN did |-> SecurityTool(did[i])]
             failed == {i \in DOMAIN did : did[i] = "failure"}
             blocked == {i \in DOMAIN did : did[i] = "unavailable"}
  <1>1. /\ doc.kind = "security" /\ doc.form = form /\ doc.tools = tools
        /\ doc.summary = SecuritySummary(tools)
        /\ doc.status = IF SecuritySummary(tools).failed > 0
                             \/ SecuritySummary(tools).release > 0 THEN "failed"
                        ELSE IF SecuritySummary(tools).blocked > 0 THEN "blocked" ELSE "pass"
    BY DEF SecurityDocument
  <1>2. DOMAIN tools = DOMAIN did /\ DOMAIN did = 1..Len(did) /\ Len(did) \in Nat
    BY Lengths
  <1>3. ASSUME NEW i \in DOMAIN did
        PROVE  /\ did[i] \in OutcomeKinds
               /\ tools[i].result = Result(did[i])
               /\ tools[i].result.status = "pass" <=> did[i] \in {"success", "unarchived"}
               /\ tools[i].result.status = "failed" <=> did[i] = "failure"
               /\ tools[i].result.status = "blocked" <=> did[i] = "unavailable"
               /\ tools[i].blocking <=> did[i] = "failure"
               /\ tools[i].findings = IF did[i] = "failure" THEN 1 ELSE 0
    BY Lengths, ResultOfOutcome DEF SecurityTool
  <1> HIDE DEF doc, tools
  <1>4. /\ {i \in DOMAIN tools : tools[i].result.status = "failed"} = failed
        /\ {i \in DOMAIN tools : tools[i].result.status = "blocked"} = blocked
        /\ {i \in DOMAIN tools : tools[i].findings > 0} = failed
    <2>1. \A i \in DOMAIN tools : tools[i].findings > 0 <=> did[i] = "failure"
      BY <1>2, <1>3
    <2> QED
      BY <1>2, <1>3, <2>1
  <1>5. /\ SecuritySummary(tools).failed = Cardinality(failed)
        /\ SecuritySummary(tools).blocked = Cardinality(blocked)
        /\ SecuritySummary(tools).release = Cardinality(failed)
    BY <1>4 DEF SecuritySummary
  <1>6. /\ Cardinality(failed) > 0 <=> failed # {}
        /\ Cardinality(blocked) > 0 <=> blocked # {}
    <2>1. failed \in SUBSET (1..Len(did)) /\ blocked \in SUBSET (1..Len(did))
      BY <1>2
    <2> HIDE DEF failed, blocked
    <2>2. /\ Cardinality(failed) \in Nat /\ (Cardinality(failed) = 0 <=> failed = {})
          /\ Cardinality(blocked) \in Nat /\ (Cardinality(blocked) = 0 <=> blocked = {})
      BY <1>2, <2>1, NobodyCounted
    <2> QED
      BY <2>2
  <1>7. doc.status = IF failed # {} THEN "failed" ELSE IF blocked # {} THEN "blocked" ELSE "pass"
    BY <1>1, <1>5, <1>6
  <1>8. ASSUME form, Len(did) = Len(SecurityTools)
        PROVE  Valid(doc)
    <2>1. DOMAIN tools = DOMAIN SecurityTools
      BY <1>2, <1>8, ReleaseAssumption, Lengths
    <2>2. \A i \in DOMAIN tools : SecurityToolValid(tools[i])
      BY <1>2, <1>3, ResultOfOutcome DEF SecurityToolValid
    <2>3. /\ (\E i \in DOMAIN tools : tools[i].result.status = "failed") <=> failed # {}
          /\ (\E i \in DOMAIN tools : tools[i].result.status = "blocked") <=> blocked # {}
          /\ (\E i \in DOMAIN tools : tools[i].blocking) <=> failed # {}
      BY <1>2, <1>3
    <2> HIDE DEF failed, blocked
    <2> QED
      BY <1>1, <1>7, <1>8, <2>1, <2>2, <2>3 DEF Valid, SecurityValid
  <1> QED
    BY <1>7, <1>8 DEF doc

-----------------------------------------------------------------------------
(* The invariant.                                                          *)

Writers == Generators \ {"baseline"}

Made(g, form, host, did) ==
    CASE g = "platform"  -> PlatformDocument(form, host, did)
      [] g = "readiness" -> ReadinessDocument(form, did)
      [] g = "audit"     -> AuditDocument(form, did)
      [] g = "security"  -> SecurityDocument(form, did)

(* A document was torn by a write that did not end, or was made of what    *)
(* the programs did last.                                                  *)
MadeOf(g, doc, did) ==
    \/ doc = Torn
    \/ /\ did \in Seq(OutcomeKinds)
       /\ g = "audit" => Len(did) = 1
       /\ \E form \in BOOLEAN, host \in Hosts : doc = Made(g, form, host, did)

(* Where a generator is and what it has in hand.                           *)
InProgress ==
    /\ generator \in Generators \cup {"none"}
    /\ on \in Hosts /\ formed \in BOOLEAN /\ outcomes \in Seq(OutcomeKinds)
    /\ generator = "none" => moment = "idle"
    /\ generator # "none" => verdict = "none"
    /\ moment = "bootstrap" =>
         generator = "platform" /\ pending = Bootstrap /\ on \in RuntimePlatforms \cup {"other"}
    /\ moment = "plan" => generator = "readiness"
    /\ moment \in {"bootstrap", "plan"} => outcomes = <<>>
    /\ moment = "programs" =>
         /\ generator \in Writers
         /\ generator = "platform" => on \in RuntimePlatforms
    /\ moment = "write" /\ generator # "baseline" =>
         /\ Len(outcomes) = Len(Programs(generator))
         /\ pending = Made(generator, formed, on, outcomes)
    /\ moment = "write" /\ generator = "baseline" => pending.kind = "baseline"
    /\ moment = "programs" => Len(outcomes) <= Len(Programs(generator))

OnDisk ==
    /\ DOMAIN docs = Artifacts /\ DOMAIN behind = Generators
    /\ \A g \in Writers : MadeOf(g, docs[ArtifactOf(g)], behind[g])
    /\ generator = "platform" /\ moment = "programs" => docs[PlatformFile] = Bootstrap

ReleaseInv == InProgress /\ OnDisk

LEMMA DocumentOfMade == \A g \in Writers : DocumentOf(g) = Made(g, formed, on, outcomes)
  BY DEF Writers, Generators, DocumentOf, Made

LEMMA ArtifactFiles ==
    /\ ArtifactOf("platform") = PlatformFile
    /\ \A g \in Generators : ArtifactOf(g) \in Artifacts /\ ArtifactOf(g) # "m5-release-plan"
    /\ \A g, h \in Generators : ArtifactOf(g) = ArtifactOf(h) => g = h
  BY DEF ArtifactOf, Generators, Artifacts, PlatformFile

LEMMA BootstrapMade ==
    /\ Bootstrap = Made("platform", TRUE, "none", <<>>)
    /\ MadeOf("platform", Bootstrap, <<>>) /\ Valid(Bootstrap) /\ Bootstrap.kind = "platform"
    /\ \A p \in RuntimePlatforms : Bootstrap.rows[p] = BlockedRow
  <1>1. /\ <<>> \in Seq(OutcomeKinds) /\ "none" \in Hosts /\ TRUE \in BOOLEAN
        /\ "none" \notin RuntimePlatforms
    BY DEF Hosts, RuntimePlatforms
  <1>2. Bootstrap = Made("platform", TRUE, "none", <<>>)
    BY DEF Bootstrap, Made
  <1>3. MadeOf("platform", Bootstrap, <<>>)
    BY <1>1, <1>2 DEF MadeOf
  <1>4. /\ Valid(Bootstrap) /\ Bootstrap.kind = "platform"
        /\ \A p \in RuntimePlatforms : Bootstrap.rows[p] = BlockedRow
    <2>1. /\ Bootstrap.kind = "platform"
          /\ \A p \in RuntimePlatforms :
               Bootstrap.rows[p] = IF p = "none" THEN MeasuredRow(Results(<<>>)) ELSE BlockedRow
          /\ TRUE /\ ("none" \in RuntimePlatforms => Len(<<>>) = Len(PlatformPrograms))
               => Valid(Bootstrap)
      BY <1>1, PlatformMade DEF Bootstrap
    <2> QED
      BY <1>1, <2>1
  <1> QED
    BY <1>2, <1>3, <1>4

LEMMA ReleaseInitInv == ReleaseInit => ReleaseInv
  <1> SUFFICES ASSUME ReleaseInit PROVE ReleaseInv
    OBVIOUS
  <1>1. InProgress
    BY DEF ReleaseInit, InProgress, Hosts
  <1>2. /\ CheckedInOutcomes.platform \in Seq(OutcomeKinds)
        /\ CheckedInOutcomes.readiness \in Seq(OutcomeKinds)
        /\ CheckedInOutcomes.security \in Seq(OutcomeKinds)
        /\ <<"unavailable">> \in Seq(OutcomeKinds) /\ Len(<<"unavailable">>) = 1
    <2>1. /\ Len(PlatformPrograms) \in Nat /\ DOMAIN PlatformPrograms = 1..Len(PlatformPrograms)
          /\ Len(PublishOrder) \in Nat /\ DOMAIN PublishOrder = 1..Len(PublishOrder)
          /\ Len(SecurityTools) \in Nat /\ DOMAIN SecurityTools = 1..Len(SecurityTools)
      BY ReleaseAssumption, Lengths
    <2>2. CheckedInOutcomes.platform \in Seq(OutcomeKinds)
      BY <2>1 DEF CheckedInOutcomes, OutcomeKinds
    <2>3. CheckedInOutcomes.readiness \in Seq(OutcomeKinds)
      BY <2>1 DEF CheckedInOutcomes, OutcomeKinds
    <2>4. CheckedInOutcomes.security \in Seq(OutcomeKinds)
      BY <2>1 DEF CheckedInOutcomes, OutcomeKinds
    <2> QED
      BY <2>2, <2>3, <2>4 DEF OutcomeKinds
  <1>3. /\ DOMAIN docs = Artifacts /\ DOMAIN behind = Generators
        /\ docs[ArtifactOf("platform")] =
             Made("platform", TRUE, "windows", CheckedInOutcomes.platform)
        /\ docs[ArtifactOf("readiness")] =
             Made("readiness", TRUE, "windows", CheckedInOutcomes.readiness)
        /\ docs[ArtifactOf("audit")] = Made("audit", TRUE, "windows", <<"unavailable">>)
        /\ docs[ArtifactOf("security")] =
             Made("security", TRUE, "windows", CheckedInOutcomes.security)
    <2>1. docs = CheckedIn /\ DOMAIN behind = Generators
      BY DEF ReleaseInit
    <2> QED
      BY <2>1 DEF CheckedIn, Artifacts, ArtifactOf, Made
  <1>4. /\ behind["platform"] = CheckedInOutcomes.platform
        /\ behind["readiness"] = CheckedInOutcomes.readiness
        /\ behind["security"] = CheckedInOutcomes.security
        /\ behind["audit"] = <<"unavailable">>
    <2>1. DOMAIN CheckedInOutcomes = {"platform", "readiness", "security"}
      BY DEF CheckedInOutcomes
    <2>2. behind = [g \in Generators |->
                     IF g \in {"platform", "readiness", "security"} THEN CheckedInOutcomes[g]
                     ELSE IF g = "audit" THEN <<"unavailable">> ELSE <<>>]
      BY <2>1 DEF ReleaseInit
    <2> QED
      BY <2>2 DEF Generators
  <1>5. \A g \in Writers : MadeOf(g, docs[ArtifactOf(g)], behind[g])
    <2> SUFFICES ASSUME NEW g \in Writers PROVE MadeOf(g, docs[ArtifactOf(g)], behind[g])
      OBVIOUS
    <2>1. "windows" \in Hosts /\ TRUE \in BOOLEAN
      BY DEF Hosts, RuntimePlatforms
    <2>2. g \in {"platform", "readiness", "audit", "security"}
      BY DEF Writers, Generators
    <2> QED
      BY <1>2, <1>3, <1>4, <2>1, <2>2 DEF MadeOf
  <1> QED
    BY <1>1, <1>3, <1>5 DEF ReleaseInv, OnDisk, ReleaseInit

(* A step that leaves the files as they are keeps what is true of them.    *)
LEMMA FilesKept ==
    ASSUME OnDisk, UNCHANGED <<docs, behind>>,
           generator' = "platform" /\ moment' = "programs" =>
             generator = "platform" /\ moment = "programs"
    PROVE  OnDisk'
  BY DEF OnDisk

LEMMA Ending ==
    ASSUME NEW how, End(how)
    PROVE  InProgress' /\ generator' = "none" /\ moment' = "idle"
  BY DEF End, InProgress, Hosts

(* A document written whole, or torn.                                      *)
LEMMA DocumentWritten ==
    ASSUME OnDisk, NEW g \in Generators, NEW doc, NEW did,
           docs' = [docs EXCEPT ![ArtifactOf(g)] = doc],
           behind' = [behind EXCEPT ![g] = did],
           g \in Writers => MadeOf(g, doc, did),
           generator' = "platform" /\ moment' = "programs" =>
             g = "platform" /\ doc = Bootstrap
    PROVE  OnDisk'
  <1>1. /\ DOMAIN docs' = Artifacts /\ DOMAIN behind' = Generators
        /\ docs'[ArtifactOf(g)] = doc /\ behind'[g] = did
    BY ArtifactFiles DEF OnDisk
  <1>2. ASSUME NEW h \in Writers PROVE MadeOf(h, docs'[ArtifactOf(h)], behind'[h])
    <2>1. h \in Generators /\ MadeOf(h, docs[ArtifactOf(h)], behind[h])
      BY DEF Writers, OnDisk
    <2>2. CASE h = g
      BY <1>1, <2>2
    <2>3. CASE h # g
      <3>1. ArtifactOf(h) # ArtifactOf(g) /\ ArtifactOf(h) \in Artifacts
        BY <2>1, <2>3, ArtifactFiles
      <3>2. docs'[ArtifactOf(h)] = docs[ArtifactOf(h)] /\ behind'[h] = behind[h]
        BY <2>1, <2>3, <3>1 DEF OnDisk
      <3> QED
        BY <2>1, <3>2
    <2> QED
      BY <2>2, <2>3
  <1>3. generator' = "platform" /\ moment' = "programs" => docs'[PlatformFile] = Bootstrap
    BY <1>1, ArtifactFiles
  <1> QED
    BY <1>1, <1>2, <1>3 DEF OnDisk

LEMMA Tearing ==
    ASSUME OnDisk, NEW f, docs' = [docs EXCEPT ![f] = Torn], behind' = behind,
           generator' # "platform"
    PROVE  OnDisk'
  <1>1. DOMAIN docs' = Artifacts /\ DOMAIN behind' = Generators
    BY DEF OnDisk
  <1>2. ASSUME NEW h \in Writers PROVE MadeOf(h, docs'[ArtifactOf(h)], behind'[h])
    <2>1. ArtifactOf(h) \in Artifacts
      BY ArtifactFiles DEF Writers
    <2>2. docs'[ArtifactOf(h)] = Torn \/ docs'[ArtifactOf(h)] = docs[ArtifactOf(h)]
      BY <2>1 DEF OnDisk
    <2> QED
      BY <2>2 DEF OnDisk, MadeOf
  <1> QED
    BY <1>1, <1>2 DEF OnDisk

(* The release plan is no generator's own document.                        *)
LEMMA PlanWritten ==
    ASSUME OnDisk, NEW plan, docs' = [docs EXCEPT !["m5-release-plan"] = plan],
           DOMAIN behind' = Generators, \A g \in Generators : behind'[g] = behind[g],
           generator' # "platform"
    PROVE  OnDisk'
  <1>1. DOMAIN docs' = Artifacts /\ DOMAIN behind' = Generators
    BY DEF OnDisk
  <1>2. \A h \in Writers :
          docs'[ArtifactOf(h)] = docs[ArtifactOf(h)] /\ behind'[h] = behind[h]
    BY ArtifactFiles DEF OnDisk, Writers
  <1> QED
    BY <1>1, <1>2 DEF OnDisk

LEMMA ProgramsCounted == \A g \in Generators : Len(Programs(g)) \in Nat
  BY ReleaseAssumption, Lengths DEF Programs

LEMMA ReleaseStepInv == ReleaseInv /\ [ReleaseNext]_releaseVars => ReleaseInv'
  <1> SUFFICES ASSUME InProgress, OnDisk, [ReleaseNext]_releaseVars
               PROVE  InProgress' /\ OnDisk'
    BY DEF ReleaseInv
  <1>1. ASSUME NEW host \in RuntimePlatforms \cup {"other"}, MeasurePlatform(host)
        PROVE  InProgress' /\ OnDisk'
    <2>1. /\ generator' = "platform" /\ moment' = "bootstrap" /\ pending' = Bootstrap
          /\ outcomes' = <<>> /\ verdict' = "none" /\ on' = host /\ formed' = TRUE
          /\ UNCHANGED <<docs, behind>>
      BY <1>1 DEF MeasurePlatform, Begin, Bootstrap
    <2>2. InProgress'
      BY <2>1 DEF InProgress, Hosts, Generators
    <2> QED
      BY <2>1, <2>2, FilesKept
  <1>2. CASE GenerateReadiness \/ GenerateAudit \/ GenerateSecurity
    <2>1. /\ \/ generator' = "readiness" /\ moment' = "plan"
             \/ generator' \in {"audit", "security"} /\ moment' = "programs"
          /\ outcomes' = <<>> /\ verdict' = "none" /\ on' = "none" /\ formed' \in BOOLEAN
          /\ UNCHANGED <<docs, behind>>
      BY <1>2 DEF GenerateReadiness, GenerateAudit, GenerateSecurity, Begin
    <2>2. /\ Len(Programs("audit")) >= 0 /\ Len(Programs("security")) >= 0 /\ Len(<<>>) = 0
      BY ReleaseAssumption, Lengths DEF Programs
    <2>3. InProgress'
      BY <2>1, <2>2 DEF InProgress, Hosts, Generators, Writers
    <2> QED
      BY <2>1, <2>3, FilesKept
  <1>3. CASE GenerateBaseline
    <2>1. /\ generator' = "baseline" /\ moment' = "write" /\ outcomes' = <<>>
          /\ verdict' = "none" /\ on' = "none" /\ formed' \in BOOLEAN
          /\ pending'.kind = "baseline" /\ UNCHANGED <<docs, behind>>
      BY <1>3 DEF GenerateBaseline, Begin, BaselineDocument
    <2>2. InProgress'
      BY <2>1 DEF InProgress, Hosts, Generators
    <2> QED
      BY <2>1, <2>2, FilesKept
  <1>4. CASE WriteFirst
    <2>1. CASE docs' = [docs EXCEPT ![FirstFile] = Torn] /\ End("failure") /\ UNCHANGED behind
      BY <2>1, Ending, Tearing
    <2>2. ASSUME moment \in {"bootstrap", "plan"},
                 docs' = [docs EXCEPT ![FirstFile] = pending],
                 behind' = [behind EXCEPT !.platform = IF moment = "plan" THEN @ ELSE <<>>],
                 \/ on = "other" /\ End("failure")
                 \/ /\ on # "other" /\ moment' = "programs" /\ pending' = NoDocument
                    /\ UNCHANGED <<generator, on, formed, outcomes, verdict, generations>>
          PROVE  InProgress' /\ OnDisk'
      <3>1. /\ moment = "bootstrap" =>
                 /\ generator = "platform" /\ pending = Bootstrap /\ FirstFile = ArtifactOf("platform")
                 /\ on \in RuntimePlatforms \cup {"other"}
            /\ moment = "plan" => generator = "readiness" /\ FirstFile = "m5-release-plan"
        BY <2>2, ArtifactFiles DEF InProgress, FirstFile, PlatformFile
      <3>2. Len(outcomes) <= Len(Programs(generator))
        BY <2>2, ProgramsCounted DEF InProgress
      <3>3. InProgress'
        <4>1. CASE on = "other" /\ End("failure")
          BY <4>1, Ending
        <4>2. CASE /\ on # "other" /\ moment' = "programs" /\ pending' = NoDocument
                   /\ UNCHANGED <<generator, on, formed, outcomes, verdict, generations>>
          BY <2>2, <3>1, <3>2, <4>2 DEF InProgress, Writers, Generators
        <4> QED
          BY <2>2, <4>1, <4>2
      <3>4. generator' = "none" \/ generator' = generator
        BY <2>2 DEF End
      <3>5. CASE moment = "bootstrap"
        <4>1. /\ docs' = [docs EXCEPT ![ArtifactOf("platform")] = Bootstrap]
              /\ behind' = [behind EXCEPT !["platform"] = <<>>]
          BY <2>2, <3>1, <3>5
        <4>2. "platform" \in Generators
          BY DEF Generators
        <4> QED
          BY <3>3, <4>1, <4>2, BootstrapMade, DocumentWritten
      <3>6. CASE moment = "plan"
        <4>1. docs' = [docs EXCEPT !["m5-release-plan"] = pending] /\ generator' # "platform"
          BY <2>2, <3>1, <3>4, <3>6
        <4>2. DOMAIN behind' = Generators /\ \A g \in Generators : behind'[g] = behind[g]
          BY <2>2, <3>6 DEF OnDisk, Generators
        <4> QED
          BY <3>3, <4>1, <4>2, PlanWritten
      <3> QED
        BY <2>2, <3>5, <3>6
    <2> QED
      BY <1>4, <2>1, <2>2 DEF WriteFirst
  <1>5. CASE RunProgram
    <2>1. /\ moment = "programs" /\ Len(outcomes) < Len(Programs(generator))
          /\ UNCHANGED <<docs, behind, generator, on, formed, moment, pending, verdict>>
      BY <1>5 DEF RunProgram
    <2>2. \E o \in OutcomeKinds : outcomes' = Append(outcomes, o)
      BY <1>5 DEF RunProgram, Outcomes, OutcomeKinds
    <2>3. /\ outcomes' \in Seq(OutcomeKinds) /\ Len(outcomes') = Len(outcomes) + 1
          /\ Len(outcomes) \in Nat
      BY <2>2 DEF InProgress
    <2>4. Len(Programs(generator)) \in Nat
      BY <2>1, ProgramsCounted DEF InProgress
    <2>5. InProgress'
      BY <2>1, <2>3, <2>4 DEF InProgress, Programs
    <2> QED
      BY <2>1, <2>5, FilesKept
  <1>6. CASE ManifestIncomplete
    BY <1>6, Ending, FilesKept DEF ManifestIncomplete
  <1>7. CASE Build
    <2>1. moment = "programs" /\ Len(outcomes) = Len(Programs(generator)) /\ UNCHANGED <<docs, behind>>
      BY <1>7 DEF Build
    <2>2. CASE End("refused")
      BY <2>1, <2>2, Ending, FilesKept
    <2>3. CASE /\ moment' = "write" /\ pending' = DocumentOf(generator)
               /\ UNCHANGED <<generator, on, formed, outcomes, verdict, generations>>
      <3>1. generator \in Writers /\ pending' = Made(generator, formed, on, outcomes)
        BY <2>1, <2>3, DocumentOfMade DEF InProgress
      <3>2. InProgress'
        BY <2>1, <2>3, <3>1 DEF InProgress, Programs, Writers
      <3> QED
        BY <2>1, <2>3, <3>2, FilesKept
    <2> QED
      BY <1>7, <2>2, <2>3 DEF Build
  <1>8. CASE Write
    <2>1. moment = "write" /\ generator \in Generators
      BY <1>8 DEF Write, InProgress
    <2>2. CASE /\ docs' = [docs EXCEPT ![ArtifactOf(generator)] = pending]
               /\ behind' = [behind EXCEPT ![generator] = outcomes]
               /\ End(IF Succeeds THEN "success" ELSE "failure")
      <3>1. generator \in Writers => MadeOf(generator, pending, outcomes)
        <4> SUFFICES ASSUME generator \in Writers
                     PROVE  MadeOf(generator, pending, outcomes)
          OBVIOUS
        <4>1. /\ outcomes \in Seq(OutcomeKinds) /\ Len(outcomes) = Len(Programs(generator))
              /\ formed \in BOOLEAN /\ on \in Hosts
              /\ pending = Made(generator, formed, on, outcomes)
          BY <2>1 DEF InProgress, Writers
        <4>2. generator = "audit" => Len(outcomes) = 1
          BY <4>1 DEF Programs
        <4> QED
          BY <4>1, <4>2 DEF MadeOf
      <3>2. InProgress' /\ generator' = "none"
        BY <2>2, Ending
      <3> QED
        BY <2>1, <2>2, <3>1, <3>2, DocumentWritten
    <2>3. CASE /\ docs' = [docs EXCEPT ![ArtifactOf(generator)] = Torn]
               /\ End("failure") /\ UNCHANGED behind
      BY <2>3, Ending, Tearing
    <2> QED
      BY <1>8, <2>2, <2>3 DEF Write
  <1>9. CASE Kill
    <2>1. InProgress' /\ generator' = "none" /\ behind' = behind
      BY <1>9, Ending DEF Kill
    <2>2. docs' = docs \/ \E f : docs' = [docs EXCEPT ![f] = Torn]
      BY <1>9 DEF Kill
    <2> QED
      BY <2>1, <2>2, FilesKept, Tearing
  <1>10. CASE EditPlan
    <2>1. /\ \E plan \in ReleasePlans : docs' = [docs EXCEPT !["m5-release-plan"] = plan]
          /\ UNCHANGED <<behind, generator, on, formed, moment, outcomes, pending, verdict>>
          /\ generator = "none"
      BY <1>10 DEF EditPlan
    <2>3. DOMAIN behind' = Generators /\ \A g \in Generators : behind'[g] = behind[g]
      BY <2>1 DEF OnDisk
    <2>2. InProgress'
      BY <2>1 DEF InProgress
    <2> QED
      BY <2>1, <2>2, <2>3, PlanWritten
  <1>11. CASE UNCHANGED releaseVars
    BY <1>11, FilesKept DEF releaseVars, InProgress
  <1> QED
    BY <1>1, <1>2, <1>3, <1>4, <1>5, <1>6, <1>7, <1>8, <1>9, <1>10, <1>11 DEF ReleaseNext

-----------------------------------------------------------------------------
(* The theorems.                                                           *)

LEMMA ReleaseInvariant == ReleaseSpec => []ReleaseInv
  BY ReleaseInitInv, ReleaseStepInv, PTL DEF ReleaseSpec

(* Whatever an earlier command left on the disk, and wherever it was       *)
(* killed, `cargo test` finds a valid platform document when the platform  *)
(* generator runs it: the bootstrap document is there before any program.  *)
THEOREM TestsFindEvidence == ReleaseSpec => []TestsSeeEvidence
  <1>1. ReleaseInv => TestsSeeEvidence
    BY BootstrapMade DEF ReleaseInv, OnDisk, TestsSeeEvidence, PlatformFile
  <1> QED
    BY <1>1, ReleaseInvariant, PTL

(* What any document on the disk says passed did pass: no program it is    *)
(* made of failed, and none but the semver check of the audit was missing. *)
THEOREM FailuresShown == ReleaseSpec => []NoFailureHidden
  <1>1. ReleaseInv => NoFailureHidden
    <2> SUFFICES ASSUME ReleaseInv, NEW g \in Writers, Readable(ArtifactOf(g)),
                        Passes(docs[ArtifactOf(g)]), NEW i \in DOMAIN behind[g]
                 PROVE  /\ behind[g][i] # "failure"
                        /\ g # "audit" => behind[g][i] # "unavailable"
      BY DEF NoFailureHidden, Writers
    <2> DEFINE doc == docs[ArtifactOf(g)]
               did == behind[g]
    <2>1. MadeOf(g, doc, did) /\ doc # Torn
      BY DEF ReleaseInv, OnDisk, Readable
    <2>2. /\ did \in Seq(OutcomeKinds) /\ (g = "audit" => Len(did) = 1)
      BY <2>1 DEF MadeOf
    <2>3. PICK form \in BOOLEAN, host \in Hosts : doc = Made(g, form, host, did)
      BY <2>1 DEF MadeOf
    <2>4. Passes(doc) /\ i \in DOMAIN did
      OBVIOUS
    <2> HIDE DEF doc, did
    <2>5. CASE g = "platform"
      <3>1. doc = PlatformDocument(form, host, did)
        BY <2>3, <2>5 DEF Made
      <3>2. /\ doc.kind = "platform"
            /\ \A p \in RuntimePlatforms :
                 doc.rows[p] = IF p = host THEN MeasuredRow(Results(did)) ELSE BlockedRow
        BY <2>2, <3>1, PlatformMade
      <3>3. PICK p \in RuntimePlatforms : doc.rows[p].status = "pass"
        BY <2>4, <3>2 DEF Passes
      <3>4. BlockedRow.status = "blocked"
        BY DEF BlockedRow
      <3>5. Rollup(Results(did)) = "pass"
        BY <3>2, <3>3, <3>4 DEF MeasuredRow
      <3>6. Result(did[i]).status \notin {"failed", "blocked"} /\ did[i] \in OutcomeKinds
        BY <2>2, <2>4, <3>5, RollupOfResults, Lengths DEF Rollup, Having, Results
      <3> QED
        BY <3>6, ResultOfOutcome DEF did
    <2>6. CASE g = "readiness"
      <3>1. doc = ReadinessDocument(form, did) /\ doc.kind = "readiness"
        BY <2>3, <2>6 DEF Made, ReadinessDocument
      <3> QED
        BY <2>2, <2>4, <3>1, ReadinessMade DEF Passes, did
    <2>7. CASE g = "audit"
      <3>1. doc = AuditDocument(form, did) /\ doc.kind = "audit"
        BY <2>3, <2>7 DEF Made, AuditDocument
      <3> QED
        BY <2>2, <2>4, <2>7, <3>1, AuditMade DEF Passes, did
    <2>8. CASE g = "security"
      <3>1. doc = SecurityDocument(form, did) /\ doc.kind = "security"
        BY <2>3, <2>8 DEF Made, SecurityDocument
      <3> QED
        BY <2>2, <2>4, <3>1, SecurityMade DEF Passes, did
    <2> QED
      BY <2>5, <2>6, <2>7, <2>8 DEF Writers, Generators
  <1> QED
    BY <1>1, ReleaseInvariant, PTL

(* No row of the platform document is ever written as measured but that of *)
(* the system the command runs on, with what its own programs did.         *)
THEOREM RowsMeasured == ReleaseSpec => RowsMeasuredThere
  <1> DEFINE doc == docs'[PlatformFile]
             Measured == docs[PlatformFile] # doc /\ doc.kind = "platform" =>
                           \A p \in RuntimePlatforms :
                             doc.rows[p].status # "blocked" =>
                               p = on /\ doc.rows[p].results = Results(outcomes)
  <1>1. ReleaseInv /\ [ReleaseNext]_releaseVars => Measured
    <2> SUFFICES ASSUME ReleaseInv, [ReleaseNext]_releaseVars,
                        docs[PlatformFile] # doc, doc.kind = "platform",
                        NEW p \in RuntimePlatforms, doc.rows[p].status # "blocked"
                 PROVE  p = on /\ doc.rows[p].results = Results(outcomes)
      OBVIOUS
    <2>1. Torn.kind = "torn" /\ "m5-release-plan" # PlatformFile
          /\ PlatformFile \in DOMAIN docs
      BY DEF Torn, PlatformFile, ReleaseInv, OnDisk, Artifacts
    <2>2. CASE WriteFirst
      <3>1. moment = "bootstrap" /\ doc = Bootstrap
        BY <2>1, <2>2 DEF WriteFirst, FirstFile, PlatformFile, ReleaseInv, InProgress
      <3>2. BlockedRow.status = "blocked"
        BY DEF BlockedRow
      <3>3. doc.rows[p] = BlockedRow
        BY <3>1, BootstrapMade
      <3> QED
        BY <3>2, <3>3
    <2>3. CASE Write
      <3>1. /\ generator \in Generators /\ ArtifactOf(generator) = PlatformFile
            /\ doc = pending /\ moment = "write"
        BY <2>1, <2>3 DEF Write, ReleaseInv, InProgress
      <3>2. generator = "platform"
        BY <3>1, ArtifactFiles DEF Generators
      <3>3. /\ doc = PlatformDocument(formed, on, outcomes)
            /\ formed \in BOOLEAN /\ on \in Hosts /\ outcomes \in Seq(OutcomeKinds)
        BY <3>1, <3>2 DEF ReleaseInv, InProgress, Made
      <3>4. doc.rows[p] = IF p = on THEN MeasuredRow(Results(outcomes)) ELSE BlockedRow
        BY <3>3, PlatformMade
      <3> QED
        BY <3>4 DEF BlockedRow, MeasuredRow
    <2>4. CASE Kill
      <3>1. doc = Torn
        BY <2>1, <2>4 DEF Kill
      <3> QED
        BY <2>1, <3>1
    <2>5. CASE EditPlan
      BY <2>1, <2>5 DEF EditPlan
    <2> QED
      BY <2>2, <2>3, <2>4, <2>5 DEF ReleaseNext, releaseVars, MeasurePlatform, Begin,
         GenerateReadiness, GenerateAudit, GenerateSecurity, GenerateBaseline, RunProgram,
         ManifestIncomplete, Build
  <1>2. Measured =>
          LET d == docs'["platform-runtime-evidence"] IN
          docs["platform-runtime-evidence"] # d /\ d.kind = "platform" =>
            \A p \in RuntimePlatforms :
              d.rows[p].status # "blocked" => p = on /\ d.rows[p].results = Results(outcomes)
    BY DEF PlatformFile
  <1> QED
    BY <1>1, <1>2, ReleaseInvariant, PTL DEF ReleaseSpec, RowsMeasuredThere

(* The validators refuse nothing the generators make of what programs do:  *)
(* a command is refused for the document's form or an archive out of place.*)
THEOREM RefusalsExplained == ReleaseSpec => OutcomesAreRecorded
  <1> DEFINE Explained == generator # "none" /\ verdict' = "refused" =>
                            ~formed \/ \E i \in DOMAIN outcomes : outcomes[i] = "unarchived"
  <1>1. ReleaseInv /\ [ReleaseNext]_releaseVars => Explained
    <2> SUFFICES ASSUME ReleaseInv, [ReleaseNext]_releaseVars, generator # "none",
                        verdict' = "refused", formed,
                        \A i \in DOMAIN outcomes : outcomes[i] # "unarchived"
                 PROVE  FALSE
      OBVIOUS
    <2>1. verdict = "none" /\ formed \in BOOLEAN /\ on \in Hosts /\ outcomes \in Seq(OutcomeKinds)
      BY DEF ReleaseInv, InProgress
    <2>2. Build /\ ~Valid(DocumentOf(generator))
      BY <2>1 DEF ReleaseNext, releaseVars, MeasurePlatform, Begin, GenerateReadiness,
         GenerateAudit, GenerateSecurity, GenerateBaseline, WriteFirst, End, RunProgram,
         ManifestIncomplete, Build, Write, Kill, EditPlan
    <2>3. /\ generator \in Writers /\ Len(outcomes) = Len(Programs(generator))
          /\ DocumentOf(generator) = Made(generator, formed, on, outcomes)
          /\ generator = "platform" => on \in RuntimePlatforms
      BY <2>2, DocumentOfMade DEF Build, ReleaseInv, InProgress
    <2>4. CASE generator = "platform"
      BY <2>1, <2>2, <2>3, <2>4, PlatformMade DEF Made, Programs
    <2>5. CASE generator = "readiness"
      BY <2>1, <2>2, <2>3, <2>5, ReadinessMade DEF Made, Programs
    <2>6. CASE generator = "audit"
      <3>1. Len(outcomes) = 1
        BY <2>3, <2>6 DEF Programs
      <3> QED
        BY <2>1, <2>2, <2>3, <2>6, <3>1, AuditMade DEF Made
    <2>7. CASE generator = "security"
      BY <2>1, <2>2, <2>3, <2>7, SecurityMade DEF Made, Programs
    <2> QED
      BY <2>3, <2>4, <2>5, <2>6, <2>7 DEF Writers, Generators
  <1> QED
    BY <1>1, ReleaseInvariant, PTL DEF ReleaseSpec, OutcomesAreRecorded

-----------------------------------------------------------------------------
(* The types.                                                              *)

FilesTyped ==
    /\ DOMAIN docs = Artifacts /\ docs["platform-evidence"] = NoDocument
    /\ \A f \in Artifacts : docs[f].kind \in DocumentKinds

BehindTyped ==
    /\ DOMAIN behind = Generators
    /\ \A g \in Generators : Len(behind[g]) <= Len(Programs(g))

(* Where the command is, with something to write when it is about to.      *)
CommandTyped ==
    /\ generator \in Generators \cup {"none"} /\ formed \in BOOLEAN
    /\ on \in RuntimePlatforms \cup {"other", "none"}
    /\ moment \in {"idle", "bootstrap", "plan", "programs", "write"}
    /\ moment = "idle" <=> generator = "none"
    /\ verdict \in {"none", "success", "failure", "refused", "killed"}
    /\ generations \in 0..MaxGenerations
    /\ generator \in {"none", "baseline"} => outcomes = <<>>
    /\ moment \in {"bootstrap", "plan", "write"} => pending.kind \in DocumentKinds

ReleaseTyped == FilesTyped /\ BehindTyped /\ CommandTyped

(* A document that replaces a file has a kind.                             *)
LEMMA FileReplaced ==
    ASSUME FilesTyped, NEW f, f # "platform-evidence", NEW doc, doc.kind \in DocumentKinds,
           docs' = [docs EXCEPT ![f] = doc]
    PROVE  FilesTyped'
  BY DEF FilesTyped, Artifacts

(* No generator writes the one document of M4 that was never made.         *)
LEMMA FilesNamed ==
    /\ FirstFile # "platform-evidence"
    /\ \A g \in Generators : ArtifactOf(g) # "platform-evidence"
    /\ Torn.kind \in DocumentKinds
  BY DEF FirstFile, ArtifactOf, Generators, Torn, DocumentKinds

LEMMA KindsMade ==
    /\ \A g \in Writers : \A form, host, did : Made(g, form, host, did).kind \in DocumentKinds
    /\ PlanDocument.kind \in DocumentKinds
    /\ \A form, sources, existing :
         BaselineDocument(form, sources, existing).kind \in DocumentKinds
  <1>1. \A form, host, did : /\ PlatformDocument(form, host, did).kind = "platform"
                             /\ ReadinessDocument(form, did).kind = "readiness"
                             /\ AuditDocument(form, did).kind = "audit"
                             /\ SecurityDocument(form, did).kind = "security"
    BY DEF PlatformDocument, ReadinessDocument, AuditDocument, SecurityDocument
  <1>2. \A g \in Writers : \A form, host, did : Made(g, form, host, did).kind \in DocumentKinds
    BY <1>1 DEF Made, Writers, Generators, DocumentKinds
  <1> QED
    BY <1>2 DEF PlanDocument, BaselineDocument, DocumentKinds

(* Programs answer one after the other.                                    *)
LEMMA OutcomesBounded ==
    ASSUME ReleaseInv, CommandTyped
    PROVE  /\ outcomes \in Seq(OutcomeKinds)
           /\ Len(outcomes) <= Len(Programs(generator))
  <1>1. /\ outcomes \in Seq(OutcomeKinds) /\ Len(<<>>) = 0
        /\ moment \in {"bootstrap", "plan"} => outcomes = <<>>
        /\ moment = "programs" => Len(outcomes) <= Len(Programs(generator))
        /\ moment = "write" /\ generator # "baseline" => Len(outcomes) = Len(Programs(generator))
        /\ generator = "baseline" \/ moment = "idle" => outcomes = <<>>
    BY DEF ReleaseInv, InProgress, CommandTyped
  <1>2. Len(Programs(generator)) \in Nat
    <2>1. Programs("none") = <<>>
      BY DEF Programs
    <2> QED
      BY <1>1, <2>1, ProgramsCounted DEF CommandTyped
  <1> QED
    BY <1>1, <1>2 DEF CommandTyped

LEMMA ReleaseTypedEnough == ReleaseInv /\ ReleaseTyped => ReleaseTypeOK
  BY OutcomesBounded DEF ReleaseTyped, FilesTyped, BehindTyped, CommandTyped, ReleaseTypeOK

LEMMA EndTyped ==
    ASSUME CommandTyped, NEW how \in {"success", "failure", "refused", "killed"}, End(how)
    PROVE  CommandTyped'
  BY DEF CommandTyped, End

LEMMA ReleaseInitTyped == ReleaseInit => ReleaseTyped
  <1> SUFFICES ASSUME ReleaseInit PROVE ReleaseTyped
    OBVIOUS
  <1>1. FilesTyped
    <2>1. docs = CheckedIn /\ docs["platform-evidence"] = NoDocument
      BY DEF ReleaseInit, CheckedIn, Artifacts
    <2>2. ASSUME NEW f \in Artifacts PROVE docs[f].kind \in DocumentKinds
      BY <2>1, <2>2 DEF CheckedIn, Artifacts, PlatformDocument, ReadinessDocument, PlanDocument,
         AuditDocument, SecurityDocument, BaselineDocument, NoDocument, DocumentKinds
    <2> QED
      BY <2>1, <2>2 DEF FilesTyped, CheckedIn
  <1>2. BehindTyped
    <2>1. /\ Len(PlatformPrograms) \in Nat /\ DOMAIN PlatformPrograms = 1..Len(PlatformPrograms)
          /\ Len(PublishOrder) \in Nat /\ DOMAIN PublishOrder = 1..Len(PublishOrder)
          /\ Len(SecurityTools) \in Nat /\ DOMAIN SecurityTools = 1..Len(SecurityTools)
      BY ReleaseAssumption, Lengths
    <2>2. /\ Len(CheckedInOutcomes.platform) = Len(PlatformPrograms)
          /\ Len(CheckedInOutcomes.readiness) = Len(PublishOrder)
          /\ Len(CheckedInOutcomes.security) = Len(SecurityTools)
      BY <2>1 DEF CheckedInOutcomes
    <2>3. DOMAIN CheckedInOutcomes = {"platform", "readiness", "security"}
      BY DEF CheckedInOutcomes
    <2>4. behind = [g \in Generators |->
                     IF g \in {"platform", "readiness", "security"} THEN CheckedInOutcomes[g]
                     ELSE IF g = "audit" THEN <<"unavailable">> ELSE <<>>]
      BY <2>3 DEF ReleaseInit
    <2>5. /\ behind["platform"] = CheckedInOutcomes.platform
          /\ behind["readiness"] = CheckedInOutcomes.readiness
          /\ behind["security"] = CheckedInOutcomes.security
          /\ behind["audit"] = <<"unavailable">> /\ behind["baseline"] = <<>>
          /\ DOMAIN behind = Generators
      BY <2>4 DEF Generators
    <2>6. Len(<<"unavailable">>) = 1 /\ Len(<<"cargo semver-checks">>) = 1 /\ Len(<<>>) = 0
      OBVIOUS
    <2>7. /\ Programs("platform") = PlatformPrograms /\ Programs("readiness") = PublishOrder
          /\ Programs("security") = SecurityTools /\ Programs("baseline") = <<>>
          /\ Programs("audit") = <<"cargo semver-checks">>
      BY DEF Programs
    <2>8. \A g \in Generators : Len(behind[g]) = Len(Programs(g))
      <3>1. \A g \in Generators : \/ g = "platform" \/ g = "readiness" \/ g = "audit"
                                  \/ g = "security" \/ g = "baseline"
        BY DEF Generators
      <3> QED
        BY <2>2, <2>5, <2>6, <2>7, <3>1, Zenon
    <2>9. \A g \in Generators : Len(behind[g]) <= Len(Programs(g))
      BY <2>8, ProgramsCounted
    <2> QED
      BY <2>5, <2>9 DEF BehindTyped
  <1>3. CommandTyped
    BY ReleaseAssumption DEF ReleaseInit, CommandTyped
  <1> QED
    BY <1>1, <1>2, <1>3 DEF ReleaseTyped

LEMMA ReleaseStepTyped ==
    ASSUME ReleaseInv, ReleaseTyped, [ReleaseNext]_releaseVars
    PROVE  ReleaseTyped'
  <1> USE DEF ReleaseTyped
  <1>1. \A g \in Generators : Len(Programs(g)) \in Nat
    BY ProgramsCounted
  <1>2. ASSUME NEW g \in Generators, NEW next \in {"bootstrap", "plan", "programs", "write"},
               NEW doc, next # "programs" => doc.kind \in DocumentKinds, Begin(g, next, doc),
               on' \in RuntimePlatforms \cup {"other", "none"}, formed' \in BOOLEAN
        PROVE  ReleaseTyped'
    <2>1. FilesTyped' /\ BehindTyped'
      BY <1>2 DEF Begin, FilesTyped, BehindTyped
    <2>2. generations' \in 0..MaxGenerations
      BY <1>2, ReleaseAssumption DEF Begin, CommandTyped
    <2>3. CommandTyped'
      BY <1>2, <2>2 DEF Begin, CommandTyped, Generators
    <2> QED
      BY <2>1, <2>3
  <1>3. ASSUME NEW host \in RuntimePlatforms \cup {"other"}, MeasurePlatform(host)
        PROVE  ReleaseTyped'
    <2>1. PlatformDocument(TRUE, "none", <<>>).kind \in DocumentKinds
      BY BootstrapMade DEF Bootstrap, DocumentKinds
    <2> QED
      BY <1>2, <1>3, <2>1 DEF MeasurePlatform, Generators
  <1>4. CASE GenerateReadiness \/ GenerateAudit \/ GenerateSecurity
    BY <1>2, <1>4, KindsMade DEF GenerateReadiness, GenerateAudit, GenerateSecurity, Generators
  <1>5. CASE GenerateBaseline
    BY <1>2, <1>5, KindsMade DEF GenerateBaseline, Generators
  <1>6. CASE WriteFirst
    <2>1. FilesTyped'
      <3>1. pending.kind \in DocumentKinds
        BY <1>6 DEF WriteFirst, CommandTyped
      <3> QED
        BY <1>6, <3>1, FileReplaced, FilesNamed DEF WriteFirst
    <2>2. BehindTyped'
      <3>1. behind' = behind \/ behind' = [behind EXCEPT !.platform = <<>>]
            \/ behind' = [behind EXCEPT !.platform = behind.platform]
        BY <1>6 DEF WriteFirst
      <3>2. Len(<<>>) = 0 /\ "platform" \in Generators
        BY DEF Generators
      <3> QED
        BY <1>1, <3>1, <3>2 DEF BehindTyped
    <2>3. CommandTyped'
      <3>1. CASE End("failure")
        BY <3>1, EndTyped
      <3>2. CASE ~End("failure")
        <4>1. /\ moment \in {"bootstrap", "plan"} /\ moment' = "programs"
              /\ UNCHANGED <<generator, on, formed, outcomes, verdict, generations>>
          BY <1>6, <3>2 DEF WriteFirst
        <4> QED
          BY <4>1 DEF CommandTyped
      <3> QED
        BY <3>1, <3>2
    <2> QED
      BY <2>1, <2>2, <2>3
  <1>7. CASE RunProgram
    <2>1. generator \notin {"none", "baseline"}
      BY <1>7 DEF RunProgram, ReleaseInv, InProgress, Writers, Generators
    <2> QED
      BY <1>7, <2>1 DEF RunProgram, FilesTyped, BehindTyped, CommandTyped
  <1>8. CASE ManifestIncomplete
    BY <1>8, EndTyped DEF ManifestIncomplete, FilesTyped, BehindTyped
  <1>9. CASE Build
    <2>1. FilesTyped' /\ BehindTyped' /\ moment = "programs"
      BY <1>9 DEF Build, FilesTyped, BehindTyped
    <2>2. DocumentOf(generator).kind \in DocumentKinds
      <3>1. generator \in Writers
        BY <2>1 DEF ReleaseInv, InProgress
      <3> QED
        BY <3>1, DocumentOfMade, KindsMade
    <2>3. CommandTyped'
      <3>1. CASE End("refused")
        BY <3>1, EndTyped
      <3>2. CASE ~End("refused")
        BY <1>9, <2>1, <2>2, <3>2 DEF Build, CommandTyped
      <3> QED
        BY <3>1, <3>2
    <2> QED
      BY <2>1, <2>3
  <1>10. CASE Write
    <2>1. generator \in Generators /\ pending.kind \in DocumentKinds
      BY <1>10 DEF Write, CommandTyped
    <2>2. FilesTyped'
      BY <1>10, <2>1, FileReplaced, FilesNamed DEF Write
    <2>3. BehindTyped'
      <3>1. Len(outcomes) <= Len(Programs(generator))
        BY OutcomesBounded
      <3> QED
        BY <1>10, <2>1, <3>1 DEF Write, BehindTyped
    <2>4. CommandTyped'
      BY <1>10, EndTyped DEF Write
    <2> QED
      BY <2>2, <2>3, <2>4
  <1>11. CASE Kill
    <2>1. generator \in Generators
      BY <1>11 DEF Kill, CommandTyped
    <2>2. FilesTyped'
      <3>1. CASE docs' = docs
        BY <3>1 DEF FilesTyped
      <3>2. CASE docs' # docs
        BY <1>11, <2>1, <3>2, FileReplaced, FilesNamed DEF Kill
      <3> QED
        BY <3>1, <3>2
    <2> QED
      BY <1>11, <2>2, EndTyped DEF Kill, BehindTyped
  <1>12. CASE EditPlan
    <2>1. PICK plan \in ReleasePlans : docs' = [docs EXCEPT !["m5-release-plan"] = plan]
      BY <1>12 DEF EditPlan
    <2>2. plan.kind \in DocumentKinds
      BY ReleaseAssumption DEF DocumentKinds
    <2>3. FilesTyped'
      BY <2>1, <2>2, FileReplaced
    <2>4. generations' \in 0..MaxGenerations
      BY <1>12, ReleaseAssumption DEF EditPlan, CommandTyped
    <2> QED
      BY <1>12, <2>3, <2>4 DEF EditPlan, BehindTyped, CommandTyped
  <1>13. CASE UNCHANGED releaseVars
    BY <1>13 DEF releaseVars, FilesTyped, BehindTyped, CommandTyped
  <1> QED
    BY <1>3, <1>4, <1>5, <1>6, <1>7, <1>8, <1>9, <1>10, <1>11, <1>12, <1>13 DEF ReleaseNext

(* Every variable of ReleaseEvidence keeps its type: no program answers    *)
(* twice, no document is of an unknown kind, and the evidence of platforms *)
(* that M4 asks for is still nobody's to write.                            *)
THEOREM ReleaseTypeCorrect == ReleaseSpec => []ReleaseTypeOK
  <1>1. ReleaseSpec => [](ReleaseInv /\ ReleaseTyped)
    BY ReleaseInitInv, ReleaseStepInv, ReleaseInitTyped, ReleaseStepTyped, PTL DEF ReleaseSpec
  <1> QED
    BY <1>1, ReleaseTypedEnough, PTL

=============================================================================
