------------------------ MODULE TerminalScreenProofs ------------------------
(***************************************************************************)
(* What the functions of TerminalScreen return, for any rows: the bytes of *)
(* rows, the trimmed scrollback and the reflow of the primary screen.      *)
(***************************************************************************)
EXTENDS TerminalScreen, FoldProofs

-----------------------------------------------------------------------------
(* The types of the data.                                                  *)

RowSet == [id : Nat \ {0}, gen : Nat, cells : Seq(Cells), wrapped : BOOLEAN]

LEMMA RowParts ==
    ASSUME NEW row \in RowSet
    PROVE  /\ row.id \in Nat \ {0} /\ row.gen \in Nat
           /\ row.cells \in Seq(Cells) /\ Len(row.cells) \in Nat
           /\ row.wrapped \in BOOLEAN
  BY DEF RowSet

LEMMA LeastOf ==
    \A a, b \in Nat : /\ Least(a, b) \in Nat /\ Least(a, b) <= a /\ Least(a, b) <= b
                      /\ Least(a, b) = a \/ Least(a, b) = b
  BY DEF Least

LEMMA GreatestOf ==
    \A a, b \in Nat : /\ Greatest(a, b) \in Nat /\ Greatest(a, b) >= a /\ Greatest(a, b) >= b
                      /\ Greatest(a, b) = a \/ Greatest(a, b) = b
  BY DEF Greatest

LEMMA MonusOf ==
    \A a, b \in Nat : /\ Monus(a, b) \in Nat
                      /\ a >= b => Monus(a, b) = a - b
                      /\ a <= b => Monus(a, b) = 0
  BY DEF Monus, Greatest

LEMMA RowBytesType ==
    ASSUME NEW row \in RowSet
    PROVE  RowBytes(row) \in Nat \ {0}
  BY DEF RowSet, RowBytes

(* The bytes of rows are added up row by row.                              *)
LEMMA RowsBytesChain ==
    ASSUME NEW rows \in Seq(RowSet)
    PROVE  \E h \in [0..Len(rows) -> Nat] :
              /\ h[0] = 0 /\ h[Len(rows)] = RowsBytes(rows)
              /\ \A k \in 1..Len(rows) : h[k] = h[k - 1] + RowBytes(rows[k])
  <1> DEFINE op == [p \in Nat \X RowSet |-> p[1] + RowBytes(p[2])]
             F(g) == [s \in SUBSET (DOMAIN rows) |->
                        IF s = {} THEN 0 ELSE g[s \ {Max(s)}] + RowBytes(rows[Max(s)])]
             it == CHOOSE g : g = F(g)
  <1>1. op \in [Nat \X RowSet -> Nat]
    BY RowBytesType
  <1>2. \A a \in Nat, e \in RowSet : op[<<a, e>>] = a + RowBytes(e)
    OBVIOUS
  <1> HIDE DEF op
  <1>3. Foldable(Nat, RowSet, op, 0, rows)
    BY <1>1 DEF Foldable
  <1>4. PICK g : IterationOnA(g, Nat, RowSet, op, 0, rows)
    BY <1>3, IterationOnAExists
  <1>5. g = F(g)
    BY <1>2, <1>4 DEF IterationOnA
  <1>6. it = F(it)
    BY <1>5
  <1>7. RowsBytes(rows) = it[DOMAIN rows]
    BY DEF RowsBytes, FoldLeft, MapThenFoldSet
  <1> HIDE DEF it
  <1>8. Folds(it, Nat, RowSet, op, 0, rows)
    BY <1>2, <1>3, <1>4, <1>6 DEF Folds, IterationOnA
  <1>9. PICK h : Chain(h, Nat, op, 0, rows, it[DOMAIN rows])
    BY <1>8, ChainOfFold
  <1>10. \A k \in 1..Len(rows) : h[k - 1] \in Nat /\ rows[k] \in RowSet
    BY <1>9 DEF Chain
  <1> QED
    BY <1>2, <1>7, <1>9, <1>10 DEF Chain

LEMMA RowsBytesConcat ==
    ASSUME NEW a \in Seq(RowSet), NEW b \in Seq(RowSet)
    PROVE  /\ RowsBytes(a \o b) = RowsBytes(a) + RowsBytes(b)
           /\ RowsBytes(a) \in Nat /\ RowsBytes(b) \in Nat
  <1> DEFINE n == Len(a)  m == Len(b)  c == a \o b
  <1>0. /\ n \in Nat /\ m \in Nat /\ c \in Seq(RowSet) /\ Len(c) = n + m
        /\ \A i \in 1..n : c[i] = a[i] /\ a[i] \in RowSet
        /\ \A i \in 1..m : c[n + i] = b[i] /\ b[i] \in RowSet
    OBVIOUS
  <1>1. PICK f \in [0..n -> Nat] :
              /\ f[0] = 0 /\ f[n] = RowsBytes(a)
              /\ \A k \in 1..n : f[k] = f[k - 1] + RowBytes(a[k])
    BY RowsBytesChain
  <1>2. PICK g \in [0..m -> Nat] :
              /\ g[0] = 0 /\ g[m] = RowsBytes(b)
              /\ \A k \in 1..m : g[k] = g[k - 1] + RowBytes(b[k])
    BY RowsBytesChain
  <1> HIDE DEF n, m, c
  <1>31. PICK h \in [0..Len(c) -> Nat] :
              /\ h[0] = 0 /\ h[Len(c)] = RowsBytes(c)
              /\ \A k \in 1..Len(c) : h[k] = h[k - 1] + RowBytes(c[k])
    BY <1>0, RowsBytesChain
  <1>3. /\ h \in [0..(n + m) -> Nat]
        /\ h[0] = 0 /\ h[n + m] = RowsBytes(c)
        /\ \A k \in 1..(n + m) : h[k] = h[k - 1] + RowBytes(c[k])
    BY <1>0, <1>31
  <1>4. \A i \in 1..n : RowBytes(a[i]) \in Nat
    BY <1>0, RowBytesType
  <1>5. \A i \in 1..m : RowBytes(b[i]) \in Nat
    BY <1>0, RowBytesType
  <1>6. h[n] = f[n]
    <2> DEFINE T == {k \in 0..n : h[k] = f[k]}
    <2>1. 0 \in T
      BY <1>0, <1>1, <1>3
    <2>2. ASSUME NEW k \in 1..n, k - 1 \in T PROVE k \in T
      <3>0. c[k] = a[k]
        BY <1>0
      <3>1. k \in 1..(n + m) /\ k \in 0..n /\ c[k] = a[k]
        <4>1. n \in Nat /\ m \in Nat
          BY <1>0
        <4> QED
          BY <3>0, <4>1
      <3>2. h[k] = h[k - 1] + RowBytes(a[k]) /\ f[k] = f[k - 1] + RowBytes(a[k])
        BY <1>1, <1>3, <3>1
      <3> QED
        BY <2>2, <3>1, <3>2
    <2>3. \A k \in 0..n : k \in T
      <3> HIDE DEF T
      <3> QED
        BY <1>0, <2>1, <2>2, UpTo
    <2> QED
      BY <1>0, <2>3
  <1>7. h[n + m] = f[n] + g[m]
    <2> DEFINE T == {k \in 0..m : h[n + k] = f[n] + g[k]}
    <2>0. f[n] \in Nat
      BY <1>0, <1>1
    <2>1. 0 \in T
      BY <1>0, <1>2, <1>6, <2>0
    <2>2. ASSUME NEW k \in 1..m, k - 1 \in T PROVE k \in T
      <3>1. n + k \in 1..(n + m) /\ (n + k) - 1 = n + (k - 1) /\ k \in 0..m /\ c[n + k] = b[k]
            /\ k - 1 \in 0..m
        BY <1>0
      <3>2. h[n + k] = h[n + (k - 1)] + RowBytes(b[k]) /\ g[k] = g[k - 1] + RowBytes(b[k])
        BY <1>2, <1>3, <3>1
      <3>3. g[k - 1] \in Nat /\ RowBytes(b[k]) \in Nat
        BY <1>2, <1>5, <3>1
      <3> QED
        BY <2>0, <2>2, <3>1, <3>2, <3>3
    <2>3. \A k \in 0..m : k \in T
      <3> HIDE DEF T
      <3> QED
        BY <1>0, <2>1, <2>2, UpTo
    <2> QED
      BY <1>0, <2>3
  <1>8. f[n] \in Nat /\ g[m] \in Nat
    BY <1>0, <1>1, <1>2
  <1> QED
    BY <1>1, <1>2, <1>3, <1>7, <1>8 DEF c

LEMMA RowsBytesAppend ==
    ASSUME NEW rows \in Seq(RowSet), NEW row \in RowSet
    PROVE  RowsBytes(Append(rows, row)) = RowsBytes(rows) + RowBytes(row)
  <1>1. <<row>> \in Seq(RowSet) /\ Append(rows, row) = rows \o <<row>> /\ Len(<<row>>) = 1
        /\ <<row>>[1] = row
    OBVIOUS
  <1>2. PICK h \in [0..1 -> Nat] :
              /\ h[0] = 0 /\ h[1] = RowsBytes(<<row>>)
              /\ \A k \in 1..1 : h[k] = h[k - 1] + RowBytes(<<row>>[k])
    BY <1>1, RowsBytesChain
  <1>3. h[1] = h[0] + RowBytes(row)
    BY <1>1, <1>2
  <1>4. RowsBytes(<<row>>) = RowBytes(row)
    BY <1>2, <1>3, RowBytesType
  <1> QED
    BY <1>1, <1>4, RowsBytesConcat

LEMMA RowsBytesSplit ==
    ASSUME NEW rows \in Seq(RowSet), NEW k \in 0..Len(rows)
    PROVE  LET front == SubSeq(rows, 1, k)
               back  == SubSeq(rows, k + 1, Len(rows))
           IN  /\ front \in Seq(RowSet) /\ Len(front) = k
               /\ back \in Seq(RowSet) /\ Len(back) = Len(rows) - k
               /\ RowsBytes(rows) = RowsBytes(front) + RowsBytes(back)
               /\ RowsBytes(front) \in Nat /\ RowsBytes(back) \in Nat
  <1> DEFINE front == SubSeq(rows, 1, k)
             back == SubSeq(rows, k + 1, Len(rows))
  <1>1. front \in Seq(RowSet) /\ Len(front) = k
    OBVIOUS
  <1>2. back \in Seq(RowSet) /\ Len(back) = Len(rows) - k
    OBVIOUS
  <1>3. rows = front \o back
    <2>1. SubSeq(rows, 1, k) \o SubSeq(rows, k + 1, Len(rows)) = SubSeq(rows, 1, Len(rows))
      <3>1. Len(rows) \in Nat
        OBVIOUS
      <3>2. 1 \in 1..(Len(rows) + 1) /\ k \in (1 - 1)..Len(rows) /\ Len(rows) \in k..Len(rows)
        BY <3>1
      <3> QED
        BY <3>2, ConcatAdjacentSubSeq
    <2> QED
      BY <2>1, SubSeqFull
  <1> HIDE DEF front, back
  <1>4. RowsBytes(front \o back) = RowsBytes(front) + RowsBytes(back)
        /\ RowsBytes(front) \in Nat /\ RowsBytes(back) \in Nat
    BY <1>1, <1>2, RowsBytesConcat
  <1> QED
    BY <1>1, <1>2, <1>3, <1>4 DEF front, back

LEMMA RowsBytesEmpty == RowsBytes(<<>>) = 0
  <1>1. <<>> \in Seq(RowSet) /\ <<>> \o <<>> = <<>>
    OBVIOUS
  <1>2. RowsBytes(<<>>) = RowsBytes(<<>>) + RowsBytes(<<>>) /\ RowsBytes(<<>>) \in Nat
    BY <1>1, RowsBytesConcat
  <1> QED
    BY <1>2

-----------------------------------------------------------------------------
(* The scrollback.                                                         *)

(* The scrollback holds the bytes it says, within its budgets.             *)
Bounded(sb) ==
    /\ sb.bytes = RowsBytes(sb.rows) /\ sb.bytes <= MaxBytes
    /\ Len(sb.rows) <= MaxLines

Scrollbacks == [rows : Seq(RowSet), bytes : Nat]

(* Trimming keeps a suffix that fits.                                      *)
LEMMA TrimKeepsSuffix ==
    ASSUME NEW sb \in Scrollbacks, sb.bytes = RowsBytes(sb.rows)
    PROVE  /\ trim(sb) \in Scrollbacks /\ Bounded(trim(sb))
           /\ \E k \in 0..Len(sb.rows) : trim(sb).rows = SubSeq(sb.rows, k + 1, Len(sb.rows))
  <1> DEFINE n == Len(sb.rows)
             left(k) == Monus(sb.bytes, RowsBytes(SubSeq(sb.rows, 1, k)))
             fits == {k \in 0..n : n - k <= MaxLines /\ left(k) <= MaxBytes}
             least == CHOOSE i \in fits : \A j \in fits : i <= j
  <1>0. n \in Nat /\ sb.rows \in Seq(RowSet) /\ sb.bytes \in Nat
    BY DEF Scrollbacks
  <1>1. ASSUME NEW k \in 0..n
        PROVE  /\ SubSeq(sb.rows, k + 1, n) \in Seq(RowSet)
               /\ Len(SubSeq(sb.rows, k + 1, n)) = n - k
               /\ left(k) = RowsBytes(SubSeq(sb.rows, k + 1, n)) /\ left(k) \in Nat
    <2>1. /\ RowsBytes(sb.rows) = RowsBytes(SubSeq(sb.rows, 1, k))
                                    + RowsBytes(SubSeq(sb.rows, k + 1, n))
          /\ RowsBytes(SubSeq(sb.rows, 1, k)) \in Nat
          /\ RowsBytes(SubSeq(sb.rows, k + 1, n)) \in Nat
      BY <1>0, RowsBytesSplit
    <2>2. \A a, b \in Nat : Monus(a + b, a) = b
      BY DEF Monus, Greatest
    <2>3. left(k) = RowsBytes(SubSeq(sb.rows, k + 1, n))
      BY <2>1, <2>2
    <2> QED
      BY <1>0, <2>1, <2>3
  <1>2. n \in fits
    <2>1. SubSeq(sb.rows, n + 1, n) = <<>>
      BY <1>0
    <2>2. left(n) = 0
      <3>1. n \in 0..n
        BY <1>0
      <3>2. left(n) = RowsBytes(SubSeq(sb.rows, n + 1, n))
        BY <1>1, <3>1
      <3> QED
        BY <2>1, <3>2, RowsBytesEmpty
    <2> QED
      BY <1>0, <2>2, ScrollbackAssumption
  <1>3. least \in fits
    <2>1. fits \subseteq Nat /\ fits # {}
      BY <1>0, <1>2
    <2> HIDE DEF fits
    <2>2. \E i \in fits : \A j \in fits : i <= j
      BY <2>1, LeastElement
    <2> QED
      BY <2>2
  <1>4. trim(sb) = [rows |-> SubSeq(sb.rows, least + 1, n), bytes |-> left(least)]
    BY DEF trim
  <1> HIDE DEF least
  <1>5. least \in 0..n /\ n - least <= MaxLines /\ left(least) <= MaxBytes
    BY <1>3
  <1> HIDE DEF left
  <1>6. trim(sb) \in Scrollbacks
    BY <1>1, <1>4, <1>5 DEF Scrollbacks
  <1>7. Bounded(trim(sb))
    BY <1>1, <1>4, <1>5 DEF Bounded
  <1> QED
    BY <1>4, <1>5, <1>6, <1>7

-----------------------------------------------------------------------------
(* Rows and what is made of them.                                          *)

(* Every row has as many cells as the screen has columns.                  *)
Sized(rows, columns) == \A i \in DOMAIN rows : Len(rows[i].cells) = columns

LEMMA EmptyCellType == EmptyCell \in Cells
  BY DEF EmptyCell, Cell, Cells

LEMMA ResizedType ==
    ASSUME NEW cells \in Seq(Cells), NEW columns \in Nat
    PROVE  Resized(cells, columns) \in Seq(Cells) /\ Len(Resized(cells, columns)) = columns
  BY EmptyCellType DEF Resized

LEMMA BlankRowType ==
    ASSUME NEW columns \in Nat, NEW id \in Nat \ {0}
    PROVE  /\ blank_row(columns, id) \in RowSet /\ Len(blank_row(columns, id).cells) = columns
           /\ blank_row(columns, id).id = id
  <1>1. Resized(<<>>, columns) \in Seq(Cells) /\ Len(Resized(<<>>, columns)) = columns
    BY ResizedType, <<>> \in Seq(Cells)
  <1> QED
    BY <1>1 DEF blank_row, RowSet

LEMMA FunctionIsSeq ==
    ASSUME NEW S, NEW n \in Nat, NEW f \in [1..n -> S]
    PROVE  f \in Seq(S) /\ Len(f) = n /\ DOMAIN f = 1..n
  OBVIOUS

LEMMA BlankRowsType ==
    ASSUME NEW n \in Nat, NEW columns \in Nat, NEW id \in Nat \ {0}
    PROVE  /\ BlankRows(n, columns, id) \in Seq(RowSet) /\ Len(BlankRows(n, columns, id)) = n
           /\ Sized(BlankRows(n, columns, id), columns)
           /\ \A i \in 1..n : BlankRows(n, columns, id)[i].id = id + i - 1
  <1> DEFINE rows == BlankRows(n, columns, id)
  <1>1. ASSUME NEW i \in 1..n
        PROVE  id + i - 1 \in Nat \ {0}
    OBVIOUS
  <1>2. rows = [i \in 1..n |-> blank_row(columns, id + i - 1)]
    BY DEF BlankRows
  <1>3. \A i \in 1..n : rows[i] \in RowSet /\ Len(rows[i].cells) = columns
                        /\ rows[i].id = id + i - 1
    BY <1>1, <1>2, BlankRowType
  <1>4. rows \in Seq(RowSet) /\ Len(rows) = n /\ DOMAIN rows = 1..n
    <2>1. rows \in [1..n -> RowSet]
      BY <1>2, <1>3
    <2> HIDE DEF rows
    <2> QED
      BY <2>1, FunctionIsSeq
  <1> QED
    BY <1>3, <1>4 DEF Sized

LEMMA ResizeWidthType ==
    ASSUME NEW row \in RowSet, NEW columns \in Nat
    PROVE  LET new == resize_width(row, columns) IN
           /\ new \in RowSet /\ Len(new.cells) = columns
           /\ new.id = row.id /\ new.gen = row.gen + 1
  <1>1. row.cells \in Seq(Cells)
    BY DEF RowSet
  <1>2. Resized(row.cells, columns) \in Seq(Cells) /\ Len(Resized(row.cells, columns)) = columns
    BY <1>1, ResizedType
  <1> DEFINE new == resize_width(row, columns)
  <1>3. new = [row EXCEPT !.gen = row.gen + 1, !.cells = Resized(row.cells, columns),
                          !.wrapped = FALSE]
    BY DEF resize_width
  <1>4. /\ new.id = row.id /\ new.gen = row.gen + 1 /\ new.cells = Resized(row.cells, columns)
        /\ new.wrapped = FALSE
    BY <1>3 DEF RowSet
  <1>5. new \in RowSet
    <2>1. new = [id |-> row.id, gen |-> row.gen + 1, cells |-> Resized(row.cells, columns),
                 wrapped |-> FALSE]
      BY <1>3 DEF RowSet
    <2>2. row.id \in Nat \ {0} /\ row.gen + 1 \in Nat
      BY DEF RowSet
    <2> HIDE DEF new
    <2> QED
      BY <1>2, <2>1, <2>2 DEF RowSet
  <1> QED
    BY <1>2, <1>4, <1>5

(* A suffix of rows.                                                       *)
LEMMA SuffixRows ==
    ASSUME NEW rows \in Seq(RowSet), NEW k \in 0..Len(rows)
    PROVE  LET back == SubSeq(rows, k + 1, Len(rows)) IN
           /\ back \in Seq(RowSet) /\ Len(back) = Len(rows) - k
           /\ \A i \in 1..Len(rows) - k : back[i] = rows[i + k]
  OBVIOUS

(* What is pushed drops rows from the front at most.                       *)
LEMMA PushKeepsSuffix ==
    ASSUME NEW sb \in Scrollbacks, Bounded(sb), NEW row \in RowSet
    PROVE  LET next == push(sb, row) IN
           /\ next \in Scrollbacks /\ Bounded(next)
           /\ \/ next.rows = sb.rows
              \/ \E k \in 0..Len(sb.rows) + 1 :
                    next.rows = SubSeq(Append(sb.rows, row), k + 1, Len(sb.rows) + 1)
  <1> DEFINE more == [rows |-> Append(sb.rows, row), bytes |-> sb.bytes + RowBytes(row)]
  <1>1. sb.rows \in Seq(RowSet) /\ sb.bytes \in Nat /\ sb.bytes = RowsBytes(sb.rows)
    BY DEF Scrollbacks, Bounded
  <1>2. Append(sb.rows, row) \in Seq(RowSet) /\ Len(Append(sb.rows, row)) = Len(sb.rows) + 1
    BY <1>1
  <1>3. more \in Scrollbacks /\ more.bytes = RowsBytes(more.rows)
    BY <1>1, <1>2, RowBytesType, RowsBytesAppend DEF Scrollbacks
  <1>4. /\ trim(more) \in Scrollbacks /\ Bounded(trim(more))
        /\ \E k \in 0..Len(more.rows) : trim(more).rows = SubSeq(more.rows, k + 1, Len(more.rows))
    <2> HIDE DEF more
    <2> QED
      BY <1>3, TrimKeepsSuffix
  <1> QED
    BY <1>2, <1>4 DEF push

LEMMA ReplaceKeepsSuffix ==
    ASSUME NEW rows \in Seq(RowSet)
    PROVE  LET next == replace_rows(rows) IN
           /\ next \in Scrollbacks /\ Bounded(next)
           /\ \E k \in 0..Len(rows) : next.rows = SubSeq(rows, k + 1, Len(rows))
  <1> DEFINE sb == [rows |-> rows, bytes |-> RowsBytes(rows)]
  <1>1. sb \in Scrollbacks /\ sb.bytes = RowsBytes(sb.rows)
    <2>1. RowsBytes(rows) \in Nat
      BY RowsBytesConcat
    <2> QED
      BY <2>1 DEF Scrollbacks
  <1>2. /\ trim(sb) \in Scrollbacks /\ Bounded(trim(sb))
        /\ \E k \in 0..Len(sb.rows) : trim(sb).rows = SubSeq(sb.rows, k + 1, Len(sb.rows))
    <2> HIDE DEF sb
    <2> QED
      BY <1>1, TrimKeepsSuffix
  <1> QED
    BY <1>2 DEF replace_rows

LEMMA PopBackKeepsPrefix ==
    ASSUME NEW sb \in Scrollbacks, Bounded(sb), NEW n \in 0..Len(sb.rows)
    PROVE  LET next == pop_back(sb, n) IN
           /\ next \in Scrollbacks /\ Bounded(next)
           /\ next.rows = SubSeq(sb.rows, 1, Len(sb.rows) - n)
  <1> DEFINE kept == Len(sb.rows) - n
             front == SubSeq(sb.rows, 1, kept)
             back == SubSeq(sb.rows, kept + 1, Len(sb.rows))
  <1>1. sb.rows \in Seq(RowSet) /\ sb.bytes = RowsBytes(sb.rows) /\ sb.bytes <= MaxBytes
        /\ Len(sb.rows) <= MaxLines /\ kept \in 0..Len(sb.rows)
    BY DEF Scrollbacks, Bounded
  <1>2. /\ front \in Seq(RowSet) /\ Len(front) = kept
        /\ RowsBytes(sb.rows) = RowsBytes(front) + RowsBytes(back)
        /\ RowsBytes(front) \in Nat /\ RowsBytes(back) \in Nat
    BY <1>1, RowsBytesSplit
  <1>3. pop_back(sb, n) = [rows |-> front, bytes |-> Monus(sb.bytes, RowsBytes(back))]
    BY DEF pop_back
  <1> HIDE DEF front, back
  <1>4. Monus(sb.bytes, RowsBytes(back)) = RowsBytes(front)
    BY <1>1, <1>2 DEF Monus, Greatest
  <1> QED
    BY <1>1, <1>2, <1>3, <1>4, ScrollbackAssumption DEF Scrollbacks, Bounded, front

-----------------------------------------------------------------------------
(* The reflow: logical lines.                                              *)

Handles == [id : Nat \ {0}, gen : Nat]
Lines ==
    [cells : Seq(Cells), handles : Seq(Handles), cursor : Nat \cup {-1}, pending : BOOLEAN]

(* No two handles of the lines have the same id; each is that of a row.    *)
OwnHandles(lines) ==
    \A l, m \in DOMAIN lines :
      \A p \in DOMAIN lines[l].handles, q \in DOMAIN lines[m].handles :
        lines[l].handles[p].id = lines[m].handles[q].id => l = m /\ p = q

LEMMA SameHandle ==
    ASSUME NEW lines, OwnHandles(lines), NEW l \in DOMAIN lines, NEW m \in DOMAIN lines,
           NEW p \in DOMAIN lines[l].handles, NEW q \in DOMAIN lines[m].handles,
           lines[l].handles[p].id = lines[m].handles[q].id
    PROVE  l = m /\ p = q
  BY DEF OwnHandles

HandlesFrom(lines, rows, k) ==
    \A l \in DOMAIN lines : \A p \in DOMAIN lines[l].handles :
      \E j \in 1..k : /\ lines[l].handles[p].id = rows[j].id
                      /\ lines[l].handles[p].gen = rows[j].gen

Inj(rows) == \A i, j \in DOMAIN rows : rows[i].id = rows[j].id => i = j
Below(rows, id) == \A i \in DOMAIN rows : rows[i].id < id

LEMMA OccupiedWithin ==
    ASSUME NEW cells \in Seq(Cells)
    PROVE  /\ occupied_cell_count(cells) \in 0..Len(cells)
           /\ \A i \in DOMAIN cells : i > occupied_cell_count(cells) => cells[i] = EmptyCell
  <1> DEFINE occupied == {i \in DOMAIN cells : cells[i] # EmptyCell}
  <1>1. Len(cells) \in Nat /\ occupied \in SUBSET (1..Len(cells))
    OBVIOUS
  <1>2. CASE occupied = {}
    BY <1>1, <1>2 DEF occupied_cell_count
  <1>3. CASE occupied # {}
    <2>1. Max(occupied) \in occupied /\ \A y \in occupied : Max(occupied) >= y
      BY <1>1, <1>3, MaxIn
    <2>2. \A y \in occupied : y \in 1..Len(cells)
      BY <1>1
    <2>3. \A j \in occupied : j <= Max(occupied)
      BY <1>1, <2>1, <2>2
    <2> DEFINE count == occupied_cell_count(cells)
    <2>4. count \in occupied /\ \A j \in occupied : j <= count
      BY <1>3, <2>1, <2>3 DEF occupied_cell_count
    <2> HIDE DEF count
    <2>5. \A i \in DOMAIN cells : i > count => cells[i] = EmptyCell
      <3>1. \A i \in DOMAIN cells : i \in Nat /\ (i \notin occupied => cells[i] = EmptyCell)
        BY <1>1
      <3>2. \A i \in occupied : ~(i > count)
        BY <2>2, <2>4
      <3> QED
        BY <3>1, <3>2
    <2> QED
      BY <1>1, <2>2, <2>4, <2>5 DEF count
  <1> QED
    BY <1>2, <1>3

LEMMA SegmentWithin ==
    ASSUME NEW row \in RowSet, NEW cur \in Lines, NEW columns \in Nat, NEW extent \in Nat
    PROVE  /\ SegmentLength(row, cur, columns, extent) \in 0..Len(row.cells)
           /\ occupied_cell_count(row.cells) <= SegmentLength(row, cur, columns, extent)
  <1>1. row.cells \in Seq(Cells) /\ Len(row.cells) \in Nat
    BY DEF RowSet
  <1>2. occupied_cell_count(row.cells) \in 0..Len(row.cells)
    BY <1>1, OccupiedWithin
  <1> QED
    BY <1>1, <1>2 DEF SegmentLength, Least, Greatest

(* One row more of logical_lines.                                          *)
LineStep(rows, cursorRow, cursorColumn, pending, columns, acc, i) ==
    LET row  == rows[i]
        n    == Len(row.cells)
        cur  == acc.cur
        here == i - 1 = cursorRow
        extent == IF ~here THEN 0
                  ELSE IF pending THEN n ELSE Least(cursorColumn, n)
        offset == Len(cur.cells) +
                    (IF pending THEN Monus(n, 1) ELSE Least(cursorColumn, n))
        line == [cells   |-> cur.cells \o SubSeq(row.cells, 1,
                               SegmentLength(row, cur, columns, extent)),
                 handles |-> Append(cur.handles, [id |-> row.id, gen |-> row.gen]),
                 cursor  |-> IF here THEN offset ELSE cur.cursor,
                 pending |-> IF here THEN pending ELSE cur.pending]
    IN  IF row.wrapped THEN [acc EXCEPT !.cur = line]
        ELSE [lines |-> Append(acc.lines, line), cur |-> NoLine]

Gathered == [lines : Seq(Lines), cur : Lines]

AddsHandle(acc, next, row) ==
    \E line \in Lines :
      /\ line.handles = Append(acc.cur.handles, [id |-> row.id, gen |-> row.gen])
      /\ \/ next.lines = acc.lines /\ next.cur = line
         \/ next.lines = Append(acc.lines, line) /\ next.cur = NoLine

(* It adds the row's handle to the current line, which may then be closed. *)
LEMMA LineStepType ==
    ASSUME NEW rows \in Seq(RowSet), NEW cursorRow \in Nat, NEW cursorColumn \in Nat,
           NEW pending \in BOOLEAN, NEW columns \in Nat,
           NEW acc \in Gathered, NEW i \in 1..Len(rows)
    PROVE  LET next == LineStep(rows, cursorRow, cursorColumn, pending, columns, acc, i) IN
           next \in Gathered /\ AddsHandle(acc, next, rows[i])
  <1> DEFINE row  == rows[i]
             n    == Len(row.cells)
             cur  == acc.cur
             here == i - 1 = cursorRow
             extent == IF ~here THEN 0
                       ELSE IF pending THEN n ELSE Least(cursorColumn, n)
             offset == Len(cur.cells) +
                         (IF pending THEN Monus(n, 1) ELSE Least(cursorColumn, n))
             segment == SubSeq(row.cells, 1, SegmentLength(row, cur, columns, extent))
             handle == [id |-> row.id, gen |-> row.gen]
             line == [cells   |-> cur.cells \o segment,
                      handles |-> Append(cur.handles, handle),
                      cursor  |-> IF here THEN offset ELSE cur.cursor,
                      pending |-> IF here THEN pending ELSE cur.pending]
             next == LineStep(rows, cursorRow, cursorColumn, pending, columns, acc, i)
  <1>0. row \in RowSet
    BY ElementOfSeq
  <1>1. row \in RowSet /\ row.cells \in Seq(Cells) /\ n \in Nat /\ handle \in Handles
    BY <1>0, RowParts DEF Handles
  <1>2. cur \in Lines /\ acc.lines \in Seq(Lines)
    BY DEF Gathered
  <1>3. cur.cells \in Seq(Cells) /\ cur.handles \in Seq(Handles)
        /\ cur.cursor \in Nat \cup {-1} /\ cur.pending \in BOOLEAN
    BY <1>2 DEF Lines
  <1>4. NoLine \in Lines
    BY DEF NoLine, Lines
  <1>5. next = IF row.wrapped THEN [acc EXCEPT !.cur = line]
               ELSE [lines |-> Append(acc.lines, line), cur |-> NoLine]
    BY DEF LineStep
  <1>6. extent \in Nat /\ offset \in Nat
    <2>1. Least(cursorColumn, n) \in Nat /\ Monus(n, 1) \in Nat
      BY <1>1, LeastOf, MonusOf
    <2>2. Len(cur.cells) \in Nat
      BY <1>3
    <2> QED
      BY <1>1, <2>1, <2>2
  <1>7. SegmentLength(row, cur, columns, extent) \in 0..n
    BY <1>1, <1>2, <1>6, SegmentWithin
  <1>8. segment \in Seq(Cells)
    BY <1>1, <1>7
  <1> HIDE DEF segment, offset, handle, row, cur, here
  <1>9. line \in Lines
    <2>1. cur.cells \o segment \in Seq(Cells) /\ Append(cur.handles, handle) \in Seq(Handles)
      BY <1>1, <1>3, <1>8
    <2>2. (IF here THEN offset ELSE cur.cursor) \in Nat \cup {-1}
      BY <1>3, <1>6
    <2>3. (IF here THEN pending ELSE cur.pending) \in BOOLEAN
      BY <1>3
    <2> QED
      BY <2>1, <2>2, <2>3 DEF Lines
  <1>10. line.handles = Append(cur.handles, handle)
    OBVIOUS
  <1> HIDE DEF line
  <1>11. next \in Gathered
    BY <1>2, <1>4, <1>5, <1>9 DEF Gathered
  <1>12. \/ next.lines = acc.lines /\ next.cur = line
         \/ next.lines = Append(acc.lines, line) /\ next.cur = NoLine
    BY <1>5 DEF Gathered
  <1> QED
    BY <1>9, <1>10, <1>11, <1>12 DEF cur, handle, row, AddsHandle

(* The lines gathered so far and the one that is being gathered.           *)
LEMMA HandleAdded ==
    ASSUME NEW rows, NEW i \in Nat \ {0}, NEW lines \in Seq(Lines), NEW cur \in Lines,
           NEW line \in Lines, NEW handle \in Handles,
           line.handles = Append(cur.handles, handle),
           handle.id = rows[i].id, handle.gen = rows[i].gen,
           \A j \in 1..(i - 1) : rows[j].id # rows[i].id,
           OwnHandles(Append(lines, cur)), HandlesFrom(Append(lines, cur), rows, i - 1)
    PROVE  /\ OwnHandles(Append(lines, line))
           /\ HandlesFrom(Append(lines, line), rows, i)
  <1> DEFINE n == Len(lines)
             h == Len(cur.handles)
             old == Append(lines, cur)
             new == Append(lines, line)
  <1>1. /\ n \in Nat /\ DOMAIN old = 1..(n + 1) /\ DOMAIN new = 1..(n + 1)
        /\ old[n + 1] = cur /\ new[n + 1] = line
        /\ \A l \in 1..n : old[l] = new[l] /\ new[l] \in Lines
    BY AppendProperties
  <1>2. cur.handles \in Seq(Handles)
    BY DEF Lines
  <1>3. /\ h \in Nat /\ DOMAIN cur.handles = 1..h /\ DOMAIN line.handles = 1..(h + 1)
        /\ line.handles[h + 1] = handle
        /\ \A p \in 1..h : line.handles[p] = cur.handles[p]
    BY <1>2, AppendProperties
  <1> HIDE DEF n, h, old, new
  <1>4. ASSUME NEW l \in DOMAIN new, NEW p \in DOMAIN new[l].handles, l # n + 1 \/ p # h + 1
        PROVE  /\ l \in DOMAIN old /\ p \in DOMAIN old[l].handles
               /\ new[l].handles[p] = old[l].handles[p]
    <2>1. l \in 1..(n + 1)
      BY <1>1
    <2>2. CASE l # n + 1
      <3>1. l \in 1..n
        BY <1>1, <2>1, <2>2
      <3> QED
        BY <1>1, <2>1, <3>1
    <2>3. CASE l = n + 1
      <3>1. new[l] = line /\ old[l] = cur
        BY <1>1, <2>3
      <3>2. p \in 1..(h + 1) /\ p # h + 1
        BY <1>3, <1>4, <2>3, <3>1
      <3>3. p \in 1..h
        BY <1>3, <3>2
      <3> QED
        BY <1>1, <1>3, <2>1, <3>1, <3>3
    <2> QED
      BY <2>2, <2>3
  <1>5. ASSUME NEW l \in DOMAIN new, NEW p \in DOMAIN new[l].handles, l # n + 1 \/ p # h + 1
        PROVE  new[l].handles[p].id # handle.id
    BY <1>4, <1>5 DEF HandlesFrom, old
  <1>6. \A l \in DOMAIN new : \A p \in DOMAIN new[l].handles :
           ~(l # n + 1 \/ p # h + 1) => new[l].handles[p] = handle
    BY <1>1, <1>3
  <1>7. OwnHandles(new)
    <2> SUFFICES ASSUME NEW l \in DOMAIN new, NEW m \in DOMAIN new,
                        NEW p \in DOMAIN new[l].handles, NEW q \in DOMAIN new[m].handles,
                        new[l].handles[p].id = new[m].handles[q].id
                 PROVE  l = m /\ p = q
      BY DEF OwnHandles
    <2>1. CASE (l # n + 1 \/ p # h + 1) /\ (m # n + 1 \/ q # h + 1)
      <3>1. /\ l \in DOMAIN old /\ p \in DOMAIN old[l].handles
            /\ m \in DOMAIN old /\ q \in DOMAIN old[m].handles
            /\ old[l].handles[p].id = old[m].handles[q].id
        BY <1>4, <2>1
      <3> QED
        BY <3>1 DEF OwnHandles, old
    <2>2. CASE ~(l # n + 1 \/ p # h + 1) /\ ~(m # n + 1 \/ q # h + 1)
      BY <2>2
    <2>3. CASE (l # n + 1 \/ p # h + 1) /\ ~(m # n + 1 \/ q # h + 1)
      BY <1>5, <1>6, <2>3
    <2>4. CASE ~(l # n + 1 \/ p # h + 1) /\ (m # n + 1 \/ q # h + 1)
      BY <1>5, <1>6, <2>4
    <2> QED
      BY <2>1, <2>2, <2>3, <2>4
  <1>8. HandlesFrom(new, rows, i)
    <2> SUFFICES ASSUME NEW l \in DOMAIN new, NEW p \in DOMAIN new[l].handles
                 PROVE  \E j \in 1..i : /\ new[l].handles[p].id = rows[j].id
                                        /\ new[l].handles[p].gen = rows[j].gen
      BY DEF HandlesFrom
    <2>1. CASE l # n + 1 \/ p # h + 1
      <3>1. PICK j \in 1..(i - 1) : /\ old[l].handles[p].id = rows[j].id
                                    /\ old[l].handles[p].gen = rows[j].gen
        BY <1>4, <2>1 DEF HandlesFrom, old
      <3>2. j \in 1..i
        OBVIOUS
      <3> QED
        BY <1>4, <2>1, <3>1, <3>2
    <2>2. CASE ~(l # n + 1 \/ p # h + 1)
      <3>1. i \in 1..i
        OBVIOUS
      <3> QED
        BY <1>6, <2>2, <3>1
    <2> QED
      BY <2>1, <2>2
  <1> QED
    BY <1>7, <1>8 DEF new

(* A line without handles adds none.                                       *)
LEMMA NoHandleAdded ==
    ASSUME NEW rows, NEW k, NEW lines \in Seq(Lines),
           OwnHandles(lines), HandlesFrom(lines, rows, k)
    PROVE  /\ OwnHandles(Append(lines, NoLine))
           /\ HandlesFrom(Append(lines, NoLine), rows, k)
  <1> DEFINE n == Len(lines)
             new == Append(lines, NoLine)
  <1>0. NoLine \in Lines /\ DOMAIN NoLine.handles = {}
    BY DEF NoLine, Lines
  <1>1. /\ n \in Nat /\ DOMAIN lines = 1..n /\ DOMAIN new = 1..(n + 1)
        /\ new[n + 1] = NoLine
        /\ \A l \in 1..n : new[l] = lines[l]
    BY <1>0, AppendProperties
  <1> HIDE DEF n, new
  <1>2. ASSUME NEW l \in DOMAIN new, NEW p \in DOMAIN new[l].handles
        PROVE  l \in DOMAIN lines /\ new[l] = lines[l]
    BY <1>0, <1>1
  <1>3. OwnHandles(new)
    BY <1>2 DEF OwnHandles
  <1>4. HandlesFrom(new, rows, k)
    BY <1>2 DEF HandlesFrom
  <1> QED
    BY <1>3, <1>4 DEF new

(* logical_lines, row by row.                                              *)
LinesChain(f, rows, cursorRow, cursorColumn, pending, columns) ==
    LET n   == Len(rows)
        all == f[n]
    IN  /\ f \in [0..n -> Gathered] /\ f[0] = [lines |-> <<>>, cur |-> NoLine]
        /\ \A k \in 1..n :
             f[k] = LineStep(rows, cursorRow, cursorColumn, pending, columns, f[k - 1], k)
        /\ logical_lines(rows, cursorRow, cursorColumn, pending, columns)
             = IF all.cur.handles = <<>> THEN all.lines ELSE Append(all.lines, all.cur)

LEMMA LogicalLinesChain ==
    ASSUME NEW rows \in Seq(RowSet), NEW cursorRow \in Nat,
           NEW cursorColumn \in Nat, NEW pending \in BOOLEAN, NEW columns \in Nat
    PROVE  \E f : LinesChain(f, rows, cursorRow, cursorColumn, pending, columns)
  <1> DEFINE n == Len(rows)
             E == 1..n
             seq == [i \in DOMAIN rows |-> i]
             base == [lines |-> <<>>, cur |-> NoLine]
             Op(acc, i) == LineStep(rows, cursorRow, cursorColumn, pending, columns, acc, i)
             op == [p \in Gathered \X E |-> Op(p[1], p[2])]
             F(g) == [s \in SUBSET (DOMAIN seq) |->
                        IF s = {} THEN base ELSE Op(g[s \ {Max(s)}], seq[Max(s)])]
             it == CHOOSE g : g = F(g)
             all == it[DOMAIN seq]
             lines == logical_lines(rows, cursorRow, cursorColumn, pending, columns)
  <1>0. /\ n \in Nat /\ DOMAIN rows = 1..n /\ seq \in Seq(E) /\ Len(seq) = n
        /\ \A k \in 1..n : seq[k] = k
    OBVIOUS
  <1>1. NoLine \in Lines /\ base \in Gathered
    BY DEF NoLine, Lines, Gathered
  <1>2. \A acc \in Gathered, i \in E :
            Op(acc, i) \in Gathered /\ AddsHandle(acc, Op(acc, i), rows[i])
    BY LineStepType
  <1>3. op \in [Gathered \X E -> Gathered] /\ \A a \in Gathered, e \in E : op[<<a, e>>] = Op(a, e)
    BY <1>2
  <1>4. lines = IF all.cur.handles = <<>> THEN all.lines ELSE Append(all.lines, all.cur)
    BY DEF logical_lines, LineStep, FoldLeft, MapThenFoldSet
  <1> HIDE DEF op
  <1>5. Foldable(Gathered, E, op, base, seq)
    BY <1>0, <1>1, <1>3 DEF Foldable
  <1>6. PICK g : IterationOnA(g, Gathered, E, op, base, seq)
    BY <1>5, IterationOnAExists
  <1> HIDE DEF Op, seq, base
  <1>7. g = F(g)
    BY <1>3, <1>6 DEF IterationOnA
  <1>8. it = F(it)
    BY <1>7
  <1> HIDE DEF it
  <1>9. Folds(it, Gathered, E, op, base, seq)
    BY <1>3, <1>5, <1>6, <1>8 DEF Folds, IterationOnA
  <1>10. PICK f : Chain(f, Gathered, op, base, seq, all)
    BY <1>9, ChainOfFold
  <1>11. /\ f \in [0..n -> Gathered] /\ f[0] = base /\ f[n] = all
         /\ \A k \in 1..n : f[k] = Op(f[k - 1], k)
    <2>1. f \in [0..n -> Gathered] /\ f[0] = base /\ f[n] = all
      BY <1>0, <1>10 DEF Chain
    <2>2. ASSUME NEW k \in 1..n PROVE f[k] = Op(f[k - 1], k)
      <3>1. f[k] = op[<<f[k - 1], k>>]
        BY <1>0, <1>10 DEF Chain
      <3>2. k - 1 \in 0..n
        BY <1>0
      <3> QED
        BY <1>3, <2>1, <3>1, <3>2
    <2> QED
      BY <2>1, <2>2
  <1> HIDE DEF n, all, lines
  <1>12. /\ f[0] = [lines |-> <<>>, cur |-> NoLine]
         /\ \A k \in 1..n : f[k] = LineStep(rows, cursorRow, cursorColumn, pending, columns,
                                            f[k - 1], k)
    BY <1>11 DEF base, Op
  <1>13. LinesChain(f, rows, cursorRow, cursorColumn, pending, columns)
    BY <1>4, <1>11, <1>12 DEF LinesChain, n, lines
  <1> QED
    BY <1>13

(* Every handle of the lines is that of a row, and in one line only.       *)
LEMMA LogicalLinesType ==
    ASSUME NEW rows \in Seq(RowSet), Inj(rows), NEW cursorRow \in Nat,
           NEW cursorColumn \in Nat, NEW pending \in BOOLEAN, NEW columns \in Nat
    PROVE  LET lines == logical_lines(rows, cursorRow, cursorColumn, pending, columns) IN
           /\ lines \in Seq(Lines) /\ OwnHandles(lines)
           /\ HandlesFrom(lines, rows, Len(rows))
  <1> DEFINE n == Len(rows)
             base == [lines |-> <<>>, cur |-> NoLine]
             Op(acc, i) == LineStep(rows, cursorRow, cursorColumn, pending, columns, acc, i)
             lines == logical_lines(rows, cursorRow, cursorColumn, pending, columns)
  <1>0. n \in Nat /\ DOMAIN rows = 1..n
    OBVIOUS
  <1>1. NoLine \in Lines /\ base \in Gathered
    BY DEF NoLine, Lines, Gathered
  <1>2. \A acc \in Gathered, i \in 1..n :
            Op(acc, i) \in Gathered /\ AddsHandle(acc, Op(acc, i), rows[i])
    BY LineStepType
  <1>9. PICK f : LinesChain(f, rows, cursorRow, cursorColumn, pending, columns)
    BY LogicalLinesChain
  <1>10. /\ f \in [0..n -> Gathered] /\ f[0] = base /\ \A k \in 1..n : f[k] = Op(f[k - 1], k)
         /\ lines = IF f[n].cur.handles = <<>> THEN f[n].lines
                    ELSE Append(f[n].lines, f[n].cur)
    BY <1>9 DEF LinesChain
  <1> DEFINE all == f[n]
  <1>4. lines = IF all.cur.handles = <<>> THEN all.lines ELSE Append(all.lines, all.cur)
    BY <1>10
  <1> HIDE DEF Op, base, lines
  <1>11. /\ f \in [0..n -> Gathered] /\ f[0] = base /\ f[n] = all
         /\ \A k \in 1..n : f[k] = Op(f[k - 1], k)
    BY <1>10
  <1> DEFINE Own(acc, k) == /\ OwnHandles(Append(acc.lines, acc.cur))
                            /\ HandlesFrom(Append(acc.lines, acc.cur), rows, k)
             T == {k \in 0..n : Own(f[k], k)}
  <1>12. 0 \in T
    <2>1. base.lines = <<>> /\ base.cur = NoLine /\ <<>> \in Seq(Lines)
      BY DEF base
    <2>2. OwnHandles(<<>>) /\ HandlesFrom(<<>>, rows, 0)
      BY DEF OwnHandles, HandlesFrom
    <2>3. Own(base, 0)
      BY <2>1, <2>2, NoHandleAdded
    <2> QED
      BY <1>0, <1>11, <2>3
  <1>13. ASSUME NEW k \in 1..n, k - 1 \in T PROVE k \in T
    <2> DEFINE acc == f[k - 1]  next == f[k]
               handle == [id |-> rows[k].id, gen |-> rows[k].gen]
    <2>1. k - 1 \in 0..n /\ k \in 0..n /\ k \in Nat \ {0}
      BY <1>0
    <2>2. /\ acc \in Gathered /\ next \in Gathered /\ next = Op(acc, k) /\ Own(acc, k - 1)
          /\ acc.lines \in Seq(Lines) /\ acc.cur \in Lines
      BY <1>11, <1>13, <2>1 DEF Gathered
    <2>3. rows[k] \in RowSet /\ handle \in Handles
      <3>1. rows[k] \in RowSet
        BY <1>0, ElementOfSeq
      <3> QED
        BY <3>1, RowParts DEF Handles
    <2> HIDE DEF acc, next
    <2>4. PICK line \in Lines :
            /\ line.handles = Append(acc.cur.handles, handle)
            /\ \/ next.lines = acc.lines /\ next.cur = line
               \/ next.lines = Append(acc.lines, line) /\ next.cur = NoLine
      BY <1>2, <2>2 DEF AddsHandle
    <2>5. \A j \in 1..(k - 1) : rows[j].id # rows[k].id
      <3> SUFFICES ASSUME NEW j \in 1..(k - 1), rows[j].id = rows[k].id PROVE FALSE
        OBVIOUS
      <3>1. j \in DOMAIN rows /\ k \in DOMAIN rows /\ j # k
        BY <1>0
      <3> QED
        BY <3>1 DEF Inj
    <2> HIDE DEF n
    <2>6. /\ OwnHandles(Append(acc.lines, line))
          /\ HandlesFrom(Append(acc.lines, line), rows, k)
      <3>1. handle.id = rows[k].id /\ handle.gen = rows[k].gen
        OBVIOUS
      <3> HIDE DEF handle
      <3> QED
        BY <2>1, <2>2, <2>3, <2>4, <2>5, <3>1, HandleAdded
    <2>7. CASE next.lines = acc.lines /\ next.cur = line
      BY <2>1, <2>6, <2>7 DEF next
    <2>8. CASE next.lines = Append(acc.lines, line) /\ next.cur = NoLine
      <3>1. Append(acc.lines, line) \in Seq(Lines)
        BY <2>2
      <3>2. Own(next, k)
        BY <2>6, <2>8, <3>1, NoHandleAdded
      <3> QED
        BY <2>1, <3>2 DEF next
    <2> QED
      BY <2>4, <2>7, <2>8
  <1>14. n \in T
    <2> HIDE DEF T, n
    <2>1. \A k \in 0..n : k \in T
      BY <1>0, <1>12, <1>13, UpTo
    <2> QED
      BY <1>0, <2>1
  <1>15. all \in Gathered /\ all.lines \in Seq(Lines) /\ all.cur \in Lines
    BY <1>0, <1>11 DEF Gathered
  <1>16. Own(all, n)
    BY <1>11, <1>14
  <1> HIDE DEF all, n, lines
  <1>17. CASE all.cur.handles # <<>>
    <2>1. lines = Append(all.lines, all.cur)
      BY <1>4, <1>17
    <2> QED
      BY <1>15, <1>16, <2>1 DEF lines, n
  <1>18. CASE all.cur.handles = <<>>
    <2>1. lines = all.lines
      BY <1>4, <1>18
    <2>2. \A l \in DOMAIN all.lines : /\ l \in DOMAIN Append(all.lines, all.cur)
                                      /\ Append(all.lines, all.cur)[l] = all.lines[l]
      BY <1>15, AppendProperties
    <2>3. OwnHandles(all.lines)
      BY <1>16, <2>2 DEF OwnHandles
    <2>4. HandlesFrom(all.lines, rows, n)
      BY <1>16, <2>2 DEF HandlesFrom
    <2> QED
      BY <1>15, <2>1, <2>3, <2>4 DEF lines, n
  <1> QED
    BY <1>17, <1>18

-----------------------------------------------------------------------------
(* The reflow: visual rows.                                                *)

(* One cell more of with_wide_boundary_spacers.                            *)
SpacerStep(line, columns, acc, i) ==
    LET cell   == line.cells[i]
        cursor == IF line.cursor = i - 1 THEN Len(acc.cells) ELSE acc.cursor
        spacer == IF cell.w > 1 /\ Len(acc.cells) % columns = columns - 1
                  THEN <<EmptyCell>> ELSE <<>>
    IN  [cells |-> acc.cells \o spacer \o <<cell>>, cursor |-> cursor]

Spaced == [cells : Seq(Cells), cursor : Nat \cup {-1}]

LEMMA SpacerStepType ==
    ASSUME NEW line \in Lines, NEW columns, NEW acc \in Spaced, NEW i \in 1..Len(line.cells)
    PROVE  SpacerStep(line, columns, acc, i) \in Spaced
  <1> DEFINE cell   == line.cells[i]
             cursor == IF line.cursor = i - 1 THEN Len(acc.cells) ELSE acc.cursor
             spacer == IF cell.w > 1 /\ Len(acc.cells) % columns = columns - 1
                       THEN <<EmptyCell>> ELSE <<>>
  <1>1. line.cells \in Seq(Cells) /\ acc.cells \in Seq(Cells) /\ acc.cursor \in Nat \cup {-1}
    BY DEF Lines, Spaced
  <1>2. cell \in Cells
    BY <1>1, ElementOfSeq
  <1>3. spacer \in Seq(Cells)
    BY EmptyCellType
  <1>4. cursor \in Nat \cup {-1}
    BY <1>1
  <1> HIDE DEF cell, spacer, cursor
  <1>5. acc.cells \o spacer \o <<cell>> \in Seq(Cells)
    BY <1>1, <1>2, <1>3
  <1>6. SpacerStep(line, columns, acc, i)
           = [cells |-> acc.cells \o spacer \o <<cell>>, cursor |-> cursor]
    BY DEF SpacerStep, cell, spacer, cursor
  <1> QED
    BY <1>4, <1>5, <1>6 DEF Spaced

(* with_wide_boundary_spacers, cell by cell.                               *)
SpacesChain(f, line, columns) ==
    LET n   == Len(line.cells)
        all == f[n]
    IN  /\ f \in [0..n -> Spaced] /\ f[0] = [cells |-> <<>>, cursor |-> -1]
        /\ \A k \in 1..n : f[k] = SpacerStep(line, columns, f[k - 1], k)
        /\ with_wide_boundary_spacers(line, columns)
             = [line EXCEPT
                  !.cells  = all.cells,
                  !.cursor = IF @ = Len(line.cells) THEN Len(all.cells) ELSE all.cursor]

LEMMA SpacersChain ==
    ASSUME NEW line \in Lines, NEW columns
    PROVE  \E f : SpacesChain(f, line, columns)
  <1> DEFINE n == Len(line.cells)
             E == 1..n
             seq == [i \in DOMAIN line.cells |-> i]
             base == [cells |-> <<>>, cursor |-> -1]
             Op(acc, i) == SpacerStep(line, columns, acc, i)
             op == [p \in Spaced \X E |-> Op(p[1], p[2])]
             F(g) == [s \in SUBSET (DOMAIN seq) |->
                        IF s = {} THEN base ELSE Op(g[s \ {Max(s)}], seq[Max(s)])]
             it == CHOOSE g : g = F(g)
             all == it[DOMAIN seq]
             next == with_wide_boundary_spacers(line, columns)
  <1>0. /\ line.cells \in Seq(Cells) /\ n \in Nat /\ seq \in Seq(E) /\ Len(seq) = n
        /\ \A k \in 1..n : seq[k] = k
        /\ line.handles \in Seq(Handles) /\ line.cursor \in Nat \cup {-1}
        /\ line.pending \in BOOLEAN
    BY DEF Lines
  <1>1. base \in Spaced
    BY DEF Spaced
  <1>2. \A acc \in Spaced, i \in E : Op(acc, i) \in Spaced
    BY SpacerStepType
  <1>3. op \in [Spaced \X E -> Spaced] /\ \A a \in Spaced, e \in E : op[<<a, e>>] = Op(a, e)
    BY <1>2
  <1>4. next = [line EXCEPT
                 !.cells  = all.cells,
                 !.cursor = IF @ = Len(line.cells) THEN Len(all.cells) ELSE all.cursor]
    BY DEF with_wide_boundary_spacers, SpacerStep, FoldLeft, MapThenFoldSet
  <1> HIDE DEF op
  <1>5. Foldable(Spaced, E, op, base, seq)
    BY <1>0, <1>1, <1>3 DEF Foldable
  <1>6. PICK g : IterationOnA(g, Spaced, E, op, base, seq)
    BY <1>5, IterationOnAExists
  <1> HIDE DEF Op, seq, base
  <1>7. g = F(g)
    BY <1>3, <1>6 DEF IterationOnA
  <1>8. it = F(it)
    BY <1>7
  <1> HIDE DEF it
  <1>9. Folds(it, Spaced, E, op, base, seq)
    BY <1>3, <1>5, <1>6, <1>8 DEF Folds, IterationOnA
  <1>10. PICK f : Chain(f, Spaced, op, base, seq, all)
    BY <1>9, ChainOfFold
  <1>11. /\ f \in [0..n -> Spaced] /\ f[0] = base /\ f[n] = all
         /\ \A k \in 1..n : f[k] = Op(f[k - 1], k)
    <2>1. f \in [0..n -> Spaced] /\ f[0] = base /\ f[n] = all
      BY <1>0, <1>10 DEF Chain
    <2>2. ASSUME NEW k \in 1..n PROVE f[k] = Op(f[k - 1], k)
      <3>1. f[k] = op[<<f[k - 1], k>>]
        BY <1>0, <1>10 DEF Chain
      <3>2. k - 1 \in 0..n
        BY <1>0
      <3> QED
        BY <1>3, <2>1, <3>1, <3>2
    <2> QED
      BY <2>1, <2>2
  <1> HIDE DEF n, all, next
  <1>12. /\ f[0] = [cells |-> <<>>, cursor |-> -1]
         /\ \A k \in 1..n : f[k] = SpacerStep(line, columns, f[k - 1], k)
    BY <1>11 DEF base, Op
  <1>13. SpacesChain(f, line, columns)
    BY <1>4, <1>11, <1>12 DEF SpacesChain, n, next
  <1> QED
    BY <1>13

(* The line keeps its handles.                                             *)
LEMMA SpacersType ==
    ASSUME NEW line \in Lines, NEW columns
    PROVE  LET next == with_wide_boundary_spacers(line, columns) IN
           next \in Lines /\ next.handles = line.handles
  <1> DEFINE n == Len(line.cells)
             next == with_wide_boundary_spacers(line, columns)
  <1>0. /\ line.cells \in Seq(Cells) /\ n \in Nat
        /\ line.handles \in Seq(Handles) /\ line.cursor \in Nat \cup {-1}
        /\ line.pending \in BOOLEAN
    BY DEF Lines
  <1>1. PICK f : SpacesChain(f, line, columns)
    BY SpacersChain
  <1> DEFINE all == f[n]
  <1>4. next = [line EXCEPT
                 !.cells  = all.cells,
                 !.cursor = IF @ = Len(line.cells) THEN Len(all.cells) ELSE all.cursor]
    BY <1>1 DEF SpacesChain
  <1>11. all \in Spaced
    <2>1. n \in 0..n
      BY <1>0
    <2> HIDE DEF n
    <2> QED
      BY <1>1, <2>1 DEF SpacesChain, n
  <1> HIDE DEF all, next
  <1>12. all.cells \in Seq(Cells) /\ all.cursor \in Nat \cup {-1} /\ Len(all.cells) \in Nat
    BY <1>11 DEF Spaced
  <1> DEFINE cursor == IF line.cursor = Len(line.cells) THEN Len(all.cells) ELSE all.cursor
  <1>13. next = [cells |-> all.cells, handles |-> line.handles, cursor |-> cursor,
                 pending |-> line.pending]
    BY <1>4 DEF Lines
  <1>14. cursor \in Nat \cup {-1}
    BY <1>12
  <1> HIDE DEF cursor
  <1> QED
    BY <1>0, <1>12, <1>13, <1>14 DEF Lines, next

LEMMA VisualCountType ==
    ASSUME NEW line \in Lines, NEW columns \in Nat \ {0}
    PROVE  VisualCount(line, columns) \in Nat
  <1>1. Len(line.cells) \in Nat
    BY DEF Lines
  <1> DEFINE longest == Greatest(Len(line.cells), 1)
             m == longest + columns - 1
  <1>2. VisualCount(line, columns) = m \div columns
    BY DEF VisualCount
  <1>3. longest \in Nat
    BY <1>1, GreatestOf
  <1> HIDE DEF longest
  <1>4. m \in Nat
    BY <1>3
  <1> HIDE DEF m
  <1> QED
    BY <1>2, <1>4

(* The rows of a line have its handles, one generation on, and then ids    *)
(* of their own.                                                           *)
LEMMA VisualRowsType ==
    ASSUME NEW line \in Lines, NEW columns \in Nat \ {0}, NEW id \in Nat \ {0}
    PROVE  LET rows == visual_rows(line, columns, id)
               h == Len(line.handles)
           IN
           /\ rows \in Seq(RowSet) /\ Len(rows) = VisualCount(line, columns)
           /\ Sized(rows, columns)
           /\ \A i \in DOMAIN rows :
                \/ /\ i \in 1..h /\ rows[i].id = line.handles[i].id
                   /\ rows[i].gen = line.handles[i].gen + 1
                \/ i > h /\ rows[i].id = id + (i - h) - 1
  <1> DEFINE n == Len(line.cells)
             h == Len(line.handles)
             count == VisualCount(line, columns)
             cells(i) == Resized(SubSeq(line.cells, (i - 1) * columns + 1,
                                        Least(i * columns, n)), columns)
             row(i) == [id      |-> IF i <= h THEN line.handles[i].id ELSE id + (i - h) - 1,
                        gen     |-> IF i <= h THEN line.handles[i].gen + 1 ELSE 0,
                        cells   |-> cells(i),
                        wrapped |-> i * columns < n]
             rows == visual_rows(line, columns, id)
  <1>0. /\ line.cells \in Seq(Cells) /\ n \in Nat /\ line.handles \in Seq(Handles) /\ h \in Nat
        /\ count \in Nat
    BY VisualCountType DEF Lines
  <1>1. rows = [i \in 1..count |-> row(i)]
    BY DEF visual_rows
  <1>2. ASSUME NEW i \in 1..count
        PROVE  cells(i) \in Seq(Cells) /\ Len(cells(i)) = columns
    <2> DEFINE before == (i - 1) * columns
               upto == i * columns
               first == before + 1
               last == Least(upto, n)
               part == SubSeq(line.cells, first, last)
    <2>1. before \in Nat /\ upto \in Nat
      OBVIOUS
    <2> HIDE DEF before, upto
    <2>2. last \in Nat /\ last <= n /\ first \in Nat \ {0}
      <3>1. first \in Nat \ {0}
        BY <2>1
      <3>2. n \in Nat
        BY <1>0
      <3> HIDE DEF n
      <3> QED
        BY <2>1, <3>1, <3>2 DEF Least
    <2> HIDE DEF first, last
    <2>3. part \in Seq(Cells)
      BY <1>0, <2>2
    <2> HIDE DEF part
    <2>4. cells(i) = Resized(part, columns)
      BY DEF first, last, part, before, upto
    <2> QED
      BY <2>3, <2>4, ResizedType
  <1> HIDE DEF count, cells, n
  <1>3. ASSUME NEW i \in 1..count
        PROVE  /\ row(i) \in RowSet
               /\ \/ /\ i \in 1..h /\ row(i).id = line.handles[i].id
                     /\ row(i).gen = line.handles[i].gen + 1
                  \/ i > h /\ row(i).id = id + (i - h) - 1
    <2>0. i \in Nat \ {0} /\ (i * columns < n) \in BOOLEAN
      BY <1>0
    <2>1. CASE i <= h
      <3>1. i \in 1..h
        BY <1>0, <2>0, <2>1
      <3>2. line.handles[i] \in Handles
        BY <1>0, <3>1, ElementOfSeq
      <3>3. line.handles[i].id \in Nat \ {0} /\ line.handles[i].gen + 1 \in Nat
        BY <3>2 DEF Handles
      <3>4. row(i).id = line.handles[i].id /\ row(i).gen = line.handles[i].gen + 1
        BY <2>1
      <3> QED
        BY <1>2, <2>0, <3>1, <3>3, <3>4 DEF RowSet
    <2>2. CASE ~(i <= h)
      <3>1. id + (i - h) - 1 \in Nat \ {0} /\ i > h
        BY <1>0, <2>0, <2>2
      <3>2. row(i) = [id |-> id + (i - h) - 1, gen |-> 0, cells |-> cells(i),
                      wrapped |-> i * columns < n]
        BY <2>2
      <3> DEFINE own == id + (i - h) - 1
                 wraps == i * columns < n
      <3>3. own \in Nat \ {0} /\ wraps \in BOOLEAN
        BY <2>0, <3>1
      <3> HIDE DEF own, wraps
      <3>4. row(i) = [id |-> own, gen |-> 0, cells |-> cells(i), wrapped |-> wraps]
        BY <3>2 DEF own, wraps
      <3> HIDE DEF row
      <3>5. row(i) \in RowSet /\ row(i).id = own
        BY <1>2, <3>3, <3>4 DEF RowSet
      <3> QED
        BY <3>1, <3>5 DEF own
    <2> QED
      BY <2>1, <2>2
  <1>4. rows \in Seq(RowSet) /\ Len(rows) = count /\ DOMAIN rows = 1..count
    <2>1. rows \in [1..count -> RowSet]
      BY <1>1, <1>3
    <2> HIDE DEF rows
    <2> QED
      BY <1>0, <2>1, FunctionIsSeq
  <1>5. \A i \in 1..count : rows[i] = row(i) /\ Len(rows[i].cells) = columns
    BY <1>1, <1>2
  <1>6. Sized(rows, columns)
    BY <1>4, <1>5 DEF Sized
  <1> HIDE DEF row
  <1> QED
    BY <1>3, <1>4, <1>5, <1>6 DEF count

(* The cursor lands on a row of the line, before the margin; the wrap is   *)
(* pending at the margin only.                                             *)
LEMMA PlacementType ==
    ASSUME NEW offset \in Nat, NEW len \in Nat, NEW columns \in Nat \ {0},
           NEW pending \in BOOLEAN
    PROVE  LET place == cursor_placement(offset, len, columns, pending) IN
           /\ place.row \in Nat /\ place.col \in 0..columns - 1 /\ place.wrap \in BOOLEAN
           /\ place.wrap => place.col = columns - 1
  <1>1. offset \div columns \in Nat /\ offset % columns \in 0..columns - 1
    OBVIOUS
  <1>2. ASSUME len > 0, len % columns = 0
        PROVE  len \div columns - 1 \in Nat
    <2>1. len \div columns \in Nat
      OBVIOUS
    <2>2. len \div columns # 0
      <3>1. columns \in Nat /\ columns > 0
        OBVIOUS
      <3> QED
        BY <1>2, <3>1
    <2> DEFINE quotient == len \div columns
    <2>3. quotient \in Nat /\ quotient # 0
      BY <2>1, <2>2
    <2> HIDE DEF quotient
    <2>4. quotient - 1 \in Nat
      BY <2>3
    <2> QED
      BY <2>4 DEF quotient
  <1>3. columns - 1 \in 0..columns - 1
    OBVIOUS
  <1> DEFINE down == offset \div columns
             right == offset % columns
             lower == len \div columns - 1
             rest == len % columns
  <1>4. cursor_placement(offset, len, columns, pending)
           = IF pending THEN [row |-> down, col |-> right, wrap |-> right = columns - 1]
             ELSE IF len > 0 /\ offset >= len /\ rest = 0
             THEN [row |-> lower, col |-> columns - 1, wrap |-> TRUE]
             ELSE [row |-> down, col |-> right, wrap |-> FALSE]
    BY DEF cursor_placement
  <1>5. down \in Nat /\ right \in 0..columns - 1 /\ (len > 0 /\ rest = 0 => lower \in Nat)
    BY <1>1, <1>2
  <1> HIDE DEF down, right, lower, rest
  <1>6. CASE pending
    <2> DEFINE edge == right = columns - 1
    <2>1. edge \in BOOLEAN
      OBVIOUS
    <2>2. cursor_placement(offset, len, columns, pending)
             = [row |-> down, col |-> right, wrap |-> edge]
      BY <1>4, <1>6
    <2>3. edge => right = columns - 1
      OBVIOUS
    <2> HIDE DEF edge
    <2> QED
      BY <1>5, <2>1, <2>2, <2>3
  <1>7. CASE ~pending /\ len > 0 /\ offset >= len /\ rest = 0
    BY <1>3, <1>4, <1>5, <1>7
  <1>8. CASE ~pending /\ ~(len > 0 /\ offset >= len /\ rest = 0)
    BY <1>4, <1>5, <1>8
  <1> QED
    BY <1>6, <1>7, <1>8

(* The rows that have come out of the first k lines.                       *)
Flows(columns) ==
    [rows : Seq(RowSet), nextId : Nat \ {0}, row : Nat, col : 0..columns - 1, wrap : BOOLEAN]

FromLine(row, lines, k) ==
    \E l \in 1..k : \E p \in DOMAIN lines[l].handles :
       /\ row.id = lines[l].handles[p].id
       /\ row.gen = lines[l].handles[p].gen + 1

Flowed(acc, columns, lines, k, id) ==
    /\ acc \in Flows(columns) /\ id <= acc.nextId
    /\ acc.wrap => acc.col = columns - 1
    /\ Sized(acc.rows, columns) /\ Inj(acc.rows)
    /\ \A i \in DOMAIN acc.rows :
         \/ id <= acc.rows[i].id /\ acc.rows[i].id < acc.nextId
         \/ FromLine(acc.rows[i], lines, k)

HandlesBelow(lines, id) ==
    \A l \in DOMAIN lines : \A p \in DOMAIN lines[l].handles : lines[l].handles[p].id < id

LEMMA ConcatSized ==
    ASSUME NEW a \in Seq(RowSet), NEW b \in Seq(RowSet), NEW columns,
           Sized(a, columns), Sized(b, columns)
    PROVE  Sized(a \o b, columns)
  <1>1. ASSUME NEW i \in DOMAIN (a \o b)
        PROVE  Len((a \o b)[i].cells) = columns
    <2>1. Len(a) \in Nat /\ Len(b) \in Nat /\ i \in 1..(Len(a) + Len(b))
      OBVIOUS
    <2>2. CASE i <= Len(a)
      <3>1. (a \o b)[i] = a[i] /\ i \in DOMAIN a
        BY <2>1, <2>2
      <3> QED
        BY <3>1 DEF Sized
    <2>3. CASE i > Len(a)
      <3>1. (a \o b)[i] = b[i - Len(a)] /\ i - Len(a) \in DOMAIN b
        BY <2>1, <2>3
      <3> QED
        BY <3>1 DEF Sized
    <2> QED
      BY <2>1, <2>2, <2>3
  <1> QED
    BY <1>1 DEF Sized

(* The sequence is a followed by b.                                        *)
Joins(both, a, b, S) ==
    /\ both \in Seq(S) /\ Len(both) = Len(a) + Len(b)
    /\ Len(a) \in Nat /\ Len(b) \in Nat
    /\ DOMAIN both = 1..(Len(a) + Len(b))
    /\ \A i \in 1..Len(a) : both[i] = a[i] /\ a[i] \in S
    /\ \A j \in 1..Len(b) : both[Len(a) + j] = b[j] /\ b[j] \in S
    /\ \A i \in DOMAIN both :
         i \in 1..Len(a) \/ \E j \in 1..Len(b) : i = Len(a) + j

LEMMA ConcatParts ==
    ASSUME NEW S, NEW a \in Seq(S), NEW b \in Seq(S)
    PROVE  Joins(a \o b, a, b, S)
  <1> DEFINE both == a \o b
  <1>1. /\ both \in Seq(S) /\ Len(both) = Len(a) + Len(b)
        /\ Len(a) \in Nat /\ Len(b) \in Nat
        /\ DOMAIN both = 1..(Len(a) + Len(b))
        /\ \A i \in 1..Len(a) : both[i] = a[i] /\ a[i] \in S
        /\ \A j \in 1..Len(b) : both[Len(a) + j] = b[j] /\ b[j] \in S
    OBVIOUS
  <1>2. ASSUME NEW i \in 1..(Len(a) + Len(b)), ~(i \in 1..Len(a))
        PROVE  i - Len(a) \in 1..Len(b) /\ i = Len(a) + (i - Len(a))
    <2> DEFINE n == Len(a)  m == Len(b)
    <2>1. n \in Nat /\ m \in Nat /\ i \in 1..(n + m) /\ ~(i \in 1..n)
      BY <1>1, <1>2
    <2> HIDE DEF n, m
    <2>2. i - n \in 1..m /\ i = n + (i - n)
      BY <2>1
    <2> QED
      BY <2>2 DEF n, m
  <1> HIDE DEF both
  <1>3. \A i \in DOMAIN both : i \in 1..Len(a) \/ \E j \in 1..Len(b) : i = Len(a) + j
    BY <1>1, <1>2
  <1> QED
    BY <1>1, <1>3 DEF both, Joins

(* What reflow_line does to the accumulator.                               *)
LEMMA ReflowLineParts ==
    ASSUME NEW columns \in Nat \ {0}, NEW acc \in Flows(columns), NEW line \in Lines
    PROVE  LET next == reflow_line(acc, line, columns) IN
           /\ next \in Flows(columns)
           /\ next.rows = acc.rows \o visual_rows(line, columns, acc.nextId)
           /\ next.nextId = acc.nextId + Monus(VisualCount(line, columns), Len(line.handles))
           /\ (acc.wrap => acc.col = columns - 1) => (next.wrap => next.col = columns - 1)
  <1> DEFINE more == visual_rows(line, columns, acc.nextId)
             rows == acc.rows \o more
             fresh == Monus(VisualCount(line, columns), Len(line.handles))
             nextId == acc.nextId + fresh
             place == cursor_placement(line.cursor, Len(line.cells), columns, line.pending)
             out == [acc EXCEPT !.rows = rows, !.nextId = nextId]
             next == reflow_line(acc, line, columns)
             row == Len(acc.rows) + place.row
  <1>1. next = IF line.cursor = -1 THEN out
               ELSE [out EXCEPT !.row = row, !.col = place.col, !.wrap = place.wrap]
    BY DEF reflow_line
  <1>2. /\ acc.rows \in Seq(RowSet) /\ Len(acc.rows) \in Nat /\ acc.nextId \in Nat \ {0}
        /\ acc.row \in Nat /\ acc.col \in 0..columns - 1 /\ acc.wrap \in BOOLEAN
    BY DEF Flows
  <1>3. more \in Seq(RowSet)
    BY <1>2, VisualRowsType
  <1>4. rows \in Seq(RowSet)
    BY <1>2, <1>3
  <1>5. /\ Len(line.cells) \in Nat /\ Len(line.handles) \in Nat
        /\ line.cursor \in Nat \cup {-1} /\ line.pending \in BOOLEAN
    BY DEF Lines
  <1>6. fresh \in Nat
    BY <1>5, VisualCountType, MonusOf
  <1> HIDE DEF fresh, rows
  <1>7. nextId \in Nat \ {0}
    BY <1>2, <1>6
  <1> HIDE DEF nextId, next
  <1>8. CASE line.cursor = -1
    <2>1. next = [rows |-> rows, nextId |-> nextId, row |-> acc.row,
                  col |-> acc.col, wrap |-> acc.wrap]
      BY <1>1, <1>8 DEF Flows
    <2>2. next \in Flows(columns)
      BY <1>2, <1>4, <1>7, <2>1 DEF Flows
    <2>3. /\ next.rows = rows /\ next.nextId = nextId
          /\ next.wrap = acc.wrap /\ next.col = acc.col
      BY <2>1
    <2> QED
      BY <2>2, <2>3 DEF next, rows, nextId, fresh
  <1>9. CASE line.cursor # -1
    <2>1. /\ place.row \in Nat /\ place.col \in 0..columns - 1 /\ place.wrap \in BOOLEAN
          /\ place.wrap => place.col = columns - 1
      BY <1>5, <1>9, PlacementType
    <2> HIDE DEF place
    <2>2. row \in Nat
      BY <1>2, <2>1
    <2>3. next = [rows |-> rows, nextId |-> nextId, row |-> row,
                  col |-> place.col, wrap |-> place.wrap]
      BY <1>1, <1>9 DEF Flows
    <2> HIDE DEF row
    <2>4. next \in Flows(columns)
      BY <1>4, <1>7, <2>1, <2>2, <2>3 DEF Flows
    <2>5. /\ next.rows = rows /\ next.nextId = nextId
          /\ next.wrap = place.wrap /\ next.col = place.col
      BY <2>3
    <2> QED
      BY <2>1, <2>4, <2>5 DEF next, rows, nextId, fresh
  <1> QED
    BY <1>8, <1>9

(* One line more: its rows follow those of the lines before it.            *)
LEMMA ReflowLineType ==
    ASSUME NEW columns \in Nat \ {0}, NEW id \in Nat \ {0}, NEW lines \in Seq(Lines),
           OwnHandles(lines), HandlesBelow(lines, id), NEW k \in 1..Len(lines),
           NEW acc, Flowed(acc, columns, lines, k - 1, id),
           NEW line \in Lines, line.handles = lines[k].handles
    PROVE  Flowed(reflow_line(acc, line, columns), columns, lines, k, id)
  <1> DEFINE h == Len(line.handles)
             count == VisualCount(line, columns)
             fresh == Monus(count, h)
             more == visual_rows(line, columns, acc.nextId)
             rows == acc.rows \o more
             next == reflow_line(acc, line, columns)
             n == Len(acc.rows)
  <1>1. /\ acc \in Flows(columns) /\ acc.rows \in Seq(RowSet) /\ acc.nextId \in Nat \ {0}
        /\ acc.row \in Nat /\ acc.col \in 0..columns - 1 /\ acc.wrap \in BOOLEAN
        /\ id <= acc.nextId /\ (acc.wrap => acc.col = columns - 1)
        /\ Sized(acc.rows, columns) /\ Inj(acc.rows) /\ n \in Nat
    BY DEF Flowed, Flows
  <1>2. /\ line.cells \in Seq(Cells) /\ Len(line.cells) \in Nat /\ h \in Nat /\ count \in Nat
        /\ line.cursor \in Nat \cup {-1} /\ line.pending \in BOOLEAN
    <2>1. line.cells \in Seq(Cells) /\ line.handles \in Seq(Handles)
          /\ line.cursor \in Nat \cup {-1} /\ line.pending \in BOOLEAN
      BY DEF Lines
    <2>2. count \in Nat
      BY VisualCountType
    <2> QED
      BY <2>1, <2>2
  <1>3. /\ more \in Seq(RowSet) /\ Len(more) = count /\ DOMAIN more = 1..count
        /\ Sized(more, columns)
        /\ \A i \in 1..count :
             \/ /\ i \in 1..h /\ more[i].id = lines[k].handles[i].id
                /\ more[i].gen = lines[k].handles[i].gen + 1
             \/ i > h /\ more[i].id = acc.nextId + (i - h) - 1
    <2>1. LET rows1 == visual_rows(line, columns, acc.nextId)
              h1 == Len(line.handles)
          IN  /\ rows1 \in Seq(RowSet) /\ Len(rows1) = VisualCount(line, columns)
              /\ Sized(rows1, columns)
              /\ \A i \in DOMAIN rows1 :
                   \/ /\ i \in 1..h1 /\ rows1[i].id = line.handles[i].id
                      /\ rows1[i].gen = line.handles[i].gen + 1
                   \/ i > h1 /\ rows1[i].id = acc.nextId + (i - h1) - 1
      BY <1>1, VisualRowsType
    <2>2. more \in Seq(RowSet) /\ Len(more) = count
      BY <2>1
    <2>3. DOMAIN more = 1..count
      <3> HIDE DEF more, count
      <3> QED
        BY <2>2
    <2> QED
      BY <2>1, <2>2, <2>3
  <1>4. fresh \in Nat /\ (count >= h => fresh = count - h)
    BY <1>2, MonusOf
  <1>5. DOMAIN lines[k].handles = 1..h /\ k \in DOMAIN lines /\ lines[k] \in Lines
    <2>1. k \in DOMAIN lines /\ lines[k] \in Lines
      BY ElementOfSeq
    <2>2. line.handles \in Seq(Handles)
      BY DEF Lines
    <2> QED
      BY <2>1, <2>2
  <1> HIDE DEF h, count, fresh, more
  <1>6. /\ rows \in Seq(RowSet) /\ Len(rows) = n + count /\ DOMAIN rows = 1..(n + count)
        /\ \A i \in 1..n : rows[i] = acc.rows[i] /\ rows[i] \in RowSet
        /\ \A i \in 1..count : rows[n + i] = more[i]
        /\ \A i \in DOMAIN rows : i \in 1..n \/ \E j \in 1..count : i = n + j
    <2>1. Joins(rows, acc.rows, more, RowSet)
      BY <1>1, <1>3, ConcatParts
    <2>2. Len(more) = count
      BY <1>3
    <2> HIDE DEF rows
    <2> QED
      BY <2>1, <2>2 DEF Joins
  <1>7. Sized(rows, columns)
    BY <1>1, <1>3, ConcatSized
  <1>60. n \in Nat /\ DOMAIN acc.rows = 1..n
    BY <1>1
  <1> HIDE DEF rows, n
  <1>61. \A p \in 1..h : lines[k].handles[p].id \in Nat /\ lines[k].handles[p].id < id
    <2>1. lines[k].handles \in Seq(Handles)
      BY <1>5 DEF Lines
    <2> DEFINE own == lines[k].handles
    <2>2. own \in Seq(Handles) /\ Len(own) = h
      BY <2>1 DEF h
    <2> HIDE DEF own
    <2>3. \A p \in 1..h : own[p] \in Handles
      BY <2>2, ElementOfSeq
    <2>4. \A x \in Handles : x.id \in Nat
      BY DEF Handles
    <2>5. \A p \in DOMAIN own : own[p].id < id
      BY <1>5 DEF HandlesBelow, own
    <2>6. DOMAIN own = 1..h
      BY <2>2
    <2>7. \A p \in 1..h : own[p].id \in Nat /\ own[p].id < id
      BY <2>3, <2>4, <2>5, <2>6
    <2> QED
      BY <2>7 DEF own
  <1>62. ASSUME NEW l \in 1..k, NEW p \in DOMAIN lines[l].handles, NEW q \in 1..h,
                lines[l].handles[p].id = lines[k].handles[q].id
         PROVE  l = k /\ p = q
    <2>1. l \in DOMAIN lines
      OBVIOUS
    <2>2. k \in DOMAIN lines /\ q \in DOMAIN lines[k].handles
      BY <1>5
    <2>3. p \in DOMAIN lines[l].handles /\ lines[l].handles[p].id = lines[k].handles[q].id
      BY <1>62
    <2> QED
      BY <2>1, <2>2, <2>3, SameHandle
  <1>8. \A i \in 1..n : \/ id <= rows[i].id /\ rows[i].id < acc.nextId
                        \/ FromLine(rows[i], lines, k - 1)
    BY <1>1, <1>6, <1>60 DEF Flowed
  <1>9. ASSUME NEW i \in 1..count
        PROVE  \/ i \in 1..h /\ rows[n + i].id = lines[k].handles[i].id
                  /\ rows[n + i].gen = lines[k].handles[i].gen + 1
                  /\ rows[n + i].id < id
               \/ i > h /\ rows[n + i].id = acc.nextId + (i - h) - 1
                  /\ acc.nextId <= rows[n + i].id /\ rows[n + i].id < acc.nextId + fresh
    <2>1. rows[n + i] = more[i]
      BY <1>6
    <2>2. CASE /\ i \in 1..h /\ more[i].id = lines[k].handles[i].id
               /\ more[i].gen = lines[k].handles[i].gen + 1
      BY <1>5, <2>1, <2>2 DEF HandlesBelow
    <2>3. CASE i > h /\ more[i].id = acc.nextId + (i - h) - 1
      <3>1. count >= h /\ fresh = count - h
        BY <1>2, <1>4, <2>3
      <3>2. i \in Nat /\ i <= count
        BY <1>2
      <3>3. acc.nextId <= acc.nextId + (i - h) - 1 /\ acc.nextId + (i - h) - 1 < acc.nextId + fresh
        <4>1. \A x \in Nat : x <= x + (i - h) - 1 /\ x + (i - h) - 1 < x + (count - h)
          BY <1>2, <2>3, <3>2
        <4> QED
          BY <1>1, <3>1, <4>1
      <3> QED
        BY <2>1, <2>3, <3>3
    <2> QED
      BY <1>3, <2>2, <2>3
  <1>10. ASSUME NEW i \in 1..n, NEW j \in 1..count
         PROVE  rows[i].id # rows[n + j].id
    <2>1. rows[i].id \in Nat
      BY <1>6, RowParts
    <2>2. CASE id <= rows[i].id /\ rows[i].id < acc.nextId
      <3> DEFINE mine == rows[i].id
                 other == rows[n + j].id
                 free == acc.nextId
      <3>1. other < id \/ free <= other
        BY <1>9
      <3>2. id <= mine /\ mine < free /\ mine \in Nat /\ free \in Nat
        BY <1>1, <2>1, <2>2
      <3>3. other \in Nat
        <4>1. n + j \in DOMAIN rows
          BY <1>2, <1>6, <1>60
        <4>2. rows[n + j] \in RowSet
          BY <1>6, <4>1, ElementOfSeq
        <4> QED
          BY <4>2, RowParts
      <3> HIDE DEF mine, other, free
      <3>4. mine # other
        BY <3>1, <3>2, <3>3
      <3> QED
        BY <3>4 DEF mine, other
    <2>3. CASE FromLine(rows[i], lines, k - 1)
      <3>1. PICK l \in 1..(k - 1) : \E p \in DOMAIN lines[l].handles :
                rows[i].id = lines[l].handles[p].id
        BY <2>3 DEF FromLine
      <3>2. l \in DOMAIN lines /\ l # k
        OBVIOUS
      <3>3. rows[i].id < id
        BY <3>1, <3>2 DEF HandlesBelow
      <3>4. \A p \in 1..h : lines[k].handles[p].id # rows[i].id
        <4>1. l \in 1..k
          OBVIOUS
        <4> QED
          BY <1>62, <3>1, <3>2, <4>1
      <3>5. rows[i].id < acc.nextId
        BY <1>1, <2>1, <3>3
      <3>6. ~(acc.nextId <= rows[i].id)
        BY <1>1, <2>1, <3>5
      <3> QED
        BY <1>9, <3>4, <3>6
    <2> QED
      BY <1>8, <2>2, <2>3
  <1>11. ASSUME NEW i \in 1..count, NEW j \in 1..count, rows[n + i].id = rows[n + j].id
         PROVE  i = j
    <2>1. CASE i \in 1..h /\ rows[n + i].id = lines[k].handles[i].id
      <3>1. CASE j \in 1..h /\ rows[n + j].id = lines[k].handles[j].id
        <4>1. k \in 1..k /\ i \in DOMAIN lines[k].handles
          BY <1>5, <2>1
        <4>2. lines[k].handles[i].id = lines[k].handles[j].id
          BY <1>11, <2>1, <3>1
        <4> QED
          BY <1>62, <3>1, <4>1, <4>2
      <3>2. CASE j > h /\ acc.nextId <= rows[n + j].id
        <4>1. rows[n + i].id < id /\ rows[n + i].id \in Nat
          BY <1>61, <2>1
        <4> QED
          BY <1>1, <1>11, <3>2, <4>1
      <3> QED
        BY <1>9, <3>1, <3>2
    <2>2. CASE i > h /\ rows[n + i].id = acc.nextId + (i - h) - 1 /\ acc.nextId <= rows[n + i].id
      <3>1. CASE j \in 1..h /\ rows[n + j].id = lines[k].handles[j].id
        <4>1. rows[n + j].id < id /\ rows[n + j].id \in Nat
          BY <1>61, <3>1
        <4> QED
          BY <1>1, <1>11, <2>2, <4>1
      <3>2. CASE j > h /\ rows[n + j].id = acc.nextId + (j - h) - 1
        <4>1. \A x \in Nat : x + (i - h) - 1 = x + (j - h) - 1 => i = j
          BY <1>2
        <4> QED
          BY <1>1, <1>11, <2>2, <3>2, <4>1
      <3> QED
        BY <1>9, <3>1, <3>2
    <2> QED
      BY <1>9, <2>1, <2>2
  <1>12. Inj(rows)
    <2> SUFFICES ASSUME NEW i \in DOMAIN rows, NEW j \in DOMAIN rows, rows[i].id = rows[j].id
                 PROVE  i = j
      BY DEF Inj
    <2>1. i \in 1..n \/ \E a \in 1..count : i = n + a
      BY <1>6
    <2>2. j \in 1..n \/ \E b \in 1..count : j = n + b
      BY <1>6
    <2>3. CASE i \in 1..n /\ j \in 1..n
      <3>1. i \in DOMAIN acc.rows /\ j \in DOMAIN acc.rows
        BY <1>60, <2>3
      <3>2. acc.rows[i].id = acc.rows[j].id
        BY <1>6, <2>3
      <3> QED
        BY <1>1, <3>1, <3>2 DEF Inj
    <2> QED
      BY <1>10, <1>11, <2>1, <2>2, <2>3
  <1>13. \A i \in DOMAIN rows : \/ id <= rows[i].id /\ rows[i].id < acc.nextId + fresh
                                \/ FromLine(rows[i], lines, k)
    <2> SUFFICES ASSUME NEW i \in DOMAIN rows
                 PROVE  \/ id <= rows[i].id /\ rows[i].id < acc.nextId + fresh
                        \/ FromLine(rows[i], lines, k)
      OBVIOUS
    <2>0. rows[i].id \in Nat
      BY <1>6, RowParts, ElementOfSeq
    <2>1. CASE i \in 1..n
      <3>1. CASE FromLine(rows[i], lines, k - 1)
        BY <3>1 DEF FromLine
      <3>2. CASE id <= rows[i].id /\ rows[i].id < acc.nextId
        BY <1>1, <1>4, <2>0, <3>2
      <3> QED
        BY <1>8, <2>1, <3>1, <3>2
    <2>2. CASE \E a \in 1..count : i = n + a
      <3>1. PICK a \in 1..count : i = n + a
        BY <2>2
      <3>2. CASE a \in 1..h /\ rows[i].id = lines[k].handles[a].id
                 /\ rows[i].gen = lines[k].handles[a].gen + 1
        <4>1. k \in 1..k
          OBVIOUS
        <4> QED
          BY <1>5, <3>2, <4>1 DEF FromLine
      <3>3. CASE acc.nextId <= rows[i].id /\ rows[i].id < acc.nextId + fresh
        BY <1>1, <2>0, <3>3
      <3> QED
        BY <1>9, <3>1, <3>2, <3>3
    <2> QED
      BY <1>6, <2>1, <2>2
  <1>14. /\ next \in Flows(columns)
         /\ next.rows = rows /\ next.nextId = acc.nextId + fresh
         /\ next.wrap => next.col = columns - 1
    BY <1>1, ReflowLineParts DEF rows, more, fresh, count, h
  <1>15. id <= acc.nextId + fresh
    BY <1>1, <1>4
  <1> HIDE DEF next
  <1>16. Flowed(next, columns, lines, k, id)
    BY <1>7, <1>12, <1>13, <1>14, <1>15 DEF Flowed
  <1> QED
    BY <1>16 DEF next

(* reflow_rows, line by line.                                              *)
FlowChain(f, lines, columns, id, flow) ==
    LET n == Len(lines) IN
    /\ f \in [0..n -> Flows(columns)] /\ f[n] = flow
    /\ f[0] = [rows |-> <<>>, nextId |-> id, row |-> 0, col |-> 0, wrap |-> FALSE]
    /\ \A k \in 1..n :
         f[k] = reflow_line(f[k - 1], with_wide_boundary_spacers(lines[k], columns), columns)

LEMMA ReflowChain ==
    ASSUME NEW rows, NEW columns \in Nat \ {0}, NEW id \in Nat \ {0},
           NEW cursorRow, NEW cursorColumn, NEW pending,
           logical_lines(rows, cursorRow, cursorColumn, pending, columns) \in Seq(Lines)
    PROVE  \E f : FlowChain(f, logical_lines(rows, cursorRow, cursorColumn, pending, columns),
                           columns, id,
                           reflow_rows(rows, cursorRow, cursorColumn, pending, columns, id))
  <1> DEFINE lines == logical_lines(rows, cursorRow, cursorColumn, pending, columns)
             n == Len(lines)
             A == Flows(columns)
             base == [rows |-> <<>>, nextId |-> id, row |-> 0, col |-> 0, wrap |-> FALSE]
             spaced(line) == with_wide_boundary_spacers(line, columns)
             Op(acc, line) == reflow_line(acc, spaced(line), columns)
             op == [p \in A \X Lines |-> Op(p[1], p[2])]
             F(g) == [s \in SUBSET (DOMAIN lines) |->
                        IF s = {} THEN base ELSE Op(g[s \ {Max(s)}], lines[Max(s)])]
             it == CHOOSE g : g = F(g)
             flow == reflow_rows(rows, cursorRow, cursorColumn, pending, columns, id)
  <1>1. lines \in Seq(Lines)
    OBVIOUS
  <1>2. flow = it[DOMAIN lines]
    BY DEF reflow_rows, FoldLeft, MapThenFoldSet
  <1> HIDE DEF lines
  <1>3. n \in Nat /\ \A k \in 1..n : lines[k] \in Lines
    BY <1>1
  <1>5. base \in A
    <2>1. 0 \in 0..columns - 1
      OBVIOUS
    <2> QED
      BY <2>1 DEF Flows
  <1>6. \A line \in Lines : spaced(line) \in Lines /\ spaced(line).handles = line.handles
    BY SpacersType
  <1> HIDE DEF spaced
  <1>7. \A acc \in A, line \in Lines : Op(acc, line) \in A
    BY <1>6, ReflowLineParts
  <1>8. op \in [A \X Lines -> A] /\ \A a \in A, e \in Lines : op[<<a, e>>] = Op(a, e)
    BY <1>7
  <1> HIDE DEF op
  <1>9. Foldable(A, Lines, op, base, lines)
    BY <1>1, <1>5, <1>8 DEF Foldable
  <1>10. PICK g : IterationOnA(g, A, Lines, op, base, lines)
    BY <1>9, IterationOnAExists
  <1> HIDE DEF Op, A
  <1>11. g = F(g)
    BY <1>8, <1>10 DEF IterationOnA
  <1>12. it = F(it)
    BY <1>11
  <1> HIDE DEF it
  <1>13. Folds(it, A, Lines, op, base, lines)
    BY <1>8, <1>9, <1>10, <1>12 DEF Folds, IterationOnA
  <1>14. PICK f : Chain(f, A, op, base, lines, flow)
    BY <1>2, <1>13, ChainOfFold
  <1>15. /\ f \in [0..n -> A] /\ f[0] = base /\ f[n] = flow
         /\ \A k \in 1..n : f[k] = Op(f[k - 1], lines[k])
    <2>1. f \in [0..n -> A] /\ f[0] = base /\ f[n] = flow
      BY <1>14 DEF Chain
    <2>2. ASSUME NEW k \in 1..n PROVE f[k] = Op(f[k - 1], lines[k])
      <3>1. f[k] = op[<<f[k - 1], lines[k]>>]
        BY <1>14 DEF Chain
      <3>2. k - 1 \in 0..n
        BY <1>3
      <3>3. f[k - 1] \in A /\ lines[k] \in Lines
        BY <1>3, <2>1, <3>2
      <3> QED
        BY <1>8, <3>1, <3>3
    <2> QED
      BY <2>1, <2>2
  <1> HIDE DEF n, flow
  <1>16. /\ f[0] = [rows |-> <<>>, nextId |-> id, row |-> 0, col |-> 0, wrap |-> FALSE]
         /\ f \in [0..n -> Flows(columns)]
         /\ \A k \in 1..n :
              f[k] = reflow_line(f[k - 1], with_wide_boundary_spacers(lines[k], columns), columns)
    BY <1>15 DEF base, Op, A, spaced
  <1>17. FlowChain(f, lines, columns, id, flow)
    BY <1>15, <1>16 DEF FlowChain, n
  <1> QED
    BY <1>17 DEF lines, flow

(* The reflowed rows: sized, with distinct ids, each an old row's id one   *)
(* generation on or a new id; the cursor before the margin.                *)
Reflowed(flow, rows, columns, id) ==
    /\ flow \in Flows(columns) /\ id <= flow.nextId
    /\ flow.wrap => flow.col = columns - 1
    /\ Sized(flow.rows, columns) /\ Inj(flow.rows)
    /\ \A i \in DOMAIN flow.rows :
         \/ id <= flow.rows[i].id /\ flow.rows[i].id < flow.nextId
         \/ \E j \in DOMAIN rows :
               flow.rows[i].id = rows[j].id /\ flow.rows[i].gen = rows[j].gen + 1

LEMMA ReflowRowsType ==
    ASSUME NEW rows \in Seq(RowSet), NEW columns \in Nat \ {0}, NEW id \in Nat \ {0},
           Inj(rows), Below(rows, id), NEW cursorRow \in Nat,
           NEW cursorColumn \in Nat, NEW pending \in BOOLEAN
    PROVE  Reflowed(reflow_rows(rows, cursorRow, cursorColumn, pending, columns, id),
                    rows, columns, id)
  <1> DEFINE lines == logical_lines(rows, cursorRow, cursorColumn, pending, columns)
             n == Len(lines)
             A == Flows(columns)
             base == [rows |-> <<>>, nextId |-> id, row |-> 0, col |-> 0, wrap |-> FALSE]
             spaced(line) == with_wide_boundary_spacers(line, columns)
             flow == reflow_rows(rows, cursorRow, cursorColumn, pending, columns, id)
  <1>1. lines \in Seq(Lines) /\ OwnHandles(lines) /\ HandlesFrom(lines, rows, Len(rows))
    BY LogicalLinesType
  <1>2. PICK f : FlowChain(f, lines, columns, id, flow)
    BY <1>1, ReflowChain
  <1> HIDE DEF lines
  <1>3. n \in Nat /\ \A k \in 1..n : lines[k] \in Lines
    BY <1>1
  <1>4. HandlesBelow(lines, id)
    <2>1. DOMAIN rows = 1..Len(rows)
      OBVIOUS
    <2> QED
      BY <1>1, <2>1 DEF HandlesFrom, HandlesBelow, Below
  <1>5. base \in A
    <2>1. 0 \in 0..columns - 1
      OBVIOUS
    <2> QED
      BY <2>1 DEF Flows
  <1>6. \A line \in Lines : spaced(line) \in Lines /\ spaced(line).handles = line.handles
    BY SpacersType
  <1> HIDE DEF spaced
  <1>15. /\ f \in [0..n -> A] /\ f[0] = base /\ f[n] = flow
         /\ \A k \in 1..n : f[k] = reflow_line(f[k - 1], spaced(lines[k]), columns)
    BY <1>2 DEF FlowChain, spaced
  <1> HIDE DEF A
  <1> DEFINE T == {k \in 0..n : Flowed(f[k], columns, lines, k, id)}
  <1>16. 0 \in T
    <2>1. Flowed(base, columns, lines, 0, id)
      <3>1. base.rows = <<>> /\ base.nextId = id /\ base.wrap = FALSE
        OBVIOUS
      <3> HIDE DEF base
      <3>2. Sized(base.rows, columns) /\ Inj(base.rows)
        BY <3>1 DEF Sized, Inj
      <3>3. \A i \in DOMAIN base.rows : FALSE
        BY <3>1
      <3> QED
        BY <1>5, <3>1, <3>2, <3>3 DEF Flowed, A
    <2>2. 0 \in 0..n
      BY <1>3
    <2> HIDE DEF base, n
    <2> QED
      BY <1>15, <2>1, <2>2
  <1>17. ASSUME NEW k \in 1..n, k - 1 \in T PROVE k \in T
    <2>1. Flowed(f[k - 1], columns, lines, k - 1, id)
      BY <1>17
    <2>2. lines[k] \in Lines /\ k \in 1..Len(lines) /\ k \in 0..n
      BY <1>3
    <2>3. spaced(lines[k]) \in Lines /\ spaced(lines[k]).handles = lines[k].handles
      BY <1>6, <2>2
    <2>4. f[k] = reflow_line(f[k - 1], spaced(lines[k]), columns)
      BY <1>15
    <2> HIDE DEF n
    <2>5. Flowed(f[k], columns, lines, k, id)
      BY <1>1, <1>4, <2>1, <2>2, <2>3, <2>4, ReflowLineType
    <2> QED
      BY <2>2, <2>5
  <1>18. Flowed(flow, columns, lines, n, id)
    <2> HIDE DEF T, n
    <2>1. \A k \in 0..n : k \in T
      BY <1>3, <1>16, <1>17, UpTo
    <2>2. n \in T
      BY <1>3, <2>1
    <2> QED
      BY <1>15, <2>2 DEF T
  <1> HIDE DEF flow
  <1>19. ASSUME NEW i \in DOMAIN flow.rows, FromLine(flow.rows[i], lines, n)
         PROVE  \E j \in DOMAIN rows :
                  flow.rows[i].id = rows[j].id /\ flow.rows[i].gen = rows[j].gen + 1
    <2>1. PICK l \in 1..n : \E p \in DOMAIN lines[l].handles :
              /\ flow.rows[i].id = lines[l].handles[p].id
              /\ flow.rows[i].gen = lines[l].handles[p].gen + 1
      BY <1>19 DEF FromLine
    <2>2. l \in DOMAIN lines /\ DOMAIN rows = 1..Len(rows)
      BY <1>1
    <2> QED
      BY <1>1, <2>1, <2>2 DEF HandlesFrom
  <1>20. Reflowed(flow, rows, columns, id)
    BY <1>18, <1>19 DEF Flowed, Reflowed
  <1> QED
    BY <1>20 DEF flow

-----------------------------------------------------------------------------
(* Wide characters.                                                        *)

(* WidePairs, of a row or a line: behind a wide character is its spacer,   *)
(* before a spacer its wide character.                                     *)
Paired(cells) ==
    \A c \in DOMAIN cells :
      /\ cells[c].w = 2 => c + 1 \in DOMAIN cells /\ cells[c + 1].w = 0
      /\ cells[c].w = 0 => c - 1 \in DOMAIN cells /\ cells[c - 1].w = 2

AllPaired(rows) == \A i \in DOMAIN rows : Paired(rows[i].cells)

LEMMA PairedConcat ==
    ASSUME NEW a \in Seq(Cells), NEW b \in Seq(Cells), Paired(a), Paired(b)
    PROVE  Paired(a \o b)
  <1> DEFINE both == a \o b
             n == Len(a)
             m == Len(b)
  <1>1. /\ n \in Nat /\ m \in Nat /\ DOMAIN both = 1..(n + m)
        /\ DOMAIN a = 1..n /\ DOMAIN b = 1..m
        /\ \A i \in 1..n : both[i] = a[i]
        /\ \A i \in 1..m : both[n + i] = b[i]
    OBVIOUS
  <1> HIDE DEF both, n, m
  <1>2. /\ \A c \in 1..n : /\ a[c].w = 2 => c + 1 \in 1..n /\ a[c + 1].w = 0
                           /\ a[c].w = 0 => c - 1 \in 1..n /\ a[c - 1].w = 2
        /\ \A j \in 1..m : /\ b[j].w = 2 => j + 1 \in 1..m /\ b[j + 1].w = 0
                           /\ b[j].w = 0 => j - 1 \in 1..m /\ b[j - 1].w = 2
    BY <1>1 DEF Paired
  <1> DEFINE Fits(c) == /\ both[c].w = 2 => c + 1 \in 1..(n + m) /\ both[c + 1].w = 0
                        /\ both[c].w = 0 => c - 1 \in 1..(n + m) /\ both[c - 1].w = 2
  <1>3. \A c \in 1..n : Fits(c)
    <2> SUFFICES ASSUME NEW c \in 1..n PROVE Fits(c)
      OBVIOUS
    <2>1. \A d \in 1..n : d \in 1..(n + m) /\ both[d] = a[d]
      BY <1>1
    <2>2. ASSUME both[c].w = 2 PROVE c + 1 \in 1..(n + m) /\ both[c + 1].w = 0
      <3>0. a[c].w = 2
        BY <2>1, <2>2
      <3>1. c + 1 \in 1..n /\ a[c + 1].w = 0
        BY <1>2, <3>0
      <3> QED
        BY <2>1, <3>1
    <2>3. ASSUME both[c].w = 0 PROVE c - 1 \in 1..(n + m) /\ both[c - 1].w = 2
      <3>1. c - 1 \in 1..n /\ a[c - 1].w = 2
        BY <1>2, <2>1, <2>3
      <3> QED
        BY <2>1, <3>1
    <2> QED
      BY <2>2, <2>3
  <1>31. \A j \in 1..m : Fits(n + j)
    <2> SUFFICES ASSUME NEW j \in 1..m PROVE Fits(n + j)
      OBVIOUS
    <2>1. \A d \in 1..m : n + d \in 1..(n + m) /\ both[n + d] = b[d]
      BY <1>1
    <2>2. (n + j) + 1 = n + (j + 1) /\ (n + j) - 1 = n + (j - 1)
      BY <1>1
    <2>3. ASSUME both[n + j].w = 2
          PROVE  (n + j) + 1 \in 1..(n + m) /\ both[(n + j) + 1].w = 0
      <3>0. b[j].w = 2
        BY <2>1, <2>3
      <3>1. j + 1 \in 1..m /\ b[j + 1].w = 0
        BY <1>2, <3>0
      <3>2. n + (j + 1) \in 1..(n + m) /\ both[n + (j + 1)].w = 0
        BY <2>1, <3>1
      <3> QED
        BY <2>2, <3>2
    <2>4. ASSUME both[n + j].w = 0
          PROVE  (n + j) - 1 \in 1..(n + m) /\ both[(n + j) - 1].w = 2
      <3>1. j - 1 \in 1..m /\ b[j - 1].w = 2
        BY <1>2, <2>1, <2>4
      <3>2. n + (j - 1) \in 1..(n + m) /\ both[n + (j - 1)].w = 2
        BY <2>1, <3>1
      <3> QED
        BY <2>2, <3>2
    <2> QED
      BY <2>3, <2>4
  <1>4. \A c \in 1..(n + m) : c \in 1..n \/ \E j \in 1..m : c = n + j
    <2> SUFFICES ASSUME NEW c \in 1..(n + m), c \notin 1..n
                 PROVE  \E j \in 1..m : c = n + j
      OBVIOUS
    <2>1. c - n \in 1..m /\ c = n + (c - n)
      BY <1>1
    <2> QED
      BY <2>1
  <1>5. Paired(both)
    <2>1. \A c \in 1..(n + m) : Fits(c)
      <3> HIDE DEF Fits
      <3> QED
        BY <1>3, <1>31, <1>4
    <2> QED
      BY <1>1, <2>1 DEF Paired
  <1> QED
    BY <1>5 DEF both

(* What is cut off is empty.                                               *)
LEMMA PairedCut ==
    ASSUME NEW cells \in Seq(Cells), Paired(cells), NEW m \in 0..Len(cells),
           \A i \in DOMAIN cells : i > m => cells[i] = EmptyCell
    PROVE  Paired(SubSeq(cells, 1, m))
  <1> DEFINE sub == SubSeq(cells, 1, m)
             n == Len(cells)
  <1>1. /\ n \in Nat /\ m \in 0..n /\ DOMAIN cells = 1..n /\ DOMAIN sub = 1..m
        /\ \A i \in 1..m : sub[i] = cells[i]
    OBVIOUS
  <1>2. EmptyCell.w = 1
    BY DEF EmptyCell, Cell
  <1> HIDE DEF sub, n
  <1>3. ASSUME NEW c \in 1..m
        PROVE  /\ sub[c].w = 2 => c + 1 \in 1..m /\ sub[c + 1].w = 0
               /\ sub[c].w = 0 => c - 1 \in 1..m /\ sub[c - 1].w = 2
    <2>1. c \in 1..n /\ sub[c] = cells[c]
      BY <1>1
    <2>2. ASSUME cells[c].w = 2 PROVE c + 1 \in 1..m
      <3>1. c + 1 \in 1..n /\ cells[c + 1].w = 0
        BY <1>1, <2>1, <2>2 DEF Paired
      <3>2. ~(c + 1 > m)
        BY <1>1, <1>2, <3>1
      <3> QED
        BY <1>1, <3>1, <3>2
    <2>3. c - 1 \in 1..n => c - 1 \in 1..m
      BY <1>1
    <2> QED
      BY <1>1, <2>1, <2>2, <2>3 DEF Paired
  <1>4. Paired(sub)
    BY <1>1, <1>3 DEF Paired
  <1> QED
    BY <1>4 DEF sub

LEMMA SegmentPaired ==
    ASSUME NEW row \in RowSet, NEW cur \in Lines, NEW columns \in Nat, NEW extent \in Nat,
           Paired(row.cells)
    PROVE  Paired(SubSeq(row.cells, 1, SegmentLength(row, cur, columns, extent)))
  <1> DEFINE cells == row.cells
             m == SegmentLength(row, cur, columns, extent)
             occupied == occupied_cell_count(cells)
  <1>1. cells \in Seq(Cells) /\ DOMAIN cells = 1..Len(cells) /\ Len(cells) \in Nat
    BY DEF RowSet
  <1>2. m \in 0..Len(cells) /\ occupied <= m
    BY SegmentWithin
  <1>3. occupied \in 0..Len(cells) /\ \A i \in DOMAIN cells : i > occupied => cells[i] = EmptyCell
    BY <1>1, OccupiedWithin
  <1>4. Paired(cells)
    OBVIOUS
  <1> HIDE DEF cells, m, occupied
  <1>5. \A i \in DOMAIN cells : i > m => cells[i] = EmptyCell
    BY <1>1, <1>2, <1>3
  <1>6. Paired(SubSeq(cells, 1, m))
    BY <1>1, <1>2, <1>4, <1>5, PairedCut
  <1> QED
    BY <1>6 DEF cells, m

LEMMA AppendPaired ==
    ASSUME NEW S, NEW rows \in Seq(S), AllPaired(rows), NEW x \in S, Paired(x.cells)
    PROVE  AllPaired(Append(rows, x))
  <1> DEFINE more == Append(rows, x)
             n == Len(rows)
  <1>1. /\ n \in Nat /\ DOMAIN rows = 1..n /\ DOMAIN more = 1..(n + 1)
        /\ more[n + 1] = x /\ \A i \in 1..n : more[i] = rows[i]
    BY AppendProperties
  <1> HIDE DEF more, n
  <1>2. \A i \in 1..(n + 1) : i \in 1..n \/ i = n + 1
    BY <1>1
  <1>3. AllPaired(more)
    BY <1>1, <1>2 DEF AllPaired
  <1> QED
    BY <1>3 DEF more

LEMMA NothingPaired == Paired(<<>>) /\ AllPaired(<<>>)
  BY DEF Paired, AllPaired

LEMMA LineStepPaired ==
    ASSUME NEW rows \in Seq(RowSet), NEW cursorRow \in Nat, NEW cursorColumn \in Nat,
           NEW pending \in BOOLEAN, NEW columns \in Nat,
           NEW acc \in Gathered, NEW i \in 1..Len(rows), Paired(rows[i].cells),
           AllPaired(acc.lines), Paired(acc.cur.cells)
    PROVE  LET next == LineStep(rows, cursorRow, cursorColumn, pending, columns, acc, i) IN
           AllPaired(next.lines) /\ Paired(next.cur.cells)
  <1> DEFINE row  == rows[i]
             n    == Len(row.cells)
             cur  == acc.cur
             here == i - 1 = cursorRow
             extent == IF ~here THEN 0
                       ELSE IF pending THEN n ELSE Least(cursorColumn, n)
             offset == Len(cur.cells) +
                         (IF pending THEN Monus(n, 1) ELSE Least(cursorColumn, n))
             segment == SubSeq(row.cells, 1, SegmentLength(row, cur, columns, extent))
             line == [cells   |-> cur.cells \o segment,
                      handles |-> Append(cur.handles, [id |-> row.id, gen |-> row.gen]),
                      cursor  |-> IF here THEN offset ELSE cur.cursor,
                      pending |-> IF here THEN pending ELSE cur.pending]
             next == LineStep(rows, cursorRow, cursorColumn, pending, columns, acc, i)
  <1>1. row \in RowSet
    BY ElementOfSeq
  <1>2. row.cells \in Seq(Cells) /\ n \in Nat /\ cur \in Lines /\ acc.lines \in Seq(Lines)
    BY <1>1, RowParts DEF Gathered
  <1>3. extent \in Nat
    BY <1>2, LeastOf
  <1>4. cur.cells \in Seq(Cells)
    BY <1>2 DEF Lines
  <1>5. next = IF row.wrapped THEN [acc EXCEPT !.cur = line]
               ELSE [lines |-> Append(acc.lines, line), cur |-> NoLine]
    BY DEF LineStep
  <1>6. next \in Gathered
    BY LineStepType
  <1>7. Paired(segment)
    BY <1>1, <1>2, <1>3, SegmentPaired
  <1>8. segment \in Seq(Cells)
    <2>1. SegmentLength(row, cur, columns, extent) \in 0..n
      BY <1>1, <1>2, <1>3, SegmentWithin
    <2> QED
      BY <1>2, <2>1
  <1> HIDE DEF segment, extent, here, offset, next, row
  <1>9. Paired(line.cells)
    BY <1>4, <1>7, <1>8, PairedConcat
  <1> HIDE DEF line
  <1>10. CASE row.wrapped
    <2>1. next.lines = acc.lines /\ next.cur = line
      BY <1>5, <1>10 DEF Gathered
    <2> QED
      BY <1>9, <2>1 DEF next
  <1>11. CASE ~row.wrapped
    <2>1. next.lines = Append(acc.lines, line) /\ next.cur = NoLine
      BY <1>5, <1>11
    <2>2. line \in Lines
      <3>1. Append(acc.lines, line) \in Seq(Lines)
        BY <1>6, <2>1 DEF Gathered
      <3>2. DOMAIN Append(acc.lines, line) = 1..(Len(acc.lines) + 1)
            /\ Append(acc.lines, line)[Len(acc.lines) + 1] = line
            /\ Len(acc.lines) + 1 \in 1..(Len(acc.lines) + 1)
        BY <1>2
      <3> QED
        BY <3>1, <3>2
    <2>3. AllPaired(Append(acc.lines, line))
      BY <1>2, <1>9, <2>2, AppendPaired
    <2>4. Paired(NoLine.cells)
      BY NothingPaired DEF NoLine
    <2> QED
      BY <2>1, <2>3, <2>4 DEF next
  <1> QED
    BY <1>10, <1>11

(* Joining rows to lines parts no pair: what is left out of a row is empty.*)
LEMMA LogicalLinesPaired ==
    ASSUME NEW rows \in Seq(RowSet), AllPaired(rows), NEW cursorRow \in Nat,
           NEW cursorColumn \in Nat, NEW pending \in BOOLEAN, NEW columns \in Nat
    PROVE  AllPaired(logical_lines(rows, cursorRow, cursorColumn, pending, columns))
  <1> DEFINE n == Len(rows)
             lines == logical_lines(rows, cursorRow, cursorColumn, pending, columns)
  <1>0. n \in Nat /\ DOMAIN rows = 1..n
    OBVIOUS
  <1>1. PICK f : LinesChain(f, rows, cursorRow, cursorColumn, pending, columns)
    BY LogicalLinesChain
  <1> DEFINE all == f[n]
             T == {k \in 0..n : AllPaired(f[k].lines) /\ Paired(f[k].cur.cells)}
  <1>2. /\ f \in [0..n -> Gathered] /\ f[0] = [lines |-> <<>>, cur |-> NoLine]
        /\ \A k \in 1..n :
             f[k] = LineStep(rows, cursorRow, cursorColumn, pending, columns, f[k - 1], k)
        /\ lines = IF all.cur.handles = <<>> THEN all.lines ELSE Append(all.lines, all.cur)
    BY <1>1 DEF LinesChain
  <1> HIDE DEF lines
  <1>3. 0 \in T
    <2>1. f[0].lines = <<>> /\ f[0].cur.cells = <<>>
      BY <1>2 DEF NoLine
    <2>2. 0 \in 0..n
      BY <1>0
    <2> QED
      BY <2>1, <2>2, NothingPaired
  <1>4. ASSUME NEW k \in 1..n, k - 1 \in T PROVE k \in T
    <2>1. k \in 0..n /\ k - 1 \in 0..n /\ k \in 1..Len(rows)
      BY <1>0
    <2>2. f[k - 1] \in Gathered /\ AllPaired(f[k - 1].lines) /\ Paired(f[k - 1].cur.cells)
      BY <1>2, <1>4, <2>1
    <2>3. Paired(rows[k].cells)
      BY <1>0 DEF AllPaired
    <2>4. f[k] = LineStep(rows, cursorRow, cursorColumn, pending, columns, f[k - 1], k)
      BY <1>2
    <2> HIDE DEF n
    <2>5. AllPaired(f[k].lines) /\ Paired(f[k].cur.cells)
      BY <2>1, <2>2, <2>3, <2>4, LineStepPaired
    <2> QED
      BY <2>1, <2>5
  <1>5. n \in T
    <2> HIDE DEF T, n
    <2>1. \A k \in 0..n : k \in T
      BY <1>0, <1>3, <1>4, UpTo
    <2> QED
      BY <1>0, <2>1
  <1>6. all \in Gathered /\ AllPaired(all.lines) /\ Paired(all.cur.cells)
    BY <1>2, <1>5
  <1> HIDE DEF all
  <1>7. all.lines \in Seq(Lines) /\ all.cur \in Lines
    BY <1>6 DEF Gathered
  <1>8. AllPaired(Append(all.lines, all.cur))
    BY <1>6, <1>7, AppendPaired
  <1>9. AllPaired(lines)
    BY <1>2, <1>6, <1>8
  <1> QED
    BY <1>9 DEF lines

(* The only multiple of a width that a width reaches is the width itself.  *)
LEMMA OnlyMultiple ==
    ASSUME NEW columns \in Nat, NEW d \in Int, NEW r \in 1..columns, d * columns = r
    PROVE  r = columns
  <1>1. CASE d <= 0
    <2>1. d * columns <= 0
      BY <1>1
    <2> QED
      BY <2>1
  <1>2. CASE d = 1
    BY <1>2
  <1>3. CASE d >= 2
    <2>1. d * columns >= 2 * columns
      BY <1>3
    <2> QED
      BY <2>1
  <1> QED
    BY <1>1, <1>2, <1>3

LEMMA DividedBy ==
    ASSUME NEW n \in Nat, NEW columns \in Nat, columns >= 2
    PROVE  /\ n \div columns \in Nat /\ n % columns \in 0..columns - 1
           /\ n = (n \div columns) * columns + (n % columns)
  OBVIOUS

(* Where the next place is not the last column, it ends no row; after a    *)
(* spacer there the place behind it does not either.                       *)
LEMMA NotLast ==
    ASSUME NEW n \in Nat, NEW columns \in Nat, columns >= 2, NEW k \in Nat
    PROVE  /\ n % columns # columns - 1 => n + 1 # k * columns
           /\ n % columns = columns - 1 => n + 2 # k * columns
  <1> DEFINE q == n \div columns
             r == n % columns
  <1>1. q \in Nat /\ r \in 0..columns - 1 /\ n = q * columns + r
    BY DividedBy
  <1> HIDE DEF q, r
  <1>2. (k - q) * columns = k * columns - q * columns /\ k - q \in Int
    BY <1>1
  <1>3. ((k - q) - 1) * columns = (k - q) * columns - columns /\ (k - q) - 1 \in Int
    BY <1>1
  <1>4. ASSUME r # columns - 1, n + 1 = k * columns PROVE FALSE
    <2>1. (k - q) * columns = r + 1 /\ r + 1 \in 1..columns
      BY <1>1, <1>2, <1>4
    <2>2. r + 1 = columns
      BY <1>2, <2>1, OnlyMultiple
    <2> QED
      BY <1>1, <1>4, <2>2
  <1>5. ASSUME r = columns - 1, n + 2 = k * columns PROVE FALSE
    <2>1. (k - q) * columns = columns + 1
      BY <1>1, <1>2, <1>5
    <2>2. ((k - q) - 1) * columns = 1 /\ 1 \in 1..columns
      BY <1>3, <2>1
    <2>3. 1 = columns
      BY <1>3, <2>2, OnlyMultiple
    <2> QED
      BY <2>3
  <1> QED
    BY <1>4, <1>5 DEF r

(* A line on the way: no wide character starts in a last column, and only  *)
(* behind the last cell may a spacer be missing.                           *)
Placed(cells, columns) ==
    \A c \in DOMAIN cells : cells[c].w = 2 => \A k \in Nat : c # k * columns

Half(cells, columns) ==
    /\ Placed(cells, columns)
    /\ \A c \in DOMAIN cells :
         /\ cells[c].w = 2 /\ c # Len(cells) => cells[c + 1].w = 0
         /\ cells[c].w = 0 => c - 1 \in DOMAIN cells /\ cells[c - 1].w = 2

OpenAt(cells) == Len(cells) > 0 /\ cells[Len(cells)].w = 2

LEMMA HalfAppend ==
    ASSUME NEW cells \in Seq(Cells), NEW columns \in Nat, Half(cells, columns),
           NEW x \in Cells, OpenAt(cells) <=> x.w = 0,
           x.w = 2 => \A k \in Nat : Len(cells) + 1 # k * columns
    PROVE  Half(cells \o <<x>>, columns)
  <1> DEFINE more == cells \o <<x>>
             n == Len(cells)
  <1>1. /\ n \in Nat /\ DOMAIN cells = 1..n /\ DOMAIN more = 1..(n + 1) /\ Len(more) = n + 1
        /\ more[n + 1] = x /\ \A i \in 1..n : more[i] = cells[i]
    OBVIOUS
  <1>2. OpenAt(cells) <=> (n > 0 /\ cells[n].w = 2)
    BY DEF OpenAt
  <1>3. x.w = 2 => \A k \in Nat : n + 1 # k * columns
    OBVIOUS
  <1>11. \A c \in 1..n : cells[c].w = 2 /\ c # n => cells[c + 1].w = 0
    BY <1>1 DEF Half
  <1> HIDE DEF more, n
  <1>4. \A c \in 1..(n + 1) : c \in 1..n \/ c = n + 1
    BY <1>1
  <1>5. Placed(more, columns)
    <2> SUFFICES ASSUME NEW c \in 1..(n + 1), more[c].w = 2, NEW k \in Nat PROVE c # k * columns
      BY <1>1 DEF Placed
    <2>1. CASE c \in 1..n
      BY <1>1, <2>1 DEF Half, Placed
    <2>2. CASE c = n + 1
      BY <1>1, <1>3, <2>2
    <2> QED
      BY <1>4, <2>1, <2>2
  <1>6. ASSUME NEW c \in 1..(n + 1), more[c].w = 2, c # n + 1 PROVE more[c + 1].w = 0
    <2>1. c \in 1..n /\ cells[c].w = 2
      BY <1>1, <1>4, <1>6
    <2>2. CASE c = n
      <3>1. OpenAt(cells)
        BY <1>1, <1>2, <2>1, <2>2
      <3> QED
        BY <1>1, <2>2, <3>1
    <2>3. CASE c # n
      <3>1. c + 1 \in 1..n
        BY <1>1, <2>1, <2>3
      <3>2. cells[c + 1].w = 0
        BY <1>1, <1>11, <2>1, <2>3
      <3> QED
        BY <1>1, <3>1, <3>2
    <2> QED
      BY <2>2, <2>3
  <1>7. ASSUME NEW c \in 1..(n + 1), more[c].w = 0
        PROVE  c - 1 \in 1..(n + 1) /\ more[c - 1].w = 2
    <2>1. CASE c = n + 1
      <3>1. n > 0 /\ cells[n].w = 2
        BY <1>1, <1>2, <1>7, <2>1
      <3>2. n \in 1..n /\ c - 1 = n
        BY <1>1, <2>1, <3>1
      <3> QED
        BY <1>1, <3>1, <3>2
    <2>2. CASE c \in 1..n
      <3>1. c - 1 \in 1..n /\ cells[c - 1].w = 2
        BY <1>1, <1>7, <2>2 DEF Half
      <3> QED
        BY <1>1, <3>1
    <2> QED
      BY <1>4, <2>1, <2>2
  <1>8. Half(more, columns)
    BY <1>1, <1>5, <1>6, <1>7 DEF Half
  <1> QED
    BY <1>8 DEF more

(* What the cells on the way have come to.                                 *)
ComesTo(cells, line, k) ==
    IF k = 0 THEN cells = <<>>
    ELSE Len(cells) > 0 /\ cells[Len(cells)] = line.cells[k]

LEMMA SpacerStepHalf ==
    ASSUME NEW line \in Lines, Paired(line.cells), NEW columns \in Nat, columns >= 2,
           NEW acc \in Spaced, Half(acc.cells, columns),
           NEW i \in 1..Len(line.cells), ComesTo(acc.cells, line, i - 1)
    PROVE  LET next == SpacerStep(line, columns, acc, i) IN
           Half(next.cells, columns) /\ ComesTo(next.cells, line, i)
  <1> DEFINE cells == acc.cells
             n == Len(cells)
             x == line.cells[i]
             atEnd == n % columns = columns - 1
             last == x.w > 1 /\ atEnd
             ready == cells \o (IF last THEN <<EmptyCell>> ELSE <<>>)
             next == SpacerStep(line, columns, acc, i)
  <1>1. next.cells = ready \o <<x>>
    BY DEF SpacerStep
  <1>2. /\ cells \in Seq(Cells) /\ n \in Nat /\ line.cells \in Seq(Cells)
        /\ DOMAIN line.cells = 1..Len(line.cells) /\ Len(line.cells) \in Nat
    BY DEF Lines, Spaced
  <1>3. x \in Cells
    BY <1>2, ElementOfSeq
  <1>31. x.w \in 0..2
    BY <1>3 DEF Cells
  <1>4. OpenAt(cells) <=> x.w = 0
    <2>1. CASE i = 1
      <3>1. cells = <<>>
        BY <2>1 DEF ComesTo
      <3>2. x.w # 0
        BY <1>2, <2>1 DEF Paired
      <3> QED
        BY <3>1, <3>2 DEF OpenAt
    <2>2. CASE i # 1
      <3>1. n > 0 /\ cells[n] = line.cells[i - 1] /\ i - 1 \in 1..Len(line.cells)
        BY <1>2, <2>2 DEF ComesTo
      <3>2. x.w = 0 => line.cells[i - 1].w = 2
        BY <1>2 DEF Paired
      <3>3. (i - 1) + 1 = i
        OBVIOUS
      <3>4. line.cells[i - 1].w = 2 => line.cells[(i - 1) + 1].w = 0
        BY <1>2, <3>1 DEF Paired
      <3> QED
        BY <3>1, <3>2, <3>3, <3>4 DEF OpenAt
    <2> QED
      BY <2>1, <2>2
  <1>5. Half(cells, columns)
    OBVIOUS
  <1>6. next.cells = ready \o <<x>> => ComesTo(next.cells, line, i)
    <2>1. ready \in Seq(Cells)
      BY <1>2, EmptyCellType
    <2> HIDE DEF ready, x, next
    <2>2. Len(ready \o <<x>>) = Len(ready) + 1 /\ (ready \o <<x>>)[Len(ready) + 1] = x
          /\ Len(ready) \in Nat
      BY <1>3, <2>1
    <2> QED
      BY <2>2 DEF ComesTo, x
  <1> HIDE DEF next
  <1> HIDE DEF atEnd
  <1>9. last => x.w = 2 /\ atEnd
    <2> HIDE DEF x
    <2> QED
      BY <1>31
  <1>10. ~last => ~(x.w = 2 /\ atEnd)
    <2> HIDE DEF x
    <2> QED
      BY <1>31
  <1>11. /\ last => ready = cells \o <<EmptyCell>>
         /\ ~last => ready = cells
    <2> HIDE DEF last, cells
    <2>1. cells \o <<>> = cells
      BY <1>2
    <2> QED
      BY <2>1
  <1> HIDE DEF last, ready
  <1>7. CASE last
    <2> DEFINE more == cells \o <<EmptyCell>>
    <2>1. ready = more /\ x.w = 2 /\ atEnd
      BY <1>7, <1>9, <1>11
    <2>2. EmptyCell.w = 1
      BY DEF EmptyCell, Cell
    <2>3. ~OpenAt(cells)
      BY <1>4, <2>1
    <2> HIDE DEF x, cells
    <2>4. Half(more, columns)
      BY <1>2, <1>5, <2>2, <2>3, EmptyCellType, HalfAppend
    <2>5. more \in Seq(Cells) /\ Len(more) = n + 1 /\ more[n + 1] = EmptyCell
      BY <1>2, EmptyCellType
    <2> HIDE DEF more, n
    <2>6. ~OpenAt(more)
      BY <2>2, <2>5 DEF OpenAt
    <2>7. \A k \in Nat : (n + 1) + 1 # k * columns
      <3>1. n % columns = columns - 1
        BY <2>1 DEF atEnd
      <3>2. (n + 1) + 1 = n + 2
        BY <1>2
      <3> QED
        BY <1>2, <3>1, <3>2, NotLast
    <2>9. x.w # 0 /\ \A k \in Nat : Len(more) + 1 # k * columns
      BY <2>1, <2>5, <2>7
    <2>8. Half(more \o <<x>>, columns)
      BY <1>3, <2>4, <2>5, <2>6, <2>9, HalfAppend
    <2> QED
      BY <1>1, <1>6, <2>1, <2>8 DEF next
  <1>8. CASE ~last
    <2>1. ready = cells
      BY <1>8, <1>11
    <2>2. x.w = 2 => n % columns # columns - 1
      BY <1>8, <1>10 DEF atEnd
    <2> HIDE DEF x, cells
    <2>3. x.w = 2 => \A k \in Nat : n + 1 # k * columns
      <3> HIDE DEF n
      <3> QED
        BY <1>2, <2>2, NotLast
    <2>4. Half(cells \o <<x>>, columns)
      BY <1>2, <1>3, <1>4, <1>5, <2>3, HalfAppend DEF n
    <2> QED
      BY <1>1, <1>6, <2>1, <2>4 DEF next
  <1> QED
    BY <1>7, <1>8

(* Where a line keeps its pairs it keeps them with its spacers, and no     *)
(* wide character of it starts in a last column.                           *)
LEMMA SpacersPaired ==
    ASSUME NEW line \in Lines, Paired(line.cells), NEW columns \in Nat, columns >= 2
    PROVE  LET cells == with_wide_boundary_spacers(line, columns).cells IN
           Paired(cells) /\ Placed(cells, columns)
  <1> DEFINE n == Len(line.cells)
             spaced == with_wide_boundary_spacers(line, columns)
  <1>0. n \in Nat /\ line.cells \in Seq(Cells) /\ DOMAIN line.cells = 1..n
    BY DEF Lines
  <1>1. PICK f : SpacesChain(f, line, columns)
    BY SpacersChain
  <1> DEFINE all == f[n]
             T == {k \in 0..n : Half(f[k].cells, columns) /\ ComesTo(f[k].cells, line, k)}
  <1>2. /\ f \in [0..n -> Spaced] /\ f[0] = [cells |-> <<>>, cursor |-> -1]
        /\ \A k \in 1..n : f[k] = SpacerStep(line, columns, f[k - 1], k)
    BY <1>1 DEF SpacesChain
  <1>3. spaced.cells = all.cells
    <2>1. spaced = [line EXCEPT
                 !.cells  = all.cells,
                 !.cursor = IF @ = Len(line.cells) THEN Len(all.cells) ELSE all.cursor]
      BY <1>1 DEF SpacesChain
    <2> HIDE DEF all, spaced, n
    <2> QED
      BY <2>1 DEF Lines
  <1> HIDE DEF spaced
  <1>4. 0 \in T
    <2>1. f[0].cells = <<>>
      BY <1>2
    <2>2. Half(<<>>, columns) /\ ComesTo(<<>>, line, 0)
      BY DEF Half, Placed, ComesTo
    <2>3. 0 \in 0..n
      BY <1>0
    <2> QED
      BY <2>1, <2>2, <2>3
  <1>5. ASSUME NEW k \in 1..n, k - 1 \in T PROVE k \in T
    <2>1. k \in 0..n /\ k - 1 \in 0..n
      BY <1>0
    <2>2. f[k - 1] \in Spaced /\ Half(f[k - 1].cells, columns)
          /\ ComesTo(f[k - 1].cells, line, k - 1)
      BY <1>2, <1>5, <2>1
    <2>3. f[k] = SpacerStep(line, columns, f[k - 1], k)
      BY <1>2
    <2>4. Half(f[k].cells, columns) /\ ComesTo(f[k].cells, line, k)
      BY <2>2, <2>3, SpacerStepHalf
    <2> QED
      BY <2>1, <2>4
  <1>6. n \in T
    <2> HIDE DEF T, n
    <2>1. \A k \in 0..n : k \in T
      BY <1>0, <1>4, <1>5, UpTo
    <2> QED
      BY <1>0, <2>1
  <1>7. all \in Spaced /\ Half(all.cells, columns) /\ ComesTo(all.cells, line, n)
    BY <1>2, <1>6
  <1> HIDE DEF all
  <1>8. all.cells \in Seq(Cells)
    BY <1>7 DEF Spaced
  <1>9. ~OpenAt(all.cells)
    <2>1. CASE n = 0
      BY <1>7, <2>1 DEF ComesTo, OpenAt
    <2>2. CASE n # 0
      <3>1. n \in 1..n /\ n + 1 \notin 1..n
        BY <1>0, <2>2
      <3>2. line.cells[n].w # 2
        BY <1>0, <3>1 DEF Paired
      <3> QED
        BY <1>7, <2>2, <3>2 DEF ComesTo, OpenAt
    <2> QED
      BY <2>1, <2>2
  <1>10. Paired(all.cells)
    <2> DEFINE cells == all.cells
               m == Len(cells)
    <2>1. m \in Nat /\ DOMAIN cells = 1..m
      BY <1>8
    <2>2. m > 0 => cells[m].w # 2
      BY <1>9 DEF OpenAt
    <2>3. Half(cells, columns)
      BY <1>7
    <2>4. /\ \A c \in 1..m : cells[c].w = 2 /\ c # m => cells[c + 1].w = 0
          /\ \A c \in 1..m : cells[c].w = 0 => c - 1 \in 1..m /\ cells[c - 1].w = 2
      BY <2>1, <2>3 DEF Half
    <2> HIDE DEF cells, m
    <2>5. ASSUME NEW c \in 1..m, cells[c].w = 2 PROVE c + 1 \in 1..m /\ cells[c + 1].w = 0
      <3>1. c # m
        BY <2>1, <2>2, <2>5
      <3> QED
        BY <2>1, <2>4, <2>5, <3>1
    <2>6. Paired(cells)
      BY <2>1, <2>4, <2>5 DEF Paired
    <2> QED
      BY <2>6 DEF cells
  <1>11. Placed(all.cells, columns)
    BY <1>7 DEF Half
  <1> QED
    BY <1>3, <1>10, <1>11 DEF spaced

LEMMA ConcatPaired ==
    ASSUME NEW S, NEW a \in Seq(S), NEW b \in Seq(S), AllPaired(a), AllPaired(b)
    PROVE  AllPaired(a \o b)
  <1>1. Joins(a \o b, a, b, S)
    BY ConcatParts
  <1> DEFINE both == a \o b
  <1>2. DOMAIN a = 1..Len(a) /\ DOMAIN b = 1..Len(b)
    OBVIOUS
  <1>3. ASSUME NEW i \in DOMAIN both PROVE Paired(both[i].cells)
    <2>1. CASE i \in 1..Len(a)
      BY <1>1, <1>2, <2>1 DEF Joins, AllPaired
    <2>2. ASSUME NEW j \in 1..Len(b), i = Len(a) + j PROVE Paired(both[i].cells)
      BY <1>1, <1>2, <2>2 DEF Joins, AllPaired
    <2> QED
      BY <1>1, <2>1, <2>2 DEF Joins
  <1> QED
    BY <1>3 DEF AllPaired

LEMMA SubSeqPaired ==
    ASSUME NEW S, NEW rows \in Seq(S), AllPaired(rows), NEW m \in Nat \ {0}, NEW n \in Nat,
           n <= Len(rows)
    PROVE  AllPaired(SubSeq(rows, m, n))
  <1> DEFINE part == SubSeq(rows, m, n)
  <1>1. \A i \in DOMAIN part : i + (m - 1) \in DOMAIN rows /\ part[i] = rows[i + (m - 1)]
    OBVIOUS
  <1> HIDE DEF part
  <1>2. AllPaired(part)
    BY <1>1 DEF AllPaired
  <1> QED
    BY <1>2 DEF part

LEMMA BlankRowsPaired ==
    ASSUME NEW n, NEW columns \in Nat, NEW id
    PROVE  Paired(blank_row(columns, id).cells) /\ AllPaired(BlankRows(n, columns, id))
  <1>1. ASSUME NEW any PROVE Paired(blank_row(columns, any).cells)
    <2> DEFINE cells == blank_row(columns, any).cells
    <2>1. DOMAIN cells = 1..columns /\ \A c \in 1..columns : cells[c].w = 1
      BY DEF blank_row, Resized, EmptyCell, Cell
    <2> HIDE DEF cells
    <2>2. Paired(cells)
      BY <2>1 DEF Paired
    <2> QED
      BY <2>2 DEF cells
  <1>2. AllPaired(BlankRows(n, columns, id))
    BY <1>1 DEF AllPaired, BlankRows
  <1> QED
    BY <1>1, <1>2

(* Cut into rows, a line whose wide characters start in no last column     *)
(* keeps its pairs.                                                        *)
LEMMA VisualRowsPaired ==
    ASSUME NEW line \in Lines, Paired(line.cells), NEW columns \in Nat, columns >= 2,
           Placed(line.cells, columns), NEW id \in Nat \ {0}
    PROVE  AllPaired(visual_rows(line, columns, id))
  <1> DEFINE whole == line.cells
             n == Len(whole)
             count == VisualCount(line, columns)
             cells(i) == Resized(SubSeq(line.cells, (i - 1) * columns + 1,
                                        Least(i * columns, n)), columns)
             rows == visual_rows(line, columns, id)
  <1>0. whole \in Seq(Cells) /\ n \in Nat /\ DOMAIN whole = 1..n /\ count \in Nat
    BY VisualCountType DEF Lines
  <1>1. DOMAIN rows = 1..count /\ \A i \in 1..count : rows[i].cells = cells(i)
    BY DEF visual_rows
  <1>2. Paired(whole) /\ Placed(whole, columns)
    OBVIOUS
  <1>3. ASSUME NEW i \in 1..count PROVE Paired(cells(i))
    <2> DEFINE before == (i - 1) * columns
               upto == i * columns
               last == Least(upto, n)
               part == SubSeq(whole, before + 1, last)
               row == cells(i)
    <2>1. before \in Nat /\ upto \in Nat /\ upto = before + columns
      OBVIOUS
    <2>2. i \in Nat /\ i - 1 \in Nat
      BY <1>0
    <2>3. \A c \in 1..n : whole[c].w = 2 => c # before /\ c # upto
      <3> HIDE DEF whole, n
      <3>1. \A c \in 1..n : whole[c].w = 2 => \A k \in Nat : c # k * columns
        BY <1>0, <1>2 DEF Placed
      <3> QED
        BY <2>2, <3>1
    <2>4. row = Resized(part, columns)
      OBVIOUS
    <2> HIDE DEF before, upto, whole, row, n
    <2>5. last \in Nat /\ last <= n /\ last <= upto /\ (last = n \/ last = upto)
      BY <1>0, <2>1 DEF Least
    <2> HIDE DEF last
    <2>6. /\ part \in Seq(Cells) /\ Len(part) \in Nat
          /\ \A c \in 1..Len(part) : part[c] = whole[before + c]
          /\ Len(part) = IF before + 1 <= last THEN last - before ELSE 0
      <3> DEFINE first == before + 1
      <3>1. first \in Nat \ {0} /\ first - 1 = before
        BY <2>1
      <3> HIDE DEF first
      <3> DEFINE sub == SubSeq(whole, first, last)
      <3>0. last <= Len(whole)
        BY <2>5 DEF n
      <3>6. sub \in Seq(Cells)
        BY <1>0, <2>5, <3>0, <3>1
      <3>7. Len(sub) = IF first <= last THEN (last - first) + 1 ELSE 0
        BY <1>0, <2>5, <3>0, <3>1
      <3>8. \A c \in 1..Len(sub) : sub[c] = whole[c + (first - 1)]
        BY <1>0, <2>5, <3>0, <3>1
      <3>2. /\ sub \in Seq(Cells) /\ Len(sub) \in Nat
            /\ \A c \in 1..Len(sub) : sub[c] = whole[c + (first - 1)]
            /\ Len(sub) = IF first <= last THEN last - (first - 1) ELSE 0
        BY <2>5, <3>1, <3>6, <3>7, <3>8
      <3>3. sub = part
        BY DEF first
      <3> HIDE DEF sub
      <3>4. \A c \in 1..Len(sub) : c + (first - 1) = before + c
        BY <2>1, <3>1, <3>2
      <3>5. first = before + 1
        BY DEF first
      <3> HIDE DEF part
      <3> QED
        BY <3>1, <3>2, <3>3, <3>4, <3>5
    <2> HIDE DEF part
    <2>7. /\ DOMAIN row = 1..columns
          /\ \A c \in 1..columns : row[c] = IF c <= Len(part) THEN part[c] ELSE EmptyCell
      BY <2>4 DEF Resized
    <2>8. ASSUME NEW c \in 1..columns
          PROVE  /\ before + c <= n => before + c \in 1..n /\ row[c] = whole[before + c]
                 /\ ~(before + c <= n) => row[c] = EmptyCell
      <3>1. before + c <= n <=> c <= Len(part)
        BY <1>0, <2>1, <2>5, <2>6
      <3>2. c <= Len(part) => c \in 1..Len(part)
        BY <2>6
      <3>3. before + c <= n => before + c \in 1..n
        BY <1>0, <2>1
      <3> QED
        BY <2>6, <2>7, <3>1, <3>2, <3>3
    <2>9. EmptyCell.w = 1
      BY DEF EmptyCell, Cell
    <2>10. \A c \in 1..n : /\ whole[c].w = 2 => c + 1 \in 1..n /\ whole[c + 1].w = 0
                           /\ whole[c].w = 0 => c - 1 \in 1..n /\ whole[c - 1].w = 2
      BY <1>0, <1>2 DEF Paired
    <2>11. ASSUME NEW c \in 1..columns, row[c].w = 2
           PROVE  c + 1 \in 1..columns /\ row[c + 1].w = 0
      <3>1. before + c \in 1..n /\ whole[before + c].w = 2
        BY <2>8, <2>9, <2>11
      <3>2. (before + c) + 1 \in 1..n /\ whole[(before + c) + 1].w = 0
        BY <2>10, <3>1
      <3>3. c # columns
        BY <2>1, <2>3, <3>1
      <3>4. c + 1 \in 1..columns /\ (before + c) + 1 = before + (c + 1)
        BY <2>1, <3>3
      <3>5. before + (c + 1) <= n
        BY <1>0, <3>2, <3>4
      <3> QED
        BY <2>8, <3>2, <3>4, <3>5
    <2>12. ASSUME NEW c \in 1..columns, row[c].w = 0
           PROVE  c - 1 \in 1..columns /\ row[c - 1].w = 2
      <3>1. before + c \in 1..n /\ whole[before + c].w = 0
        BY <2>8, <2>9, <2>12
      <3>2. (before + c) - 1 \in 1..n /\ whole[(before + c) - 1].w = 2
        BY <2>10, <3>1
      <3>3. c # 1
        <4>1. c = 1 => (before + c) - 1 = before
          BY <2>1
        <4> QED
          BY <2>3, <3>2, <4>1
      <3>4. c - 1 \in 1..columns /\ (before + c) - 1 = before + (c - 1)
        BY <2>1, <3>3
      <3>5. before + (c - 1) <= n
        BY <1>0, <3>2, <3>4
      <3> QED
        BY <2>8, <3>2, <3>4, <3>5
    <2>13. Paired(row)
      BY <2>7, <2>11, <2>12 DEF Paired
    <2> QED
      BY <2>13 DEF row
  <1> HIDE DEF cells
  <1>4. \A i \in DOMAIN rows : Paired(rows[i].cells)
    BY <1>1, <1>3
  <1> QED
    BY <1>4 DEF AllPaired

(* A reflow parts no wide character from its spacer.                       *)
LEMMA ReflowPaired ==
    ASSUME NEW rows \in Seq(RowSet), AllPaired(rows), NEW columns \in Nat, columns >= 2,
           NEW id \in Nat \ {0}, NEW cursorRow \in Nat, NEW cursorColumn \in Nat,
           NEW pending \in BOOLEAN,
           logical_lines(rows, cursorRow, cursorColumn, pending, columns) \in Seq(Lines)
    PROVE  AllPaired(reflow_rows(rows, cursorRow, cursorColumn, pending, columns, id).rows)
  <1> DEFINE lines == logical_lines(rows, cursorRow, cursorColumn, pending, columns)
             n == Len(lines)
             flow == reflow_rows(rows, cursorRow, cursorColumn, pending, columns, id)
             spaced(line) == with_wide_boundary_spacers(line, columns)
  <1>1. PICK f : FlowChain(f, lines, columns, id, flow)
    BY ReflowChain
  <1>2. lines \in Seq(Lines) /\ AllPaired(lines)
    BY LogicalLinesPaired
  <1> HIDE DEF lines, flow
  <1>3. /\ f \in [0..n -> Flows(columns)] /\ f[n] = flow /\ f[0].rows = <<>>
        /\ \A k \in 1..n : f[k] = reflow_line(f[k - 1], spaced(lines[k]), columns)
    BY <1>1 DEF FlowChain
  <1>4. n \in Nat /\ DOMAIN lines = 1..n
    BY <1>2
  <1> DEFINE T == {k \in 0..n : AllPaired(f[k].rows)}
  <1>5. 0 \in T
    <2>1. 0 \in 0..n
      BY <1>4
    <2> QED
      BY <1>3, <2>1, NothingPaired
  <1>6. ASSUME NEW k \in 1..n, k - 1 \in T PROVE k \in T
    <2> DEFINE acc == f[k - 1]
               line == spaced(lines[k])
               more == visual_rows(line, columns, acc.nextId)
    <2>1. k \in 0..n /\ k - 1 \in 0..n
      BY <1>4
    <2>2. acc \in Flows(columns) /\ AllPaired(acc.rows)
      BY <1>3, <1>6, <2>1
    <2>3. lines[k] \in Lines /\ Paired(lines[k].cells)
      BY <1>2, <1>4, ElementOfSeq DEF AllPaired
    <2>4. line \in Lines /\ Paired(line.cells) /\ Placed(line.cells, columns)
      BY <2>3, SpacersType, SpacersPaired
    <2>5. f[k] = reflow_line(acc, line, columns)
      BY <1>3
    <2> HIDE DEF acc, line, spaced, n
    <2>6. f[k].rows = acc.rows \o more
      <3>1. columns \in Nat \ {0}
        OBVIOUS
      <3> DEFINE next == reflow_line(acc, line, columns)
      <3>2. next.rows = acc.rows \o more
        BY <2>2, <2>4, <3>1, ReflowLineParts
      <3> HIDE DEF next
      <3> QED
        BY <2>5, <3>2 DEF next
    <2>7. acc.rows \in Seq(RowSet) /\ acc.nextId \in Nat \ {0}
      BY <2>2 DEF Flows
    <2>8. more \in Seq(RowSet)
      BY <2>4, <2>7, VisualRowsType
    <2>9. AllPaired(more)
      BY <2>4, <2>7, VisualRowsPaired
    <2> HIDE DEF more
    <2>10. AllPaired(acc.rows \o more)
      BY <2>2, <2>7, <2>8, <2>9, ConcatPaired
    <2> QED
      BY <2>1, <2>6, <2>10
  <1>7. n \in T
    <2> HIDE DEF T, n, spaced
    <2>1. \A k \in 0..n : k \in T
      BY <1>4, <1>5, <1>6, UpTo
    <2> QED
      BY <1>4, <2>1
  <1> QED
    BY <1>3, <1>7 DEF flow

=============================================================================
