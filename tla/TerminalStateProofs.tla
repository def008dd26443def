------------------------ MODULE TerminalStateProofs ------------------------
(***************************************************************************)
(* Proofs about TerminalState, for every size, budget and sequence of      *)
(* actions.  The inductive invariant is Good, with DamageCovers: the       *)
(* types, a primary screen that fits, a scrollback within its budgets,     *)
(* rows with ids of their own, and a panic on the alternate screen only.   *)
(* What an operator does from a good state is said by Follows, what a      *)
(* resize does by ResizedTo.  Where nothing is erased and only the primary *)
(* screen is used, Wide is inductive too: the rows keep their pairs of a   *)
(* wide character and its spacer.                                          *)
(***************************************************************************)
EXTENDS TerminalState, TerminalScreenProofs, FiniteSetTheorems

ScreenSet ==
    [rows : Seq(RowSet), row : Nat, col : Nat, visible : BOOLEAN, wrap : BOOLEAN]

Terminals ==
    [dims : Sizes, primary : ScreenSet, alternate : ScreenSet,
     active : {"primary", "alternate"}, scrollback : Scrollbacks, nextId : Nat \ {0},
     damage : SUBSET Nat, shade : BOOLEAN,
     saved : [screen : {"none", "primary", "alternate"}, row : Nat, col : Nat],
     panicked : BOOLEAN]

(* PrimaryFits, of any screen.                                             *)
ScreenFits(s, dims) ==
    /\ Len(s.rows) = dims.rows /\ Sized(s.rows, dims.cols)
    /\ s.row < dims.rows /\ s.col < dims.cols
    /\ s.wrap => s.col = dims.cols - 1

Apart(a, b) == \A i \in DOMAIN a, j \in DOMAIN b : a[i].id # b[j].id

(* DistinctRows, part by part.                                             *)
Distinct(t) ==
    /\ Inj(t.scrollback.rows) /\ Inj(t.primary.rows) /\ Inj(t.alternate.rows)
    /\ Apart(t.scrollback.rows, t.primary.rows)
    /\ Apart(t.scrollback.rows, t.alternate.rows)
    /\ Apart(t.primary.rows, t.alternate.rows)
    /\ Below(t.scrollback.rows, t.nextId) /\ Below(t.primary.rows, t.nextId)
    /\ Below(t.alternate.rows, t.nextId)

Good(t) ==
    /\ t \in Terminals /\ ValidSize(t.dims)
    /\ ScreenFits(t.primary, t.dims)
    /\ t.alternate.rows # <<>>
    /\ Bounded(t.scrollback)
    /\ Distinct(t)
    /\ t.panicked => t.active = "alternate"

(* The renderer sees the same row r.                                       *)
SameRow(a, b, r) ==
    /\ r + 1 \in DOMAIN a <=> r + 1 \in DOMAIN b
    /\ r + 1 \in DOMAIN a => a[r + 1] = b[r + 1]

(* A row of the scrollback was there before or comes from the primary      *)
(* screen or is new; a row of the primary screen comes from it or is new.  *)
Known(row, t) ==
    \/ \E j \in DOMAIN t.primary.rows : row.id = t.primary.rows[j].id
    \/ t.nextId <= row.id

Remembers(t, u) ==
    /\ \A i \in DOMAIN u.scrollback.rows :
         \/ \E j \in DOMAIN t.scrollback.rows : u.scrollback.rows[i] = t.scrollback.rows[j]
         \/ Known(u.scrollback.rows[i], t)
    /\ \A i \in DOMAIN u.primary.rows : Known(u.primary.rows[i], t)

Isolated(t, u) ==
    /\ u.primary = [t.primary EXCEPT !.visible = u.primary.visible]
    /\ u.scrollback = t.scrollback

(* u comes of the good state t; what changed outside the rows S is in the  *)
(* damage set.                                                             *)
Follows(t, u, S) ==
    /\ Good(u) /\ u.dims = t.dims /\ t.nextId <= u.nextId
    /\ t.damage \subseteq u.damage
    /\ \A r \in 0..Rows(t) - 1 :
         \/ r \in S \/ r \in u.damage
         \/ u.active = t.active /\ SameRow(Active(t).rows, Active(u).rows, r)
    /\ t.active = "alternate" /\ u.active = "alternate" => Isolated(t, u)
    /\ Remembers(t, u)

-----------------------------------------------------------------------------
(* Parts of a good state.                                                  *)

LEMMA TerminalParts ==
    ASSUME NEW t \in Terminals
    PROVE  /\ t.dims \in Sizes /\ t.primary \in ScreenSet /\ t.alternate \in ScreenSet
           /\ t.active \in {"primary", "alternate"} /\ t.scrollback \in Scrollbacks
           /\ t.nextId \in Nat \ {0} /\ t.damage \in SUBSET Nat /\ t.shade \in BOOLEAN
           /\ t.saved \in [screen : {"none", "primary", "alternate"}, row : Nat, col : Nat]
           /\ t.panicked \in BOOLEAN
  BY DEF Terminals

LEMMA ScreenParts ==
    ASSUME NEW s \in ScreenSet
    PROVE  /\ s.rows \in Seq(RowSet) /\ Len(s.rows) \in Nat /\ DOMAIN s.rows = 1..Len(s.rows)
           /\ \A i \in DOMAIN s.rows : s.rows[i] \in RowSet /\ s.rows[i].id \in Nat
           /\ s.row \in Nat /\ s.col \in Nat /\ s.visible \in BOOLEAN /\ s.wrap \in BOOLEAN
  <1>1. s.rows \in Seq(RowSet) /\ s.row \in Nat /\ s.col \in Nat
        /\ s.visible \in BOOLEAN /\ s.wrap \in BOOLEAN
    BY DEF ScreenSet
  <1>2. \A i \in DOMAIN s.rows : s.rows[i] \in RowSet
    BY <1>1
  <1> QED
    BY <1>1, <1>2, RowParts

LEMMA SizeParts ==
    ASSUME NEW dims, ValidSize(dims)
    PROVE  dims.cols \in Nat \ {0} /\ dims.rows \in Nat \ {0}
  BY TerminalAssumption DEF ValidSize

LEMMA ActiveType ==
    ASSUME NEW t \in Terminals
    PROVE  Active(t) \in ScreenSet
  BY TerminalParts DEF Active

(* The active screen of a good state.                                      *)
LEMMA GoodParts ==
    ASSUME NEW t, Good(t)
    PROVE  /\ t \in Terminals /\ Columns(t) \in Nat \ {0} /\ Rows(t) \in Nat \ {0}
           /\ Active(t) \in ScreenSet /\ Active(t).rows # <<>> /\ t.nextId \in Nat \ {0}
           /\ t.active \in {"primary", "alternate"}
           /\ t.active = "primary" => ScreenFits(Active(t), t.dims) /\ Active(t) = t.primary
           /\ t.active # "primary" => Active(t) = t.alternate
  <1>1. t \in Terminals /\ ValidSize(t.dims) /\ ScreenFits(t.primary, t.dims)
        /\ t.alternate.rows # <<>>
    BY DEF Good
  <1>2. Columns(t) \in Nat \ {0} /\ Rows(t) \in Nat \ {0}
    BY <1>1, SizeParts DEF Columns, Rows
  <1>3. Active(t) \in ScreenSet /\ t.nextId \in Nat \ {0}
        /\ t.active \in {"primary", "alternate"}
    BY <1>1, ActiveType, TerminalParts
  <1>4. t.primary.rows # <<>>
    BY <1>1, <1>2 DEF ScreenFits, Rows
  <1> QED
    BY <1>1, <1>2, <1>3, <1>4 DEF Active

-----------------------------------------------------------------------------
(* Follows composes.                                                       *)

LEMMA KnownTwice ==
    ASSUME NEW t, NEW m, NEW row, t.nextId \in Nat, m.nextId \in Nat, row.id \in Nat,
           t.nextId <= m.nextId, Known(row, m),
           \A i \in DOMAIN m.primary.rows : Known(m.primary.rows[i], t)
    PROVE  Known(row, t)
  BY DEF Known

LEMMA RemembersSelf ==
    ASSUME NEW t
    PROVE  Remembers(t, t)
  BY DEF Remembers, Known

LEMMA FollowsSelf ==
    ASSUME NEW t, Good(t), NEW S
    PROVE  Follows(t, t, S)
  <1>1. t.nextId \in Nat /\ t.primary \in ScreenSet
    BY GoodParts, TerminalParts DEF Good
  <1>2. t.primary = [t.primary EXCEPT !.visible = t.primary.visible]
    BY <1>1 DEF ScreenSet
  <1> QED
    BY <1>1, <1>2, RemembersSelf DEF Follows, SameRow, Isolated

LEMMA FollowsTwice ==
    ASSUME NEW t, NEW m, NEW u, NEW S, NEW Q, Good(t), Follows(t, m, S), Follows(m, u, Q),
           t.active = u.active => m.active = t.active
    PROVE  Follows(t, u, S \cup Q)
  <1>1. /\ Good(t) /\ Good(m) /\ Good(u) /\ m.dims = t.dims /\ u.dims = m.dims
        /\ t.nextId <= m.nextId /\ m.nextId <= u.nextId
        /\ t.damage \subseteq m.damage /\ m.damage \subseteq u.damage
    BY DEF Follows
  <1>2. /\ t.nextId \in Nat /\ m.nextId \in Nat /\ u.nextId \in Nat
        /\ t.active \in {"primary", "alternate"} /\ m.active \in {"primary", "alternate"}
        /\ u.active \in {"primary", "alternate"}
        /\ u.scrollback \in Scrollbacks /\ u.primary \in ScreenSet
        /\ m.primary \in ScreenSet /\ t.primary \in ScreenSet
    BY <1>1, GoodParts, TerminalParts
  <1>3. t.nextId <= u.nextId /\ t.damage \subseteq u.damage /\ u.dims = t.dims
    BY <1>1, <1>2
  <1>4. ASSUME NEW r \in 0..Rows(t) - 1
        PROVE  \/ r \in S \cup Q \/ r \in u.damage
               \/ u.active = t.active /\ SameRow(Active(t).rows, Active(u).rows, r)
    <2>1. r \in 0..Rows(m) - 1
      BY <1>1 DEF Rows
    <2>2. \/ r \in S \/ r \in m.damage
          \/ m.active = t.active /\ SameRow(Active(t).rows, Active(m).rows, r)
      BY DEF Follows
    <2>3. \/ r \in Q \/ r \in u.damage
          \/ u.active = m.active /\ SameRow(Active(m).rows, Active(u).rows, r)
      BY <2>1 DEF Follows
    <2>4. ASSUME SameRow(Active(t).rows, Active(m).rows, r),
                 SameRow(Active(m).rows, Active(u).rows, r)
          PROVE  SameRow(Active(t).rows, Active(u).rows, r)
      BY <2>4 DEF SameRow
    <2> QED
      BY <1>1, <2>2, <2>3, <2>4
  <1>5. ASSUME t.active = "alternate", u.active = "alternate"
        PROVE  Isolated(t, u)
    <2>1. Isolated(t, m) /\ Isolated(m, u)
      BY <1>5 DEF Follows
    <2>2. \A s \in ScreenSet : \A a, b \in BOOLEAN :
             [[s EXCEPT !.visible = a] EXCEPT !.visible = b] = [s EXCEPT !.visible = b]
      BY DEF ScreenSet
    <2>3. /\ m.primary = [t.primary EXCEPT !.visible = m.primary.visible]
          /\ u.primary = [m.primary EXCEPT !.visible = u.primary.visible]
          /\ m.primary.visible \in BOOLEAN /\ u.primary.visible \in BOOLEAN
      BY <1>2, <2>1, ScreenParts DEF Isolated
    <2>4. u.primary = [[t.primary EXCEPT !.visible = m.primary.visible]
                          EXCEPT !.visible = u.primary.visible]
      BY <2>3
    <2>5. u.primary = [t.primary EXCEPT !.visible = u.primary.visible]
      BY <1>2, <2>2, <2>3, <2>4
    <2> QED
      BY <2>1, <2>5 DEF Isolated
  <1>6. Remembers(t, u)
    <2>1. Remembers(t, m) /\ Remembers(m, u)
      BY DEF Follows
    <2>2. \A i \in DOMAIN m.primary.rows : Known(m.primary.rows[i], t)
      BY <2>1 DEF Remembers
    <2>3. ASSUME NEW row, row.id \in Nat, Known(row, m) PROVE Known(row, t)
      BY <1>1, <1>2, <2>2, <2>3, KnownTwice
    <2>4. /\ \A i \in DOMAIN u.primary.rows : u.primary.rows[i].id \in Nat
          /\ \A i \in DOMAIN u.scrollback.rows : u.scrollback.rows[i].id \in Nat
      <3>1. u.scrollback.rows \in Seq(RowSet)
        BY <1>2 DEF Scrollbacks
      <3> QED
        BY <1>2, <3>1, ScreenParts, RowParts, ElementOfSeq
    <2>5. \A i \in DOMAIN u.primary.rows : Known(u.primary.rows[i], t)
      BY <2>1, <2>3, <2>4 DEF Remembers
    <2>6. ASSUME NEW i \in DOMAIN u.scrollback.rows
          PROVE  \/ \E j \in DOMAIN t.scrollback.rows :
                      u.scrollback.rows[i] = t.scrollback.rows[j]
                 \/ Known(u.scrollback.rows[i], t)
      <3>1. CASE Known(u.scrollback.rows[i], m)
        BY <2>3, <2>4, <3>1
      <3>2. CASE \E k \in DOMAIN m.scrollback.rows :
                   u.scrollback.rows[i] = m.scrollback.rows[k]
        BY <2>1, <3>2 DEF Remembers
      <3> QED
        BY <2>1, <3>1, <3>2 DEF Remembers
    <2> QED
      BY <2>5, <2>6 DEF Remembers
  <1> QED
    BY <1>1, <1>3, <1>4, <1>5, <1>6 DEF Follows

-----------------------------------------------------------------------------
(* The basic steps: a changed screen, a mark, a panic.                     *)

SameIds(a, b) == DOMAIN a = DOMAIN b /\ \A i \in DOMAIN a : a[i].id = b[i].id

LEMMA SameIdsDistinct ==
    ASSUME NEW a, NEW b, SameIds(a, b)
    PROVE  /\ Inj(b) => Inj(a)
           /\ \A c : Apart(b, c) => Apart(a, c)
           /\ \A c : Apart(c, b) => Apart(c, a)
           /\ \A id : Below(b, id) => Below(a, id)
  <1>1. Inj(b) => Inj(a)
    BY DEF SameIds, Inj
  <1>2. \A c : Apart(b, c) => Apart(a, c)
    BY DEF SameIds, Apart
  <1>3. \A c : Apart(c, b) => Apart(c, a)
    BY DEF SameIds, Apart
  <1>4. \A id : Below(b, id) => Below(a, id)
    BY DEF SameIds, Below
  <1> QED
    BY <1>1, <1>2, <1>3, <1>4

(* What Update changes.                                                    *)
LEMMA UpdateParts ==
    ASSUME NEW t \in Terminals, NEW s \in ScreenSet
    PROVE  LET u == Update(t, s) IN
           /\ u \in Terminals /\ Active(u) = s
           /\ u.dims = t.dims /\ u.active = t.active /\ u.scrollback = t.scrollback
           /\ u.nextId = t.nextId /\ u.damage = t.damage /\ u.panicked = t.panicked
           /\ u.saved = t.saved /\ u.shade = t.shade
           /\ t.active = "primary" => u.primary = s /\ u.alternate = t.alternate
           /\ t.active # "primary" => u.primary = t.primary /\ u.alternate = s
  <1>1. CASE t.active = "primary"
    BY <1>1 DEF Update, Active, Terminals
  <1>2. CASE t.active # "primary"
    BY <1>2 DEF Update, Active, Terminals
  <1> QED
    BY <1>1, <1>2

LEMMA UpdateFollows ==
    ASSUME NEW t, Good(t), NEW s \in ScreenSet, SameIds(s.rows, Active(t).rows),
           t.active = "primary" => ScreenFits(s, t.dims), NEW S,
           \A r \in 0..Rows(t) - 1 : r \in S \/ SameRow(Active(t).rows, s.rows, r)
    PROVE  Follows(t, Update(t, s), S) /\ Active(Update(t, s)) = s
  <1> DEFINE u == Update(t, s)
  <1>0. t \in Terminals /\ t.nextId \in Nat \ {0} /\ t.active \in {"primary", "alternate"}
    BY GoodParts
  <1>1. /\ u \in Terminals /\ Active(u) = s
        /\ u.dims = t.dims /\ u.active = t.active /\ u.scrollback = t.scrollback
        /\ u.nextId = t.nextId /\ u.damage = t.damage /\ u.panicked = t.panicked
        /\ t.active = "primary" => u.primary = s /\ u.alternate = t.alternate
        /\ t.active # "primary" => u.primary = t.primary /\ u.alternate = s
    BY <1>0, UpdateParts
  <1> HIDE DEF u
  <1>2. Distinct(t) /\ ValidSize(t.dims) /\ ScreenFits(t.primary, t.dims)
        /\ t.alternate.rows # <<>> /\ Bounded(t.scrollback)
        /\ (t.panicked => t.active = "alternate")
    BY DEF Good
  <1>3. /\ Inj(Active(t).rows) => Inj(s.rows)
        /\ \A c : Apart(Active(t).rows, c) => Apart(s.rows, c)
        /\ \A c : Apart(c, Active(t).rows) => Apart(c, s.rows)
        /\ \A id : Below(Active(t).rows, id) => Below(s.rows, id)
    BY SameIdsDistinct
  <1>4. Distinct(u)
    <2>1. CASE t.active = "primary"
      BY <1>1, <1>2, <1>3, <2>1 DEF Distinct, Active
    <2>2. CASE t.active # "primary"
      BY <1>1, <1>2, <1>3, <2>2 DEF Distinct, Active
    <2> QED
      BY <2>1, <2>2
  <1>5. s.rows # <<>>
    <2>1. Active(t).rows # <<>> /\ Active(t) \in ScreenSet
      BY GoodParts
    <2>2. DOMAIN Active(t).rows # {}
      BY <2>1, ScreenParts
    <2> QED
      BY <2>2 DEF SameIds
  <1>6. Good(u)
    <2>1. CASE t.active = "primary"
      BY <1>1, <1>2, <1>4, <2>1 DEF Good
    <2>2. CASE t.active # "primary"
      BY <1>0, <1>1, <1>2, <1>4, <1>5, <2>2 DEF Good
    <2> QED
      BY <2>1, <2>2
  <1>7. ASSUME t.active = "alternate" PROVE Isolated(t, u)
    <2>1. u.primary = t.primary /\ t.primary \in ScreenSet
      BY <1>0, <1>1, <1>7, TerminalParts
    <2>2. t.primary = [t.primary EXCEPT !.visible = t.primary.visible]
      BY <2>1 DEF ScreenSet
    <2> QED
      BY <1>1, <2>1, <2>2 DEF Isolated
  <1>8. Remembers(t, u)
    <2>1. CASE t.active = "primary"
      <3>1. SameIds(u.primary.rows, t.primary.rows)
        BY <1>1, <2>1 DEF Active
      <3>2. \A i \in DOMAIN u.primary.rows : Known(u.primary.rows[i], t)
        BY <3>1 DEF SameIds, Known
      <3> QED
        BY <1>1, <3>2 DEF Remembers
    <2>2. CASE t.active # "primary"
      <3>1. \A i \in DOMAIN u.primary.rows : Known(u.primary.rows[i], t)
        BY <1>1, <2>2 DEF Known
      <3> QED
        BY <1>1, <3>1 DEF Remembers
    <2> QED
      BY <2>1, <2>2
  <1>9. Follows(t, u, S)
    BY <1>0, <1>1, <1>6, <1>7, <1>8 DEF Follows
  <1> QED
    BY <1>1, <1>9 DEF u

(* Only the cursor changes.                                                *)
CursorAt(s, r, c, w) ==
    [rows |-> s.rows, row |-> r, col |-> c, visible |-> s.visible, wrap |-> w]

LEMMA CursorFollows ==
    ASSUME NEW t, Good(t), NEW r \in Nat, NEW c \in Nat, NEW w \in BOOLEAN,
           NEW s, s = CursorAt(Active(t), r, c, w),
           t.active = "primary" => r < Rows(t) /\ c < Columns(t) /\ (w => c = Columns(t) - 1)
    PROVE  /\ Follows(t, Update(t, s), {}) /\ Active(Update(t, s)) = s
           /\ s.rows = Active(t).rows /\ s.row = r /\ s.col = c /\ s.wrap = w
           /\ s \in ScreenSet
  <1>1. Active(t) \in ScreenSet
    BY GoodParts
  <1>2. s = [rows |-> Active(t).rows, row |-> r, col |-> c,
             visible |-> Active(t).visible, wrap |-> w]
    BY DEF CursorAt
  <1>3. /\ s \in ScreenSet /\ s.rows = Active(t).rows /\ s.row = r /\ s.col = c /\ s.wrap = w
    BY <1>1, <1>2, ScreenParts DEF ScreenSet
  <1>4. ASSUME t.active = "primary" PROVE ScreenFits(s, t.dims)
    <2>1. ScreenFits(Active(t), t.dims)
      BY <1>4, GoodParts
    <2> QED
      BY <1>3, <1>4, <2>1 DEF ScreenFits, Rows, Columns
  <1>5. SameIds(s.rows, Active(t).rows)
    BY <1>3 DEF SameIds
  <1>6. \A q \in 0..Rows(t) - 1 : SameRow(Active(t).rows, s.rows, q)
    BY <1>3 DEF SameRow
  <1>7. Follows(t, Update(t, s), {}) /\ Active(Update(t, s)) = s
    BY <1>3, <1>4, <1>5, <1>6, UpdateFollows
  <1> QED
    BY <1>3, <1>7

LEMMA MarkFollows ==
    ASSUME NEW t, NEW u, NEW S, Follows(t, u, S), NEW R \in SUBSET Nat
    PROVE  /\ Follows(t, mark(u, R), S \ R)
           /\ Active(mark(u, R)) = Active(u) /\ mark(u, R).active = u.active
           /\ mark(u, R).panicked = u.panicked
  <1> DEFINE m == mark(u, R)
  <1>1. Good(u) /\ u \in Terminals
    BY GoodParts DEF Follows
  <1>2. /\ m \in Terminals /\ m.damage = u.damage \cup R /\ m.dims = u.dims
        /\ m.primary = u.primary /\ m.alternate = u.alternate /\ m.active = u.active
        /\ m.scrollback = u.scrollback /\ m.nextId = u.nextId /\ m.panicked = u.panicked
    BY <1>1 DEF mark, Terminals
  <1> HIDE DEF m
  <1>3. Active(m) = Active(u)
    BY <1>2 DEF Active
  <1>4. Good(m)
    BY <1>1, <1>2 DEF Good, Distinct
  <1>5. Remembers(t, m)
    BY <1>2 DEF Follows, Remembers
  <1>6. Follows(t, m, S \ R)
    BY <1>2, <1>3, <1>4, <1>5 DEF Follows, Isolated
  <1> QED
    BY <1>2, <1>3, <1>6 DEF m

LEMMA PanicFollows ==
    ASSUME NEW t, Good(t), t.active # "primary"
    PROVE  Follows(t, Panicked(t), {}) /\ Panicked(t).active = t.active
  <1> DEFINE u == Panicked(t)
  <1>1. t \in Terminals /\ t.active = "alternate"
    BY GoodParts
  <1>2. /\ u \in Terminals /\ u.damage = t.damage /\ u.dims = t.dims
        /\ u.primary = t.primary /\ u.alternate = t.alternate /\ u.active = t.active
        /\ u.scrollback = t.scrollback /\ u.nextId = t.nextId
    BY <1>1 DEF Panicked, Terminals
  <1> HIDE DEF u
  <1>3. Active(u) = Active(t)
    BY <1>2 DEF Active
  <1>4. Good(u)
    BY <1>1, <1>2 DEF Good, Distinct
  <1>5. Follows(t, t, {})
    BY FollowsSelf
  <1>6. Remembers(t, u)
    BY <1>2, <1>5 DEF Follows, Remembers
  <1>7. Follows(t, u, {})
    BY <1>2, <1>3, <1>4, <1>5, <1>6 DEF Follows, Isolated
  <1> QED
    BY <1>2, <1>7 DEF u

(* A further step of the same screen.                                      *)
LEMMA Then ==
    ASSUME NEW t, NEW m, NEW u, NEW S, Good(t), m.active = t.active,
           Follows(t, m, S), Follows(m, u, {})
    PROVE  Follows(t, u, S)
  <1>1. S \cup {} = S
    OBVIOUS
  <1> QED
    BY <1>1, FollowsTwice

-----------------------------------------------------------------------------
(* The cursor.                                                             *)

(* u has the rows, the cursor and the wrap flag given.                     *)
Cursor(u, t, r, c, w) ==
    /\ Follows(t, u, {}) /\ u.active = t.active /\ u.panicked = t.panicked
    /\ Active(u).rows = Active(t).rows
    /\ Active(u).row = r /\ Active(u).col = c /\ Active(u).wrap = w

LEMMA MoveToCursor ==
    ASSUME NEW t, Good(t), NEW r \in Nat, NEW c \in Nat,
           t.active = "primary" =>
             r < Rows(t) /\ c < Columns(t) /\ (Active(t).wrap => c = Columns(t) - 1)
    PROVE  Cursor(move_to(t, r, c), t, r, c, Active(t).wrap)
  <1> DEFINE s == set_cursor(Active(t), r, c)
  <1>1. t \in Terminals /\ Active(t) \in ScreenSet
    BY GoodParts
  <1>20. s = [Active(t) EXCEPT !.row = r, !.col = c]
    BY DEF set_cursor
  <1> HIDE DEF s
  <1>2. s = CursorAt(Active(t), r, c, Active(t).wrap)
    BY <1>1, <1>20 DEF CursorAt, ScreenSet
  <1>3. Active(t).wrap \in BOOLEAN
    BY <1>1, ScreenParts
  <1>4. /\ Follows(t, Update(t, s), {}) /\ Active(Update(t, s)) = s /\ s \in ScreenSet
        /\ s.rows = Active(t).rows /\ s.row = r /\ s.col = c /\ s.wrap = Active(t).wrap
    BY <1>2, <1>3, CursorFollows
  <1>5. Update(t, s).active = t.active /\ Update(t, s).panicked = t.panicked
    BY <1>1, <1>4, UpdateParts
  <1>6. move_to(t, r, c) = Update(t, s)
    BY DEF move_to, s
  <1> QED
    BY <1>4, <1>5, <1>6 DEF Cursor

LEMMA UnwrappedCursor ==
    ASSUME NEW t, Good(t)
    PROVE  Cursor(unwrapped(t), t, Active(t).row, Active(t).col, FALSE)
  <1> DEFINE s == [Active(t) EXCEPT !.wrap = FALSE]
             r == Active(t).row
             c == Active(t).col
  <1>1. t \in Terminals /\ Active(t) \in ScreenSet
        /\ (t.active = "primary" => ScreenFits(Active(t), t.dims))
    BY GoodParts
  <1>20. s = [Active(t) EXCEPT !.wrap = FALSE]
    OBVIOUS
  <1>5. unwrapped(t) = Update(t, s)
    BY DEF unwrapped
  <1> HIDE DEF s
  <1>2. s = CursorAt(Active(t), r, c, FALSE)
    BY <1>1, <1>20 DEF CursorAt, ScreenSet
  <1>3. r \in Nat /\ c \in Nat
    BY <1>1, ScreenParts
  <1>4. t.active = "primary" => r < Rows(t) /\ c < Columns(t)
    BY <1>1 DEF ScreenFits, Rows, Columns
  <1> DEFINE w == FALSE
  <1>60. w \in BOOLEAN /\ ~w /\ s = CursorAt(Active(t), r, c, w)
    BY <1>2
  <1> HIDE DEF r, c, w
  <1>6. /\ Follows(t, Update(t, s), {}) /\ Active(Update(t, s)) = s /\ s \in ScreenSet
        /\ s.rows = Active(t).rows /\ s.row = r /\ s.col = c /\ s.wrap = w
    BY <1>3, <1>4, <1>60, CursorFollows
  <1>7. Update(t, s).active = t.active /\ Update(t, s).panicked = t.panicked
    BY <1>1, <1>6, UpdateParts
  <1> QED
    BY <1>5, <1>6, <1>7 DEF Cursor, r, c, w

(* Leave the pending wrap and go to a place on the screen, marking rows.   *)
LEMMA UnwrapAndMove ==
    ASSUME NEW t, Good(t), NEW r \in Nat, NEW c \in Nat, NEW R \in SUBSET Nat,
           t.active = "primary" => r < Rows(t) /\ c < Columns(t)
    PROVE  LET u == mark(move_to(unwrapped(t), r, c), R) IN
           Follows(t, u, {}) /\ u.active = t.active /\ u.panicked = t.panicked
  <1> DEFINE one == unwrapped(t)
             two == move_to(one, r, c)
  <1>1. Cursor(one, t, Active(t).row, Active(t).col, FALSE)
    BY UnwrappedCursor
  <1> HIDE DEF one
  <1>2. /\ Follows(t, one, {}) /\ one.active = t.active /\ one.panicked = t.panicked
        /\ Active(one).wrap = FALSE
    BY <1>1 DEF Cursor
  <1>3. Good(one) /\ Rows(one) = Rows(t) /\ Columns(one) = Columns(t)
    BY <1>2 DEF Follows, Rows, Columns
  <1>4. Cursor(two, one, r, c, FALSE)
    BY <1>2, <1>3, MoveToCursor
  <1> HIDE DEF two
  <1>5. Follows(one, two, {}) /\ two.active = t.active /\ two.panicked = t.panicked
    BY <1>2, <1>4 DEF Cursor
  <1>6. Follows(t, two, {})
    BY <1>2, <1>5, Then
  <1>7. {} \ R = {}
    OBVIOUS
  <1>8. /\ Follows(t, mark(two, R), {} \ R) /\ mark(two, R).active = two.active
        /\ mark(two, R).panicked = two.panicked
    BY <1>6, MarkFollows
  <1> QED
    BY <1>5, <1>7, <1>8 DEF two, one

-----------------------------------------------------------------------------
(* Scrolling.                                                              *)

LEMMA PushDistinct ==
    ASSUME NEW sb \in Scrollbacks, Bounded(sb), NEW row \in RowSet, Inj(sb.rows),
           \A i \in DOMAIN sb.rows : sb.rows[i].id # row.id
    PROVE  LET next == push(sb, row) IN
           /\ next \in Scrollbacks /\ Bounded(next) /\ Inj(next.rows)
           /\ \A i \in DOMAIN next.rows :
                next.rows[i] = row \/ \E j \in DOMAIN sb.rows : next.rows[i] = sb.rows[j]
  <1> DEFINE next == push(sb, row)
             n == Len(sb.rows)
             all == Append(sb.rows, row)
  <1>1. /\ next \in Scrollbacks /\ Bounded(next)
        /\ \/ next.rows = sb.rows
           \/ \E k \in 0..n + 1 : next.rows = SubSeq(all, k + 1, n + 1)
    BY PushKeepsSuffix
  <1> HIDE DEF next
  <1>2. sb.rows \in Seq(RowSet) /\ n \in Nat /\ DOMAIN sb.rows = 1..n
    BY DEF Scrollbacks
  <1>3. /\ all \in Seq(RowSet) /\ Len(all) = n + 1 /\ all[n + 1] = row
        /\ \A i \in 1..n : all[i] = sb.rows[i]
    BY <1>2, AppendProperties
  <1> HIDE DEF n, all
  <1>4. \A i, j \in 1..(n + 1) : all[i].id = all[j].id => i = j
    BY <1>2, <1>3 DEF Inj
  <1>5. CASE next.rows = sb.rows
    BY <1>1, <1>5 DEF next
  <1>6. CASE \E k \in 0..n + 1 : next.rows = SubSeq(all, k + 1, n + 1)
    <2>1. PICK k \in 0..n + 1 : next.rows = SubSeq(all, k + 1, n + 1)
      BY <1>6
    <2>2. k \in 0..Len(all)
      BY <1>2, <1>3
    <2>3. /\ next.rows \in Seq(RowSet) /\ Len(next.rows) = n + 1 - k
          /\ \A i \in 1..n + 1 - k : next.rows[i] = all[i + k]
      <3>1. LET back == SubSeq(all, k + 1, Len(all)) IN
            /\ back \in Seq(RowSet) /\ Len(back) = Len(all) - k
            /\ \A i \in 1..Len(all) - k : back[i] = all[i + k]
        BY <1>3, <2>2, SuffixRows
      <3>2. next.rows = SubSeq(all, k + 1, Len(all))
        BY <1>3, <2>1
      <3>3. /\ next.rows \in Seq(RowSet) /\ Len(next.rows) = Len(all) - k
            /\ \A i \in 1..Len(all) - k : next.rows[i] = all[i + k]
        BY <3>1, <3>2
      <3> QED
        BY <1>2, <1>3, <3>3
    <2>4. DOMAIN next.rows = 1..n + 1 - k
      BY <2>3
    <2>5. \A i \in 1..n + 1 - k : i + k \in 1..(n + 1)
      BY <1>2
    <2>6. Inj(next.rows)
      <3> SUFFICES ASSUME NEW i \in 1..n + 1 - k, NEW j \in 1..n + 1 - k,
                          next.rows[i].id = next.rows[j].id
                   PROVE  i = j
        BY <2>4 DEF Inj
      <3>1. i + k = j + k
        BY <1>4, <2>3, <2>5
      <3> QED
        BY <1>2, <3>1
    <2>7. \A i \in DOMAIN next.rows :
             next.rows[i] = row \/ \E j \in DOMAIN sb.rows : next.rows[i] = sb.rows[j]
      <3> SUFFICES ASSUME NEW i \in 1..n + 1 - k
                   PROVE  next.rows[i] = row
                          \/ \E j \in DOMAIN sb.rows : next.rows[i] = sb.rows[j]
        BY <2>4
      <3>1. next.rows[i] = all[i + k] /\ (i + k \in 1..n \/ i + k = n + 1)
        BY <1>2, <2>3, <2>5
      <3> QED
        BY <1>2, <1>3, <3>1
    <2> QED
      BY <1>1, <2>6, <2>7 DEF next
  <1> QED
    BY <1>1, <1>5, <1>6

(* The rows with the first one gone and a new one at the end.              *)
LEMMA ScrolledRows ==
    ASSUME NEW rows \in Seq(RowSet), rows # <<>>, NEW row \in RowSet,
           Inj(rows), Below(rows, row.id)
    PROVE  LET up == Append(Tail(rows), row) IN
           /\ up \in Seq(RowSet) /\ Len(up) = Len(rows) /\ Inj(up)
           /\ Below(up, row.id + 1)
           /\ \A i \in DOMAIN up : up[i] = row \/ \E j \in 2..Len(rows) : up[i] = rows[j]
           /\ Head(rows) = rows[1] /\ 1 \in DOMAIN rows
  <1> DEFINE n == Len(rows)
             up == Append(Tail(rows), row)
  <1>1. n \in Nat \ {0} /\ DOMAIN rows = 1..n /\ Head(rows) = rows[1]
    OBVIOUS
  <1>2. /\ Tail(rows) \in Seq(RowSet) /\ Len(Tail(rows)) = n - 1
        /\ \A i \in 1..(n - 1) : Tail(rows)[i] = rows[i + 1]
    BY HeadTailProperties
  <1>3. /\ up \in Seq(RowSet) /\ Len(up) = n /\ DOMAIN up = 1..n /\ up[n] = row
        /\ \A i \in 1..(n - 1) : up[i] = rows[i + 1]
    BY <1>1, <1>2, AppendProperties
  <1> HIDE DEF n, up
  <1>4. ASSUME NEW i \in 1..n, i # n PROVE i \in 1..(n - 1) /\ i + 1 \in 1..n /\ i + 1 \in 2..n
    BY <1>1, <1>4
  <1>5. \A i \in 1..n : rows[i].id \in Nat /\ rows[i].id < row.id
    BY <1>1, RowParts, ElementOfSeq DEF Below, n
  <1>6. row.id \in Nat
    BY RowParts
  <1>7. ASSUME NEW i \in 1..n, NEW j \in 1..n, up[i].id = up[j].id
        PROVE  i = j
    <2>1. CASE i # n /\ j # n
      <3>1. rows[i + 1].id = rows[j + 1].id
        BY <1>3, <1>4, <1>7, <2>1
      <3>2. i + 1 = j + 1
        BY <1>1, <1>4, <2>1, <3>1 DEF Inj
      <3> QED
        BY <1>1, <3>2
    <2>2. CASE i = n /\ j # n
      <3>1. up[j].id < row.id /\ up[j].id \in Nat
        BY <1>3, <1>4, <1>5, <2>2
      <3> QED
        BY <1>3, <1>6, <1>7, <2>2, <3>1
    <2>3. CASE i # n /\ j = n
      <3>1. up[i].id < row.id /\ up[i].id \in Nat
        BY <1>3, <1>4, <1>5, <2>3
      <3> QED
        BY <1>3, <1>6, <1>7, <2>3, <3>1
    <2> QED
      BY <2>1, <2>2, <2>3
  <1>8. \A i \in 1..n : up[i].id < row.id + 1
    <2> TAKE i \in 1..n
    <2>1. CASE i = n
      BY <1>3, <1>6, <2>1
    <2>2. CASE i # n
      <3>1. up[i].id < row.id /\ up[i].id \in Nat
        BY <1>3, <1>4, <1>5, <2>2
      <3> QED
        BY <1>6, <3>1
    <2> QED
      BY <2>1, <2>2
  <1>9. \A i \in 1..n : up[i] = row \/ \E j \in 2..n : up[i] = rows[j]
    BY <1>3, <1>4
  <1>10. Inj(up) /\ Below(up, row.id + 1) /\ 1 \in DOMAIN rows
    BY <1>1, <1>3, <1>7, <1>8 DEF Inj, Below
  <1> QED
    BY <1>1, <1>3, <1>9, <1>10 DEF up, n

(* The fields of the state when the active screen has scrolled.            *)
LEMMA ScrollParts ==
    ASSUME NEW t, Good(t)
    PROVE  LET u == scroll_active_screen_up(t)
               s == Active(t)
               row == blank_row(Columns(t), t.nextId)
               up == [rows |-> Append(Tail(s.rows), row), row |-> s.row, col |-> s.col,
                      visible |-> s.visible, wrap |-> s.wrap]
           IN
           /\ u \in Terminals /\ up \in ScreenSet /\ Active(u) = up
           /\ u.dims = t.dims /\ u.active = t.active /\ u.panicked = t.panicked
           /\ u.nextId = t.nextId + 1 /\ u.damage = t.damage \cup (0..Rows(t) - 1)
           /\ t.active = "primary" =>
                /\ u.primary = up /\ u.alternate = t.alternate
                /\ u.scrollback = push(t.scrollback, Head(s.rows))
           /\ t.active # "primary" =>
                /\ u.primary = t.primary /\ u.alternate = up
                /\ u.scrollback = t.scrollback
  <1> DEFINE u == scroll_active_screen_up(t)
             s == Active(t)
             row == blank_row(Columns(t), t.nextId)
             rows == Append(Tail(s.rows), row)
             up == [rows |-> rows, row |-> s.row, col |-> s.col,
                    visible |-> s.visible, wrap |-> s.wrap]
             scrolled == [s EXCEPT !.rows = rows]
             after == [Update(t, scrolled) EXCEPT !.nextId = @ + 1]
             pushed == push(t.scrollback, Head(s.rows))
             last == IF t.active = "primary"
                     THEN [after EXCEPT !.scrollback = push(@, Head(s.rows))] ELSE after
  <1>1. /\ t \in Terminals /\ Columns(t) \in Nat \ {0} /\ Rows(t) \in Nat \ {0}
        /\ s \in ScreenSet /\ s.rows # <<>> /\ t.nextId \in Nat \ {0}
        /\ t.active \in {"primary", "alternate"}
    BY GoodParts
  <1>2. s.rows \in Seq(RowSet) /\ row \in RowSet
    BY <1>1, ScreenParts, BlankRowType
  <1>3. rows \in Seq(RowSet)
    BY <1>1, <1>2, HeadTailProperties, AppendProperties
  <1>4. t.scrollback \in Scrollbacks /\ Bounded(t.scrollback) /\ t.damage \in SUBSET Nat
    BY <1>1, TerminalParts DEF Good
  <1>5. pushed \in Scrollbacks
    <2>1. Head(s.rows) \in RowSet
      BY <1>1, <1>2, HeadTailProperties
    <2> QED
      BY <1>4, <2>1, PushKeepsSuffix
  <1>6. u = mark(last, 0..Rows(last) - 1)
    <2>1. u = mark_all(last)
      BY DEF scroll_active_screen_up
    <2> HIDE DEF last, u
    <2> QED
      BY <2>1 DEF mark_all
  <1> HIDE DEF pushed, rows, u, last
  <1>7. scrolled = up
    BY <1>1 DEF ScreenSet
  <1>8. up \in ScreenSet
    BY <1>1, <1>3, ScreenParts DEF ScreenSet
  <1>9. after = [Update(t, up) EXCEPT !.nextId = @ + 1]
    BY <1>7
  <1> HIDE DEF up, after, s
  <1> DEFINE v == Update(t, up)
  <1>10. /\ v \in Terminals
         /\ v.dims = t.dims /\ v.active = t.active /\ v.scrollback = t.scrollback
         /\ v.nextId = t.nextId /\ v.damage = t.damage /\ v.panicked = t.panicked
         /\ t.active = "primary" => v.primary = up /\ v.alternate = t.alternate
         /\ t.active # "primary" => v.primary = t.primary /\ v.alternate = up
    BY <1>1, <1>8, UpdateParts
  <1> HIDE DEF v
  <1>11. /\ after \in Terminals
         /\ after.dims = t.dims /\ after.active = t.active /\ after.scrollback = t.scrollback
         /\ after.nextId = t.nextId + 1 /\ after.damage = t.damage
         /\ after.panicked = t.panicked
         /\ t.active = "primary" => after.primary = up /\ after.alternate = t.alternate
         /\ t.active # "primary" => after.primary = t.primary /\ after.alternate = up
    <2>1. after = [v EXCEPT !.nextId = v.nextId + 1] /\ v.nextId + 1 \in Nat \ {0}
      BY <1>1, <1>9, <1>10 DEF v
    <2> QED
      BY <1>10, <2>1 DEF Terminals
  <1>12. /\ last \in Terminals
         /\ last.dims = t.dims /\ last.active = t.active
         /\ last.nextId = t.nextId + 1 /\ last.damage = t.damage
         /\ last.panicked = t.panicked
         /\ t.active = "primary" => /\ last.primary = up /\ last.alternate = t.alternate
                                    /\ last.scrollback = pushed
         /\ t.active # "primary" => /\ last.primary = t.primary /\ last.alternate = up
                                    /\ last.scrollback = t.scrollback
    <2>1. CASE t.active = "primary"
      <3>1. last = [after EXCEPT !.scrollback = pushed]
        BY <1>11, <2>1 DEF pushed, last
      <3> HIDE DEF last
      <3> QED
        BY <1>5, <1>11, <2>1, <3>1 DEF Terminals
    <2>2. CASE t.active # "primary"
      BY <1>11, <2>2 DEF last
    <2> QED
      BY <2>1, <2>2
  <1>13. Rows(last) = Rows(t) /\ (0..Rows(t) - 1) \subseteq Nat
    BY <1>1, <1>12 DEF Rows
  <1>14. /\ u \in Terminals /\ u.damage = t.damage \cup (0..Rows(t) - 1)
         /\ u.dims = last.dims /\ u.active = last.active /\ u.panicked = last.panicked
         /\ u.nextId = last.nextId /\ u.primary = last.primary
         /\ u.alternate = last.alternate /\ u.scrollback = last.scrollback
    BY <1>6, <1>12, <1>13 DEF mark, Terminals
  <1>15. Active(u) = up
    BY <1>1, <1>12, <1>14 DEF Active
  <1> QED
    BY <1>8, <1>12, <1>14, <1>15 DEF u, up, rows, pushed, s

LEMMA ScrollFollows ==
    ASSUME NEW t, Good(t)
    PROVE  LET u == scroll_active_screen_up(t) IN
           /\ Follows(t, u, {}) /\ u.active = t.active /\ u.panicked = t.panicked
           /\ Active(u).row = Active(t).row /\ Active(u).col = Active(t).col
           /\ Active(u).wrap = Active(t).wrap
  <1> DEFINE u == scroll_active_screen_up(t)
             s == Active(t)
             row == blank_row(Columns(t), t.nextId)
             rows == Append(Tail(s.rows), row)
             up == [rows |-> rows, row |-> s.row, col |-> s.col,
                    visible |-> s.visible, wrap |-> s.wrap]
             pushed == push(t.scrollback, Head(s.rows))
             n == Len(s.rows)
  <1>1. /\ u \in Terminals /\ up \in ScreenSet /\ Active(u) = up
        /\ u.dims = t.dims /\ u.active = t.active /\ u.panicked = t.panicked
        /\ u.nextId = t.nextId + 1 /\ u.damage = t.damage \cup (0..Rows(t) - 1)
        /\ t.active = "primary" =>
             /\ u.primary = up /\ u.alternate = t.alternate /\ u.scrollback = pushed
        /\ t.active # "primary" =>
             /\ u.primary = t.primary /\ u.alternate = up /\ u.scrollback = t.scrollback
    BY ScrollParts
  <1> HIDE DEF u
  <1>2. /\ t \in Terminals /\ Columns(t) \in Nat \ {0} /\ Rows(t) \in Nat \ {0}
        /\ s \in ScreenSet /\ s.rows # <<>> /\ t.nextId \in Nat \ {0}
        /\ t.active \in {"primary", "alternate"}
        /\ t.active = "primary" => ScreenFits(s, t.dims) /\ s = t.primary
        /\ t.active # "primary" => s = t.alternate
    BY GoodParts
  <1>3. s.rows \in Seq(RowSet) /\ n \in Nat /\ DOMAIN s.rows = 1..n
        /\ t.scrollback \in Scrollbacks /\ t.scrollback.rows \in Seq(RowSet)
        /\ t.primary \in ScreenSet
    BY <1>2, ScreenParts, TerminalParts DEF Scrollbacks
  <1>4. row \in RowSet /\ Len(row.cells) = Columns(t) /\ row.id = t.nextId
    BY <1>2, BlankRowType
  <1>5. /\ Distinct(t) /\ ValidSize(t.dims) /\ ScreenFits(t.primary, t.dims)
        /\ Bounded(t.scrollback) /\ (t.panicked => t.active = "alternate")
        /\ t.alternate.rows # <<>>
    BY DEF Good
  <1>6. Inj(s.rows) /\ Below(s.rows, row.id)
    BY <1>2, <1>4, <1>5 DEF Distinct
  <1>7. /\ rows \in Seq(RowSet) /\ Len(rows) = n /\ Inj(rows)
        /\ Below(rows, row.id + 1)
        /\ \A i \in DOMAIN rows : rows[i] = row \/ \E j \in 2..n : rows[i] = s.rows[j]
        /\ Head(s.rows) = s.rows[1] /\ 1 \in DOMAIN s.rows
    BY <1>2, <1>3, <1>4, <1>6, ScrolledRows
  <1> HIDE DEF row, rows, pushed, n
  <1>70. up.rows = rows /\ up.row = s.row /\ up.col = s.col /\ up.wrap = s.wrap
    BY <1>2, ScreenParts
  <1> HIDE DEF up, s
  <1>8. Below(rows, u.nextId)
    BY <1>1, <1>4, <1>7
  <1>9. \A old \in Seq(RowSet) : Below(old, t.nextId) => Below(old, u.nextId)
    <2>1. ASSUME NEW old \in Seq(RowSet), Below(old, t.nextId), NEW i \in DOMAIN old
          PROVE  old[i].id < u.nextId
      <3>1. old[i].id \in Nat /\ old[i].id < t.nextId
        BY <2>1, RowParts, ElementOfSeq DEF Below
      <3> QED
        BY <1>1, <1>2, <3>1
    <2> QED
      BY <2>1 DEF Below
  <1>10. \A old \in Seq(RowSet) :
            Below(old, t.nextId) /\ Apart(old, s.rows) => Apart(old, rows)
    <2>1. ASSUME NEW old \in Seq(RowSet), Below(old, t.nextId), Apart(old, s.rows),
                 NEW i \in DOMAIN old, NEW j \in DOMAIN rows
          PROVE  old[i].id # rows[j].id
      <3>1. old[i].id \in Nat /\ old[i].id < t.nextId
        BY <2>1, RowParts, ElementOfSeq DEF Below
      <3>2. CASE rows[j] = row
        BY <1>2, <1>4, <3>1, <3>2
      <3>3. CASE \E k \in 2..n : rows[j] = s.rows[k]
        <4>1. PICK k \in 2..n : rows[j] = s.rows[k]
          BY <3>3
        <4>2. k \in DOMAIN s.rows
          BY <1>3
        <4> QED
          BY <2>1, <4>1, <4>2 DEF Apart
      <3> QED
        BY <1>7, <3>2, <3>3
    <2> QED
      BY <2>1 DEF Apart
  <1>11. Active(u).row = s.row /\ Active(u).col = s.col /\ Active(u).wrap = s.wrap
    BY <1>1, <1>70
  <1>12. t.alternate.rows \in Seq(RowSet) /\ t.primary.rows \in Seq(RowSet)
    BY <1>2, TerminalParts, ScreenParts
  <1>13. CASE t.active = "primary"
    <2>1. s.rows[1] \in RowSet /\ \A i \in DOMAIN t.scrollback.rows :
                                     t.scrollback.rows[i].id # s.rows[1].id
      BY <1>2, <1>3, <1>5, <1>7, <1>13, ElementOfSeq DEF Distinct, Apart
    <2>2. /\ pushed \in Scrollbacks /\ Bounded(pushed) /\ Inj(pushed.rows)
          /\ \A i \in DOMAIN pushed.rows :
               \/ pushed.rows[i] = s.rows[1]
               \/ \E j \in DOMAIN t.scrollback.rows : pushed.rows[i] = t.scrollback.rows[j]
      BY <1>3, <1>5, <1>7, <2>1, PushDistinct DEF pushed, Distinct
    <2>3. pushed.rows \in Seq(RowSet)
      BY <2>2 DEF Scrollbacks
    <2>4. Below(pushed.rows, t.nextId)
      BY <1>2, <1>5, <1>7, <1>13, <2>2 DEF Distinct, Below
    <2>5. Apart(pushed.rows, t.alternate.rows)
      BY <1>2, <1>5, <1>7, <1>13, <2>2 DEF Distinct, Apart
    <2>6. Apart(pushed.rows, rows)
      <3> SUFFICES ASSUME NEW i \in DOMAIN pushed.rows, NEW j \in DOMAIN rows
                   PROVE  pushed.rows[i].id # rows[j].id
        BY DEF Apart
      <3>1. CASE pushed.rows[i] = s.rows[1]
        <4>1. s.rows[1].id \in Nat /\ s.rows[1].id < t.nextId
          BY <1>4, <1>6, <1>7, <2>1, RowParts DEF Below
        <4>2. CASE rows[j] = row
          BY <1>2, <1>4, <3>1, <4>1, <4>2
        <4>3. CASE \E k \in 2..n : rows[j] = s.rows[k]
          <5>1. PICK k \in 2..n : rows[j] = s.rows[k]
            BY <4>3
          <5>2. k \in DOMAIN s.rows /\ k # 1
            BY <1>3
          <5> QED
            BY <1>6, <1>7, <3>1, <5>1, <5>2 DEF Inj
        <4> QED
          BY <1>7, <4>2, <4>3
      <3>2. CASE \E k \in DOMAIN t.scrollback.rows : pushed.rows[i] = t.scrollback.rows[k]
        <4>1. Apart(t.scrollback.rows, rows)
          BY <1>2, <1>3, <1>5, <1>10, <1>13 DEF Distinct
        <4> QED
          BY <3>2, <4>1 DEF Apart
      <3> QED
        BY <2>2, <3>1, <3>2
    <2>7. Apart(rows, t.alternate.rows)
      <3>1. Apart(t.alternate.rows, s.rows)
        BY <1>2, <1>5, <1>13 DEF Distinct, Apart
      <3>2. Apart(t.alternate.rows, rows)
        BY <1>5, <1>10, <1>12, <3>1 DEF Distinct
      <3> QED
        BY <3>2 DEF Apart
    <2>8. Distinct(u)
      <3>1. u.primary.rows = rows /\ u.scrollback.rows = pushed.rows
            /\ u.alternate.rows = t.alternate.rows
        BY <1>1, <1>13, <1>70
      <3>2. Inj(t.alternate.rows) /\ Below(t.alternate.rows, t.nextId)
        BY <1>5 DEF Distinct
      <3>3. Below(t.alternate.rows, u.nextId) /\ Below(pushed.rows, u.nextId)
        BY <1>9, <1>12, <2>3, <2>4, <3>2
      <3> QED
        BY <1>7, <1>8, <2>2, <2>5, <2>6, <2>7, <3>1, <3>2, <3>3 DEF Distinct
    <2>9. ScreenFits(u.primary, u.dims)
      <3>1. Sized(rows, Columns(t))
        <4> SUFFICES ASSUME NEW i \in DOMAIN rows PROVE Len(rows[i].cells) = Columns(t)
          BY DEF Sized
        <4>1. CASE rows[i] = row
          BY <1>4, <4>1
        <4>2. CASE \E j \in 2..n : rows[i] = s.rows[j]
          <5>1. PICK j \in 2..n : rows[i] = s.rows[j]
            BY <4>2
          <5>2. j \in DOMAIN s.rows
            BY <1>3
          <5> QED
            BY <1>2, <1>13, <5>1, <5>2 DEF ScreenFits, Sized, Columns
        <4> QED
          BY <1>7, <4>1, <4>2
      <3> QED
        BY <1>1, <1>2, <1>7, <1>13, <1>70, <3>1 DEF ScreenFits, Columns, n
    <2>10. Good(u)
      BY <1>1, <1>5, <1>13, <2>2, <2>8, <2>9 DEF Good
    <2>11. Remembers(t, u)
      <3>1. \A i \in DOMAIN u.scrollback.rows :
               \/ \E j \in DOMAIN t.scrollback.rows :
                     u.scrollback.rows[i] = t.scrollback.rows[j]
               \/ Known(u.scrollback.rows[i], t)
        <4> SUFFICES ASSUME NEW i \in DOMAIN pushed.rows, pushed.rows[i] = s.rows[1]
                     PROVE  Known(pushed.rows[i], t)
          BY <1>1, <1>13, <2>2
        <4> QED
          BY <1>2, <1>7, <1>13 DEF Known
      <3>2. \A i \in DOMAIN u.primary.rows : Known(u.primary.rows[i], t)
        <4> SUFFICES ASSUME NEW i \in DOMAIN rows PROVE Known(rows[i], t)
          BY <1>1, <1>13, <1>70
        <4>1. CASE rows[i] = row
          BY <1>2, <1>4, <4>1 DEF Known
        <4>2. CASE \E j \in 2..n : rows[i] = s.rows[j]
          <5>1. PICK j \in 2..n : rows[i] = s.rows[j]
            BY <4>2
          <5>2. j \in DOMAIN s.rows
            BY <1>3
          <5> QED
            BY <1>2, <1>13, <5>1, <5>2 DEF Known
        <4> QED
          BY <1>7, <4>1, <4>2
      <3> QED
        BY <3>1, <3>2 DEF Remembers
    <2>12. Follows(t, u, {})
      <3>1. t.nextId <= u.nextId
        BY <1>1, <1>2
      <3> QED
        BY <1>1, <1>13, <2>10, <2>11, <3>1 DEF Follows
    <2> QED
      BY <1>1, <1>11, <2>12 DEF u, s
  <1>14. CASE t.active # "primary"
    <2>1. u.primary = t.primary /\ u.scrollback = t.scrollback /\ u.alternate.rows = rows
      BY <1>1, <1>14, <1>70
    <2>2. Apart(t.scrollback.rows, rows) /\ Apart(t.primary.rows, rows)
      BY <1>2, <1>3, <1>5, <1>10, <1>12, <1>14 DEF Distinct
    <2>3. Below(t.scrollback.rows, u.nextId) /\ Below(t.primary.rows, u.nextId)
      BY <1>3, <1>5, <1>9, <1>12 DEF Distinct
    <2>4. Distinct(u)
      BY <1>5, <1>7, <1>8, <2>1, <2>2, <2>3 DEF Distinct
    <2>5. rows # <<>>
      <3>1. n # 0
        BY <1>2, <1>3 DEF n
      <3> QED
        BY <1>7, <3>1
    <2>6. Good(u)
      BY <1>1, <1>2, <1>5, <1>14, <2>1, <2>4, <2>5 DEF Good
    <2>7. Remembers(t, u)
      BY <2>1 DEF Remembers, Known
    <2>8. Isolated(t, u)
      <3>1. t.primary = [t.primary EXCEPT !.visible = t.primary.visible]
        BY <1>3 DEF ScreenSet
      <3> QED
        BY <2>1, <3>1 DEF Isolated
    <2>9. t.nextId <= u.nextId
      BY <1>1, <1>2
    <2>10. Follows(t, u, {})
      BY <1>1, <2>6, <2>7, <2>8, <2>9 DEF Follows
    <2> QED
      BY <1>1, <1>11, <2>10 DEF u, s
  <1> QED
    BY <1>13, <1>14

-----------------------------------------------------------------------------
(* Line feeds and wraps.                                                   *)

(* u comes of t on the same screen, with every change marked.              *)
Carries(t, u) == Follows(t, u, {}) /\ u.active = t.active

LEMMA CarriesParts ==
    ASSUME NEW t, NEW u, Good(t), Carries(t, u)
    PROVE  /\ Good(u) /\ u.active = t.active /\ u.dims = t.dims
           /\ Rows(u) = Rows(t) /\ Columns(u) = Columns(t)
  BY DEF Carries, Follows, Rows, Columns

LEMMA CarriesTwice ==
    ASSUME NEW t, NEW m, NEW u, Good(t), Carries(t, m), Carries(m, u)
    PROVE  Carries(t, u)
  BY Then DEF Carries

LEMMA CarriesSelf ==
    ASSUME NEW t, Good(t)
    PROVE  Carries(t, t)
  BY FollowsSelf DEF Carries

LEMMA CarriesMark ==
    ASSUME NEW t, NEW u, Carries(t, u), NEW R \in SUBSET Nat
    PROVE  Carries(t, mark(u, R)) /\ Active(mark(u, R)) = Active(u)
  <1>1. {} \ R = {}
    OBVIOUS
  <1> QED
    BY <1>1, MarkFollows DEF Carries

(* Changes in the rows S, which are then marked.                           *)
LEMMA CarriesMarked ==
    ASSUME NEW t, NEW u, NEW R \in SUBSET Nat, Follows(t, u, R), u.active = t.active
    PROVE  Carries(t, mark(u, R)) /\ Active(mark(u, R)) = Active(u)
  <1>1. R \ R = {}
    OBVIOUS
  <1> QED
    BY <1>1, MarkFollows DEF Carries

LEMMA CarriesPanic ==
    ASSUME NEW t, Good(t), t.active # "primary"
    PROVE  Carries(t, Panicked(t))
  BY PanicFollows DEF Carries

LEMMA MoveDownCarries ==
    ASSUME NEW t, Good(t)
    PROVE  LET u == move_down_or_scroll(t) IN
           /\ Carries(t, u) /\ Active(u).col = Active(t).col /\ Active(u).wrap = Active(t).wrap
  <1> DEFINE s == Active(t)
             u == move_down_or_scroll(t)
             down == move_to(t, s.row + 1, s.col)
             up == scroll_active_screen_up(t)
             last == move_to(up, Rows(t) - 1, s.col)
  <1>1. /\ s \in ScreenSet /\ Rows(t) \in Nat \ {0} /\ Columns(t) \in Nat \ {0}
        /\ t.active = "primary" => ScreenFits(s, t.dims)
    BY GoodParts
  <1>2. s.row \in Nat /\ s.col \in Nat
        /\ (t.active = "primary" => s.col < Columns(t) /\ (s.wrap => s.col = Columns(t) - 1))
    BY <1>1, ScreenParts DEF ScreenFits, Columns
  <1> HIDE DEF s
  <1>3. CASE s.row + 1 < Rows(t)
    <2>1. u = mark(down, {s.row, s.row + 1})
      BY <1>3 DEF move_down_or_scroll, s
    <2>2. Cursor(down, t, s.row + 1, s.col, s.wrap)
      BY <1>2, <1>3, MoveToCursor DEF s
    <2>3. Carries(t, down) /\ Active(down).col = s.col /\ Active(down).wrap = s.wrap
      BY <2>2 DEF Cursor, Carries
    <2>4. {s.row, s.row + 1} \in SUBSET Nat
      BY <1>2
    <2> HIDE DEF down, u
    <2> QED
      BY <2>1, <2>3, <2>4, CarriesMark DEF s, u
  <1>4. CASE ~(s.row + 1 < Rows(t))
    <2>1. u = last
      BY <1>4 DEF move_down_or_scroll, s
    <2>2. /\ Carries(t, up) /\ Active(up).col = s.col /\ Active(up).wrap = s.wrap
      BY ScrollFollows DEF Carries, s
    <2> HIDE DEF up
    <2>3. Good(up) /\ up.active = t.active /\ Rows(up) = Rows(t) /\ Columns(up) = Columns(t)
      BY <2>2, CarriesParts
    <2>4. Rows(t) - 1 \in Nat /\ Rows(t) - 1 < Rows(t)
      BY <1>1
    <2>5. Cursor(last, up, Rows(t) - 1, s.col, s.wrap)
      BY <1>2, <2>2, <2>3, <2>4, MoveToCursor
    <2>6. Carries(up, last) /\ Active(last).col = s.col /\ Active(last).wrap = s.wrap
      BY <2>5 DEF Cursor, Carries
    <2> HIDE DEF last, u
    <2> QED
      BY <2>1, <2>2, <2>6, CarriesTwice DEF s, u
  <1> QED
    BY <1>3, <1>4

LEMMA LineFeedCarries ==
    ASSUME NEW t, Good(t)
    PROVE  Carries(t, line_feed(t))
  <1> DEFINE one == unwrapped(t)
  <1>1. Carries(t, one)
    BY UnwrappedCursor DEF Cursor, Carries
  <1>2. Good(one)
    BY <1>1, CarriesParts
  <1>3. line_feed(t) = move_down_or_scroll(one)
    BY DEF line_feed
  <1> HIDE DEF one
  <1>4. Carries(one, move_down_or_scroll(one))
    BY <1>2, MoveDownCarries
  <1> QED
    BY <1>1, <1>3, <1>4, CarriesTwice

(* A change to row k only leaves the other rows as they are.               *)
LEMMA OtherRowsSame ==
    ASSUME NEW a, NEW b, NEW k, SameIds(b, a), \A i \in DOMAIN a : i # k => b[i] = a[i],
           NEW r \in Nat, r + 1 # k
    PROVE  SameRow(a, b, r)
  BY DEF SameIds, SameRow

LEMMA ReplaceRow ==
    ASSUME NEW rows \in Seq(RowSet), NEW k \in DOMAIN rows, NEW row \in RowSet,
           row.id = rows[k].id
    PROVE  LET new == [rows EXCEPT ![k] = row] IN
           /\ new \in Seq(RowSet) /\ SameIds(new, rows) /\ new[k] = row
           /\ \A i \in DOMAIN rows : i # k => new[i] = rows[i]
  <1> DEFINE new == [rows EXCEPT ![k] = row]
  <1>1. new \in Seq(RowSet) /\ DOMAIN new = DOMAIN rows
    BY ExceptSeq
  <1>2. new[k] = row /\ \A i \in DOMAIN rows : i # k => new[i] = rows[i]
    OBVIOUS
  <1> HIDE DEF new
  <1>3. SameIds(new, rows)
    BY <1>1, <1>2 DEF SameIds
  <1> QED
    BY <1>1, <1>2, <1>3 DEF new

(* The screen with row k replaced.                                         *)
WithRow(s, k, row, w) ==
    [rows |-> [s.rows EXCEPT ![k] = row], row |-> s.row, col |-> s.col,
     visible |-> s.visible, wrap |-> w]

(* s is t's active screen with row r replaced by one of its id and width.  *)
Replaces(t, s, r, row, w) ==
    /\ r \in Nat /\ r + 1 \in DOMAIN Active(t).rows
    /\ row \in RowSet /\ row.id = Active(t).rows[r + 1].id
    /\ Len(row.cells) = Len(Active(t).rows[r + 1].cells)
    /\ w \in BOOLEAN /\ (w => Active(t).wrap) /\ s = WithRow(Active(t), r + 1, row, w)

LEMMA RowFollows ==
    ASSUME NEW t, Good(t), NEW r, NEW row, NEW w, NEW s, Replaces(t, s, r, row, w)
    PROVE  /\ Follows(t, Update(t, s), {r}) /\ Active(Update(t, s)) = s
           /\ Update(t, s).active = t.active
           /\ s \in ScreenSet /\ s.row = Active(t).row /\ s.col = Active(t).col /\ s.wrap = w
           /\ DOMAIN s.rows = DOMAIN Active(t).rows
  <1> DEFINE a == Active(t)
             k == r + 1
             rows == [a.rows EXCEPT ![k] = row]
  <1>0. /\ r \in Nat /\ k \in DOMAIN Active(t).rows /\ row \in RowSet /\ row.id = Active(t).rows[k].id
        /\ Len(row.cells) = Len(Active(t).rows[k].cells)
        /\ w \in BOOLEAN /\ (w => Active(t).wrap) /\ s = WithRow(Active(t), k, row, w)
    BY DEF Replaces
  <1>1. t \in Terminals /\ a \in ScreenSet /\ (t.active = "primary" => ScreenFits(a, t.dims))
        /\ Rows(t) \in Nat
    BY GoodParts
  <1>2. /\ a.rows \in Seq(RowSet) /\ a.row \in Nat /\ a.col \in Nat /\ a.visible \in BOOLEAN
        /\ DOMAIN a.rows = 1..Len(a.rows) /\ Len(a.rows) \in Nat
    BY <1>1, ScreenParts
  <1> HIDE DEF a
  <1>3. /\ rows \in Seq(RowSet) /\ SameIds(rows, a.rows) /\ rows[k] = row
        /\ \A i \in DOMAIN a.rows : i # k => rows[i] = a.rows[i]
    BY <1>0, <1>2, ReplaceRow DEF a
  <1>4. s = [rows |-> rows, row |-> a.row, col |-> a.col, visible |-> a.visible, wrap |-> w]
    BY <1>0 DEF WithRow, a
  <1> HIDE DEF rows, k
  <1>5. s \in ScreenSet
    BY <1>0, <1>2, <1>3, <1>4 DEF ScreenSet
  <1>6. s.rows = rows /\ s.row = a.row /\ s.col = a.col /\ s.wrap = w
    BY <1>4
  <1>7. ASSUME t.active = "primary" PROVE ScreenFits(s, t.dims)
    <2>1. ScreenFits(a, t.dims)
      BY <1>1, <1>7 DEF a
    <2>2. Len(rows) = Len(a.rows)
      <3>1. DOMAIN rows = 1..Len(rows) /\ Len(rows) \in Nat
        BY <1>3
      <3> QED
        BY <1>2, <1>3, <3>1 DEF SameIds
    <2>3. Sized(rows, t.dims.cols)
      BY <1>0, <1>3, <2>1 DEF ScreenFits, Sized, SameIds, a
    <2>4. w => a.col = t.dims.cols - 1
      BY <1>0, <2>1 DEF ScreenFits, a
    <2> QED
      BY <1>6, <2>1, <2>2, <2>3, <2>4 DEF ScreenFits
  <1>8. \A q \in 0..Rows(t) - 1 : q \in {r} \/ SameRow(a.rows, s.rows, q)
    <2> TAKE q \in 0..Rows(t) - 1
    <2>1. q \in Nat
      BY <1>1
    <2>2. CASE q = r
      BY <2>2
    <2>3. CASE q # r
      <3>0. q + 1 # k
        BY <1>0, <2>1, <2>3 DEF k
      <3>1. SameRow(a.rows, rows, q)
        BY <1>3, <2>1, <3>0, OtherRowsSame
      <3> QED
        BY <1>6, <3>1
    <2> QED
      BY <2>2, <2>3
  <1>9. SameIds(s.rows, a.rows)
    BY <1>3, <1>6
  <1>10. Follows(t, Update(t, s), {r}) /\ Active(Update(t, s)) = s
    BY <1>5, <1>7, <1>8, <1>9, UpdateFollows DEF a
  <1>11. Update(t, s).active = t.active
    BY <1>1, <1>5, UpdateParts
  <1> QED
    BY <1>5, <1>6, <1>9, <1>10, <1>11 DEF a, SameIds

(* A wrap that is pending is carried out.                                  *)
(* The row of the cursor is flagged as wrapped, the pending wrap dropped.  *)
Flagged(s) == [s EXCEPT !.rows[s.row + 1].wrapped = TRUE, !.wrap = FALSE]

LEMMA FlaggedCarries ==
    ASSUME NEW t, Good(t), Active(t).row + 1 \in DOMAIN Active(t).rows
    PROVE  LET u == mark(Update(t, Flagged(Active(t))), {Active(t).row}) IN
           /\ Carries(t, u) /\ Active(u) = Flagged(Active(t)) /\ Flagged(Active(t)).wrap = FALSE
           /\ \A i \in DOMAIN Active(t).rows :
                Flagged(Active(t)).rows[i].cells = Active(t).rows[i].cells
           /\ DOMAIN Flagged(Active(t)).rows = DOMAIN Active(t).rows
  <1> DEFINE s == Active(t)
             k == s.row + 1
             set == Flagged(s)
             wrapped == Update(t, set)
             marked == mark(wrapped, {s.row})
             row == [s.rows[k] EXCEPT !.wrapped = TRUE]
             w == FALSE
  <1>1. t \in Terminals /\ s \in ScreenSet
    BY GoodParts
  <1>2. s.rows \in Seq(RowSet) /\ s.row \in Nat /\ DOMAIN s.rows = 1..Len(s.rows)
        /\ Len(s.rows) \in Nat
    BY <1>1, ScreenParts
  <1>5. k \in DOMAIN s.rows
    OBVIOUS
  <1>3. s.rows[k] \in RowSet
    BY <1>2, <1>5
  <1>4. /\ row \in RowSet /\ row.id = s.rows[k].id /\ row.cells = s.rows[k].cells
        /\ Len(row.cells) = Len(s.rows[k].cells)
    <2> DEFINE old == s.rows[k]
    <2>1. old \in RowSet
      BY <1>3
    <2> HIDE DEF old
    <2>2. [old EXCEPT !.wrapped = TRUE] \in RowSet
          /\ [old EXCEPT !.wrapped = TRUE].id = old.id
          /\ [old EXCEPT !.wrapped = TRUE].cells = old.cells
      BY <2>1 DEF RowSet
    <2> QED
      BY <2>2 DEF old
  <1>6. set = [s EXCEPT !.rows = [s.rows EXCEPT ![k] = row], !.wrap = FALSE]
    BY <1>1, <1>2, <1>5 DEF ScreenSet, Flagged
  <1> HIDE DEF row, set
  <1>7. set = WithRow(s, k, row, FALSE)
    <2> DEFINE rows == [s.rows EXCEPT ![k] = row]
    <2>1. set = [s EXCEPT !.rows = rows, !.wrap = FALSE]
      BY <1>6
    <2> HIDE DEF rows, s
    <2>2. set = [rows |-> rows, row |-> s.row, col |-> s.col,
                 visible |-> s.visible, wrap |-> FALSE]
      BY <1>1, <2>1 DEF ScreenSet
    <2> QED
      BY <2>2 DEF WithRow, rows
  <1>8. w \in BOOLEAN /\ (w => s.wrap) /\ w = FALSE /\ set = WithRow(s, k, row, w)
    BY <1>7
  <1>9. /\ DOMAIN set.rows = DOMAIN s.rows
        /\ \A i \in DOMAIN s.rows : set.rows[i].cells = s.rows[i].cells
    BY <1>4, <1>7 DEF WithRow
  <1> HIDE DEF w, wrapped, marked
  <1>10. /\ Follows(t, wrapped, {s.row}) /\ Active(wrapped) = set
         /\ wrapped.active = t.active /\ set.wrap = w
    <2>1. Replaces(t, set, s.row, row, w)
      BY <1>2, <1>4, <1>5, <1>8 DEF Replaces
    <2> QED
      BY <2>1, RowFollows DEF wrapped
  <1>11. {s.row} \in SUBSET Nat
    BY <1>2
  <1>12. Carries(t, marked) /\ Active(marked) = set
    BY <1>10, <1>11, CarriesMarked DEF marked
  <1> QED
    BY <1>8, <1>9, <1>10, <1>12 DEF marked, wrapped, set

LEMMA WrapPendingCarries ==
    ASSUME NEW t, Good(t)
    PROVE  LET u == wrap_pending(t) IN
           Carries(t, u) /\ (u.panicked \/ ~Active(u).wrap)
  <1> DEFINE s == Active(t)
             k == s.row + 1
             set == [s EXCEPT !.rows[k].wrapped = TRUE, !.wrap = FALSE]
             wrapped == Update(t, set)
             marked == mark(wrapped, {s.row})
             next == move_down_or_scroll(marked)
             last == move_to(next, Active(next).row, 0)
             u == wrap_pending(t)
  <1>1. /\ t \in Terminals /\ s \in ScreenSet /\ t.active \in {"primary", "alternate"}
        /\ t.active = "primary" => ScreenFits(s, t.dims)
    BY GoodParts
  <1>2. s.rows \in Seq(RowSet) /\ s.row \in Nat /\ DOMAIN s.rows = 1..Len(s.rows)
        /\ Len(s.rows) \in Nat
    BY <1>1, ScreenParts
  <1>3. u = IF k \in DOMAIN s.rows THEN last ELSE Panicked(t)
    BY DEF wrap_pending
  <1>4. CASE k \notin DOMAIN s.rows
    <2>1. u = Panicked(t)
      BY <1>3, <1>4
    <2>2. t.active # "primary"
      BY <1>1, <1>2, <1>4 DEF ScreenFits
    <2>3. Panicked(t).panicked
      BY <1>1 DEF Panicked, Terminals
    <2> HIDE DEF u
    <2> QED
      BY <2>1, <2>2, <2>3, CarriesPanic DEF u
  <1>5. CASE k \in DOMAIN s.rows
    <2>8. Carries(t, marked) /\ Active(marked) = set /\ set.wrap = FALSE
      <3>1. set = Flagged(s)
        BY DEF Flagged
      <3> HIDE DEF set
      <3> QED
        BY <1>5, <3>1, FlaggedCarries
    <2> HIDE DEF set, wrapped, marked, next, last, u
    <2>9. Good(marked)
      BY <2>8, CarriesParts
    <2>10. Carries(marked, next) /\ Active(next).wrap = FALSE
      BY <2>8, <2>9, MoveDownCarries DEF next
    <2>11. Carries(t, next) /\ Good(next)
      BY <2>8, <2>9, <2>10, CarriesTwice, CarriesParts
    <2>12. /\ Active(next) \in ScreenSet /\ Columns(next) \in Nat \ {0}
           /\ next.active = "primary" => ScreenFits(Active(next), next.dims)
      BY <2>11, GoodParts
    <2>13. Active(next).row \in Nat /\ 0 \in Nat
           /\ (next.active = "primary" => Active(next).row < Rows(next) /\ 0 < Columns(next))
      BY <2>12, ScreenParts DEF ScreenFits, Rows
    <2>14. Cursor(last, next, Active(next).row, 0, Active(next).wrap)
      BY <2>10, <2>11, <2>13, MoveToCursor DEF last
    <2>15. Carries(next, last) /\ ~Active(last).wrap
      BY <2>10, <2>14 DEF Cursor, Carries
    <2>16. u = last
      BY <1>3, <1>5
    <2> QED
      BY <2>11, <2>15, <2>16, CarriesTwice DEF u
  <1> QED
    BY <1>4, <1>5

-----------------------------------------------------------------------------
(* Printing.                                                               *)

(* u comes of t by changes to the rows S of the same screen; the cursor    *)
(* stays.                                                                  *)
Edits(t, u, S) ==
    /\ Follows(t, u, S) /\ u.active = t.active
    /\ Active(u).row = Active(t).row /\ Active(u).col = Active(t).col
    /\ Active(u).wrap = Active(t).wrap

LEMMA EditsParts ==
    ASSUME NEW t, NEW u, NEW S, Good(t), Edits(t, u, S)
    PROVE  /\ Good(u) /\ u.active = t.active /\ u.dims = t.dims
           /\ Rows(u) = Rows(t) /\ Columns(u) = Columns(t)
           /\ Active(u).row = Active(t).row /\ Active(u).col = Active(t).col
           /\ Active(u).wrap = Active(t).wrap
  BY DEF Edits, Follows, Rows, Columns

LEMMA EditsTwice ==
    ASSUME NEW t, NEW m, NEW u, NEW S, Good(t), Edits(t, m, S), Edits(m, u, S)
    PROVE  Edits(t, u, S)
  <1>1. S \cup S = S
    OBVIOUS
  <1>2. Follows(t, u, S)
    BY <1>1, FollowsTwice DEF Edits
  <1> QED
    BY <1>2 DEF Edits

LEMMA EditsSelf ==
    ASSUME NEW t, Good(t), NEW S
    PROVE  Edits(t, t, S)
  BY FollowsSelf DEF Edits

LEMMA EditsPanic ==
    ASSUME NEW t, Good(t), t.active # "primary", NEW S
    PROVE  Edits(t, Panicked(t), S)
  <1>1. Follows(t, Panicked(t), {}) /\ Panicked(t).active = t.active
    BY PanicFollows
  <1>2. Follows(t, Panicked(t), S)
    BY <1>1 DEF Follows
  <1>3. Active(Panicked(t)) = Active(t)
    <2>1. t \in Terminals
      BY GoodParts
    <2> QED
      BY <2>1 DEF Panicked, Active, Terminals
  <1> QED
    BY <1>1, <1>2, <1>3 DEF Edits

(* A cell inside the primary screen exists.                                *)
LEMMA PrimaryHas ==
    ASSUME NEW t, Good(t), t.active = "primary", NEW r \in Nat, NEW c \in Nat,
           r < Rows(t), c < Columns(t)
    PROVE  Has(Active(t), r, c)
  <1> DEFINE s == Active(t)
  <1>1. /\ s \in ScreenSet /\ ScreenFits(s, t.dims)
        /\ Rows(t) \in Nat \ {0} /\ Columns(t) \in Nat \ {0}
    BY GoodParts
  <1>2. s.rows \in Seq(RowSet) /\ DOMAIN s.rows = 1..Len(s.rows)
        /\ \A i \in DOMAIN s.rows : s.rows[i] \in RowSet
    BY <1>1, ScreenParts
  <1>3. Len(s.rows) = Rows(t) /\ \A i \in DOMAIN s.rows : Len(s.rows[i].cells) = Columns(t)
    BY <1>1 DEF ScreenFits, Sized, Rows, Columns
  <1> HIDE DEF s
  <1>4. r + 1 \in DOMAIN s.rows
    BY <1>1, <1>2, <1>3
  <1>5. s.rows[r + 1].cells \in Seq(Cells)
    BY <1>2, <1>4, RowParts
  <1>6. DOMAIN s.rows[r + 1].cells = 1..Columns(t)
    BY <1>3, <1>4, <1>5
  <1>7. c + 1 \in DOMAIN s.rows[r + 1].cells
    BY <1>1, <1>6
  <1> QED
    BY <1>4, <1>7 DEF Has, s

LEMMA CellParts ==
    ASSUME NEW s \in ScreenSet, NEW r \in Nat, NEW c \in Nat, Has(s, r, c)
    PROVE  /\ CellAt(s, r, c) \in Cells
           /\ CellAt(s, r, c).w \in 0..2 /\ CellAt(s, r, c).bg \in BOOLEAN
  <1>1. s.rows[r + 1] \in RowSet
    BY ScreenParts DEF Has
  <1>2. s.rows[r + 1].cells \in Seq(Cells)
    BY <1>1, RowParts
  <1>3. CellAt(s, r, c) \in Cells
    BY <1>2 DEF Has, CellAt
  <1> QED
    BY <1>3 DEF Cells

LEMMA PutCellEdits ==
    ASSUME NEW t, Good(t), NEW r \in Nat, NEW c \in Nat, Has(Active(t), r, c),
           NEW cell \in Cells
    PROVE  Edits(t, Update(t, PutCell(Active(t), r, c, cell)), {r})
  <1> DEFINE s == Active(t)
             k == r + 1
             old == s.rows[k]
             row == [old EXCEPT !.cells = [old.cells EXCEPT ![c + 1] = cell]]
             put1 == PutCell(s, r, c, cell)
             w == s.wrap
  <1>1. s \in ScreenSet
    BY GoodParts
  <1>2. s.rows \in Seq(RowSet) /\ k \in DOMAIN s.rows /\ old \in RowSet /\ w \in BOOLEAN
        /\ c + 1 \in DOMAIN old.cells /\ k - 1 = r
    <2>1. s.rows \in Seq(RowSet) /\ w \in BOOLEAN
      BY <1>1, ScreenParts
    <2>2. k \in DOMAIN s.rows /\ c + 1 \in DOMAIN old.cells
      BY DEF Has
    <2>3. old \in RowSet
      BY <2>1, <2>2
    <2>4. k - 1 = r
      OBVIOUS
    <2> QED
      BY <2>1, <2>2, <2>3, <2>4
  <1>3. row \in RowSet /\ row.id = old.id /\ Len(row.cells) = Len(old.cells)
    <2> DEFINE cells == [old.cells EXCEPT ![c + 1] = cell]
    <2> HIDE DEF old
    <2>1. old.cells \in Seq(Cells)
      BY <1>2, RowParts
    <2>2. cells \in Seq(Cells) /\ Len(cells) = Len(old.cells)
      BY <1>2, <2>1, ExceptSeq
    <2> HIDE DEF cells
    <2>3. [old EXCEPT !.cells = cells] \in RowSet
          /\ [old EXCEPT !.cells = cells].id = old.id
          /\ [old EXCEPT !.cells = cells].cells = cells
      BY <1>2, <2>2 DEF RowSet
    <2> QED
      BY <2>2, <2>3 DEF cells
  <1>4. put1 = WithRow(s, k, row, w)
    <2> DEFINE rows == [s.rows EXCEPT ![k] = row]
    <2>1. put1 = [s EXCEPT !.rows = rows]
      BY <1>1, <1>2 DEF PutCell, ScreenSet
    <2> HIDE DEF rows, s, put1
    <2>2. put1 = [rows |-> rows, row |-> s.row, col |-> s.col,
                  visible |-> s.visible, wrap |-> s.wrap]
      BY <1>1, <2>1 DEF ScreenSet
    <2> QED
      BY <2>2 DEF WithRow, rows
  <1> HIDE DEF row, put1
  <1>5. /\ Follows(t, Update(t, put1), {r}) /\ Active(Update(t, put1)) = put1
        /\ Update(t, put1).active = t.active
        /\ put1.row = s.row /\ put1.col = s.col /\ put1.wrap = w
    <2>1. Replaces(t, put1, r, row, w)
      BY <1>2, <1>3, <1>4 DEF Replaces
    <2> QED
      BY <2>1, RowFollows
  <1> QED
    BY <1>2, <1>5 DEF Edits, put1

LEMMA PutEdits ==
    ASSUME NEW t, Good(t), NEW r \in Nat, NEW c \in Nat, NEW cell \in Cells,
           t.active = "primary" => r < Rows(t) /\ c < Columns(t)
    PROVE  Edits(t, put(t, r, c, cell), {r})
  <1>1. CASE Has(Active(t), r, c)
    BY <1>1, PutCellEdits DEF put
  <1>2. CASE ~Has(Active(t), r, c)
    <2>1. t.active # "primary"
      BY <1>2, PrimaryHas
    <2> QED
      BY <1>2, <2>1, EditsPanic DEF put
  <1> QED
    BY <1>1, <1>2

LEMMA EditsMarkOwn ==
    ASSUME NEW t, NEW u, NEW r \in Nat, Edits(t, u, {r}), Good(t)
    PROVE  Edits(t, mark(u, {r}), {r}) /\ Carries(t, mark(u, {r}))
  <1>1. Carries(t, mark(u, {r})) /\ Active(mark(u, {r})) = Active(u)
    BY CarriesMarked DEF Edits
  <1>2. Follows(t, mark(u, {r}), {r})
    BY <1>1 DEF Carries, Follows
  <1> QED
    BY <1>1, <1>2 DEF Edits, Carries

LEMMA PartnerEdits ==
    ASSUME NEW t, Good(t), NEW r \in Nat, NEW c \in Nat
    PROVE  Edits(t, clear_wide_partner_at(t, r, c), {r})
  <1> DEFINE s == Active(t)
             w == CellAt(s, r, c).w
             partner == IF w > 1 THEN c + 1 ELSE c - 1
             pairs == IF w > 1 THEN c + 1 < Columns(t) ELSE w = 0 /\ c > 0
             other == CellAt(s, r, partner)
             blank == Cell(1, 0, other.bg)
             u == clear_wide_partner_at(t, r, c)
  <1>1. s \in ScreenSet /\ Rows(t) \in Nat \ {0} /\ Columns(t) \in Nat \ {0}
    BY GoodParts
  <1>2. CASE u = t
    BY <1>2, EditsSelf
  <1>3. ASSUME r < Rows(t), c < Columns(t), ~Has(s, r, c)
        PROVE  Edits(t, Panicked(t), {r})
    BY <1>3, PrimaryHas, EditsPanic
  <1>4. ASSUME r < Rows(t), c < Columns(t), Has(s, r, c), pairs
        PROVE  partner \in Nat /\ partner < Columns(t)
    <2>1. w \in 0..2
      BY <1>1, <1>4, CellParts
    <2> HIDE DEF w
    <2> QED
      BY <1>1, <1>4, <2>1
  <1> HIDE DEF partner, pairs
  <1>5. ASSUME r < Rows(t), c < Columns(t), Has(s, r, c), pairs, ~Has(s, r, partner)
        PROVE  Edits(t, Panicked(t), {r})
    BY <1>4, <1>5, PrimaryHas, EditsPanic
  <1>6. ASSUME r < Rows(t), c < Columns(t), Has(s, r, c), pairs, Has(s, r, partner)
        PROVE  Edits(t, mark(Update(t, PutCell(s, r, partner, blank)), {r}), {r})
    <2>1. partner \in Nat
      BY <1>4, <1>6
    <2>2. other.bg \in BOOLEAN
      BY <1>1, <1>6, <2>1, CellParts
    <2>3. blank \in Cells
      BY <2>2 DEF Cell, Cells
    <2> HIDE DEF blank
    <2>4. Edits(t, Update(t, PutCell(s, r, partner, blank)), {r})
      BY <1>6, <2>1, <2>3, PutCellEdits
    <2> QED
      BY <2>4, EditsMarkOwn
  <1>7. \/ u = t
        \/ r < Rows(t) /\ c < Columns(t) /\ ~Has(s, r, c) /\ u = Panicked(t)
        \/ r < Rows(t) /\ c < Columns(t) /\ Has(s, r, c) /\ pairs
           /\ ~Has(s, r, partner) /\ u = Panicked(t)
        \/ r < Rows(t) /\ c < Columns(t) /\ Has(s, r, c) /\ pairs
           /\ Has(s, r, partner) /\ u = mark(Update(t, PutCell(s, r, partner, blank)), {r})
    BY <1>1 DEF clear_wide_partner_at, partner, pairs
  <1> HIDE DEF u
  <1> QED
    BY <1>2, <1>3, <1>5, <1>6, <1>7 DEF u

LEMMA EditsCarries ==
    ASSUME NEW t, NEW u, NEW r \in Nat, Edits(t, u, {r}), Good(t)
    PROVE  Carries(t, mark(u, {r}))
  BY EditsMarkOwn

(* The wrap flag set where the cursor is in the last column.               *)
WithWrap(t, w) == Update(t, [Active(t) EXCEPT !.wrap = w])

LEMMA WithWrapFollows ==
    ASSUME NEW t, Good(t), NEW w \in BOOLEAN, NEW u, u = WithWrap(t, w),
           t.active = "primary" /\ w => Active(t).col = Columns(t) - 1
    PROVE  /\ Follows(t, u, {}) /\ u.active = t.active /\ u.panicked = t.panicked
           /\ Active(u).row = Active(t).row /\ Active(u).col = Active(t).col
           /\ Active(u).wrap = w
  <1> DEFINE s == [Active(t) EXCEPT !.wrap = w]
             r == Active(t).row
             c == Active(t).col
  <1>1. t \in Terminals /\ Active(t) \in ScreenSet
        /\ (t.active = "primary" => ScreenFits(Active(t), t.dims))
    BY GoodParts
  <1>2. s = [Active(t) EXCEPT !.wrap = w]
    OBVIOUS
  <1> HIDE DEF s
  <1>3. s = CursorAt(Active(t), r, c, w)
    BY <1>1, <1>2 DEF CursorAt, ScreenSet
  <1>4. r \in Nat /\ c \in Nat
    BY <1>1, ScreenParts
  <1>5. t.active = "primary" => r < Rows(t) /\ c < Columns(t) /\ (w => c = Columns(t) - 1)
    BY <1>1 DEF ScreenFits, Rows, Columns
  <1>6. /\ Follows(t, Update(t, s), {}) /\ Active(Update(t, s)) = s /\ s \in ScreenSet
        /\ s.rows = Active(t).rows /\ s.row = r /\ s.col = c /\ s.wrap = w
    <2> HIDE DEF r, c
    <2> QED
      BY <1>3, <1>4, <1>5, CursorFollows
  <1>7. Update(t, s).active = t.active /\ Update(t, s).panicked = t.panicked
    BY <1>1, <1>6, UpdateParts
  <1> QED
    BY <1>6, <1>7 DEF WithWrap, s, r, c

(* A wide character that does not fit in the last column.                  *)
LEMMA WrapWideCarries ==
    ASSUME NEW t, Good(t), t.active = "primary" => Active(t).col = Columns(t) - 1
    PROVE  LET u == wrap_wide(t) IN
           Carries(t, u) /\ (u.panicked \/ ~Active(u).wrap)
  <1> DEFINE s == Active(t)
             cell == Cell(1, 0, t.shade)
             cleared == clear_wide_partner_at(t, s.row, s.col)
             spaced == put(cleared, s.row, s.col, cell)
             w == TRUE
             next == Update(spaced, [Active(spaced) EXCEPT !.wrap = w])
             marked == mark(next, {s.row})
             u == wrap_wide(t)
  <1>1. /\ t \in Terminals /\ s \in ScreenSet /\ t.shade \in BOOLEAN
        /\ t.active \in {"primary", "alternate"} /\ Columns(t) \in Nat \ {0}
        /\ t.active = "primary" => ScreenFits(s, t.dims)
    BY GoodParts, TerminalParts
  <1>2. s.row \in Nat /\ s.col \in Nat /\ cell \in Cells
    BY <1>1, ScreenParts DEF Cell, Cells
  <1>3. t.active = "primary" => s.row < Rows(t) /\ s.col < Columns(t)
    BY <1>1 DEF ScreenFits, Rows, Columns
  <1>4. u = IF cleared.panicked \/ spaced.panicked THEN Panicked(t) ELSE wrap_pending(marked)
    BY DEF wrap_wide
  <1>5. w \in BOOLEAN /\ w
    OBVIOUS
  <1> HIDE DEF w, cell, u, marked, next, spaced, cleared
  <1>6. Edits(t, cleared, {s.row})
    BY <1>2, PartnerEdits DEF cleared
  <1>7. /\ Good(cleared) /\ cleared.active = t.active
        /\ Rows(cleared) = Rows(t) /\ Columns(cleared) = Columns(t)
    BY <1>6, EditsParts
  <1>8. Edits(cleared, spaced, {s.row})
    BY <1>2, <1>3, <1>7, PutEdits DEF spaced
  <1>9. Edits(t, spaced, {s.row})
    BY <1>6, <1>8, EditsTwice
  <1>10. /\ Good(spaced) /\ spaced.active = t.active
         /\ Columns(spaced) = Columns(t) /\ Active(spaced).col = s.col
    BY <1>9, EditsParts
  <1>11. CASE cleared.panicked \/ spaced.panicked
    <2>1. u = Panicked(t)
      BY <1>4, <1>11
    <2>2. cleared.active = "alternate" \/ spaced.active = "alternate"
      BY <1>7, <1>10, <1>11 DEF Good
    <2>3. t.active # "primary"
      BY <1>7, <1>10, <2>2
    <2>4. Carries(t, u) /\ u.panicked
      BY <1>1, <2>1, <2>3, CarriesPanic DEF Panicked, Terminals
    <2> QED
      BY <2>4 DEF u
  <1>12. CASE ~(cleared.panicked \/ spaced.panicked)
    <2>1. Follows(spaced, next, {}) /\ next.active = spaced.active
      <3>1. next = WithWrap(spaced, w)
        BY DEF next, WithWrap
      <3>2. spaced.active = "primary" => Active(spaced).col = Columns(spaced) - 1
        BY <1>10
      <3> QED
        BY <1>5, <1>10, <3>1, <3>2, WithWrapFollows
    <2>2. Follows(t, next, {s.row}) /\ next.active = t.active
      BY <1>9, <1>10, <2>1, Then DEF Edits
    <2>3. Carries(t, marked)
      <3>1. {s.row} \in SUBSET Nat
        BY <1>2
      <3> QED
        BY <2>2, <3>1, CarriesMarked DEF marked
    <2>4. Good(marked)
      BY <2>3, CarriesParts
    <2>5. Carries(marked, u) /\ (u.panicked \/ ~Active(u).wrap)
      BY <1>4, <1>12, <2>4, WrapPendingCarries
    <2>6. Carries(t, u)
      BY <2>3, <2>5, CarriesTwice
    <2> QED
      BY <2>5, <2>6 DEF u
  <1> QED
    BY <1>11, <1>12

LEMMA EditsWider ==
    ASSUME NEW t, NEW u, NEW S, Follows(t, u, {})
    PROVE  Follows(t, u, S)
  BY DEF Follows

(* A character of width w at a cursor where no wrap is pending.            *)
LEMMA PrintCellCarries ==
    ASSUME NEW t, Good(t), ~Active(t).wrap, NEW glyph, glyph.ink \in Nat, NEW w \in 1..2
    PROVE  Carries(t, print_cell(t, glyph, w))
  <1> DEFINE s == Active(t)
             r == s.row
             c == s.col
             one == clear_wide_partner_at(t, r, c)
             two == IF w > 1 THEN clear_wide_partner_at(one, r, c + 1) ELSE one
             lead == put(two, r, c, Cell(w, glyph.ink, t.shade))
             both == IF w > 1 /\ c + 1 < Columns(t)
                     THEN put(lead, r, c + 1, Cell(0, 0, t.shade)) ELSE lead
             full == c + w >= Columns(t)
             to == IF full THEN Columns(t) - 1 ELSE c + w
             placed == move_to(both, r, to)
             flag == Active(placed).wrap \/ full
             last == WithWrap(placed, flag)
             u == print_cell(t, glyph, w)
  <1>1. /\ t \in Terminals /\ s \in ScreenSet /\ t.shade \in BOOLEAN
        /\ t.active \in {"primary", "alternate"} /\ Columns(t) \in Nat \ {0}
        /\ t.active = "primary" => ScreenFits(s, t.dims)
    BY GoodParts, TerminalParts
  <1>2. r \in Nat /\ c \in Nat /\ c + 1 \in Nat /\ c + w \in Nat
    BY <1>1, ScreenParts
  <1>3. t.active = "primary" => r < Rows(t) /\ c < Columns(t)
    BY <1>1 DEF ScreenFits, Rows, Columns
  <1>4. Cell(w, glyph.ink, t.shade) \in Cells /\ Cell(0, 0, t.shade) \in Cells
    BY <1>1 DEF Cell, Cells
  <1>5. u = IF one.panicked \/ two.panicked \/ lead.panicked \/ both.panicked
            THEN Panicked(t) ELSE mark(last, {r})
    BY DEF print_cell, WithWrap
  <1>60. s.wrap = FALSE
    BY <1>1, ScreenParts
  <1> HIDE DEF u, last, flag, placed, both, lead, two, one, r, c, s
  <1>6. Edits(t, one, {r})
    BY <1>2, PartnerEdits DEF one
  <1>7. /\ Good(one) /\ one.active = t.active
        /\ Rows(one) = Rows(t) /\ Columns(one) = Columns(t)
    BY <1>6, EditsParts
  <1>8. Edits(t, two, {r})
    <2>1. CASE w > 1
      <3>1. Edits(one, two, {r})
        BY <1>2, <1>7, <2>1, PartnerEdits DEF two
      <3> QED
        BY <1>6, <3>1, EditsTwice
    <2>2. CASE ~(w > 1)
      BY <1>6, <2>2 DEF two
    <2> QED
      BY <2>1, <2>2
  <1>9. /\ Good(two) /\ two.active = t.active
        /\ Rows(two) = Rows(t) /\ Columns(two) = Columns(t)
    BY <1>8, EditsParts
  <1>10. Edits(t, lead, {r})
    <2>1. Edits(two, lead, {r})
      BY <1>2, <1>3, <1>4, <1>9, PutEdits DEF lead
    <2> QED
      BY <1>8, <2>1, EditsTwice
  <1>11. /\ Good(lead) /\ lead.active = t.active
         /\ Rows(lead) = Rows(t) /\ Columns(lead) = Columns(t)
    BY <1>10, EditsParts
  <1>12. Edits(t, both, {r})
    <2>1. CASE w > 1 /\ c + 1 < Columns(t)
      <3>1. Edits(lead, both, {r})
        BY <1>2, <1>3, <1>4, <1>11, <2>1, PutEdits DEF both
      <3> QED
        BY <1>10, <3>1, EditsTwice
    <2>2. CASE ~(w > 1 /\ c + 1 < Columns(t))
      BY <1>10, <2>2 DEF both
    <2> QED
      BY <2>1, <2>2
  <1>13. /\ Good(both) /\ both.active = t.active
         /\ Rows(both) = Rows(t) /\ Columns(both) = Columns(t)
         /\ Active(both).wrap = FALSE
    BY <1>12, <1>60, EditsParts DEF s
  <1>14. CASE one.panicked \/ two.panicked \/ lead.panicked \/ both.panicked
    <2>1. u = Panicked(t)
      BY <1>5, <1>14
    <2>2. t.active # "primary"
      BY <1>7, <1>9, <1>11, <1>13, <1>14 DEF Good
    <2> QED
      BY <2>1, <2>2, CarriesPanic DEF u
  <1>15. CASE ~(one.panicked \/ two.panicked \/ lead.panicked \/ both.panicked)
    <2>1. u = mark(last, {r})
      BY <1>5, <1>15
    <2>2. to \in Nat /\ to < Columns(t) /\ (full => to = Columns(t) - 1) /\ full \in BOOLEAN
      <3>1. \A n, m \in Nat : m >= 1 =>
               LET x == IF n >= m THEN m - 1 ELSE n IN
               x \in Nat /\ x < m /\ (n >= m => x = m - 1)
        OBVIOUS
      <3> QED
        BY <1>1, <1>2, <3>1
    <2> HIDE DEF to, full
    <2>3. Cursor(placed, both, r, to, FALSE)
      <3> DEFINE f == Active(both).wrap
      <3>0. f = FALSE
        BY <1>13
      <3> HIDE DEF f
      <3>1. Cursor(placed, both, r, to, f)
        BY <1>2, <1>3, <1>13, <2>2, MoveToCursor, <3>0 DEF placed, f
      <3> QED
        BY <3>0, <3>1
    <2>4. Follows(both, placed, {}) /\ placed.active = both.active
          /\ Active(placed).col = to /\ Active(placed).wrap = FALSE
      BY <2>3 DEF Cursor
    <2>5. Good(placed) /\ Columns(placed) = Columns(t)
      BY <1>13, <2>4 DEF Follows, Columns
    <2>6. flag \in BOOLEAN /\ (flag => Active(placed).col = Columns(placed) - 1)
      BY <2>2, <2>4, <2>5 DEF flag
    <2>7. Follows(placed, last, {}) /\ last.active = placed.active
      BY <2>5, <2>6, WithWrapFollows DEF last
    <2>8. Follows(t, placed, {r}) /\ placed.active = t.active
      BY <1>12, <1>13, <2>4, Then DEF Edits
    <2>9. Follows(t, last, {r}) /\ last.active = t.active
      BY <2>7, <2>8, Then
    <2>10. {r} \in SUBSET Nat
      BY <1>2
    <2> QED
      BY <2>1, <2>9, <2>10, CarriesMarked DEF u
  <1> QED
    BY <1>14, <1>15

LEMMA PrintCarries ==
    ASSUME NEW t, Good(t), NEW glyph \in Glyphs
    PROVE  Carries(t, print(t, glyph))
  <1> DEFINE w == Least(glyph.w, Least(Columns(t), 2))
             start == IF Active(t).wrap THEN wrap_pending(t) ELSE t
             wide == w > 1 /\ Active(start).col + w > Columns(t)
             ready == IF wide THEN wrap_wide(start) ELSE start
             u == print(t, glyph)
  <1>1. glyph.w \in Nat /\ glyph.ink \in Nat
    BY TerminalAssumption
  <1>2. /\ t \in Terminals /\ Columns(t) \in Nat \ {0}
    BY GoodParts
  <1>3. w \in 0..2 /\ w <= Columns(t)
    BY <1>1, <1>2 DEF Least
  <1>4. u = IF start.panicked THEN start ELSE IF w = 0 THEN start
            ELSE IF ready.panicked THEN ready ELSE print_cell(ready, glyph, w)
    BY DEF print
  <1> HIDE DEF w, u, ready, start
  <1>5. Carries(t, start) /\ (start.panicked \/ ~Active(start).wrap)
    BY WrapPendingCarries, CarriesSelf DEF start
  <1>6. Good(start) /\ Columns(start) = Columns(t) /\ start.active = t.active
    BY <1>5, CarriesParts
  <1>7. CASE start.panicked \/ w = 0
    BY <1>4, <1>5, <1>7 DEF u
  <1>8. CASE ~start.panicked /\ w # 0
    <2>1. Active(start) \in ScreenSet
      BY <1>6, GoodParts
    <2>2. Active(start).col \in Nat
      BY <2>1, ScreenParts
    <2>3. CASE wide
      <3>1. ready = wrap_wide(start)
        BY <2>3 DEF ready
      <3>2. ASSUME start.active = "primary" PROVE Active(start).col = Columns(start) - 1
        <4>1. Active(start).col < Columns(start)
          BY <1>6, <3>2, GoodParts DEF ScreenFits, Columns
        <4> QED
          BY <1>2, <1>3, <1>6, <2>2, <2>3, <4>1
      <3>3. Carries(start, ready) /\ (ready.panicked \/ ~Active(ready).wrap)
        BY <1>6, <3>1, <3>2, WrapWideCarries
      <3>4. Carries(t, ready) /\ Good(ready) /\ Columns(ready) = Columns(t)
            /\ ready.active = t.active
        BY <1>5, <1>6, <3>3, CarriesTwice, CarriesParts
      <3>5. CASE ready.panicked
        BY <1>4, <1>8, <3>4, <3>5 DEF u
      <3>6. CASE ~ready.panicked
        <4>1. u = print_cell(ready, glyph, w)
          BY <1>4, <1>8, <3>6
        <4>2. Carries(ready, u)
          BY <1>1, <1>3, <1>8, <3>3, <3>4, <3>6, <4>1, PrintCellCarries
        <4> QED
          BY <3>4, <4>2, CarriesTwice DEF u
      <3> QED
        BY <3>5, <3>6
    <2>4. CASE ~wide
      <3>1. ready = start /\ u = print_cell(start, glyph, w)
        BY <1>4, <1>8, <2>4 DEF ready
      <3>2. Carries(start, u)
        BY <1>1, <1>3, <1>5, <1>6, <1>8, <3>1, PrintCellCarries
      <3> QED
        BY <1>5, <3>2, CarriesTwice DEF u
    <2> QED
      BY <2>3, <2>4
  <1> QED
    BY <1>7, <1>8

-----------------------------------------------------------------------------
(* Controls and cursor movement.                                           *)

(* Where the cursor of a good state is.                                    *)
LEMMA CursorOnScreen ==
    ASSUME NEW t, Good(t)
    PROVE  /\ Active(t).row \in Nat /\ Active(t).col \in Nat
           /\ Rows(t) \in Nat \ {0} /\ Columns(t) \in Nat \ {0}
           /\ t.active = "primary" => Active(t).row < Rows(t) /\ Active(t).col < Columns(t)
  <1>1. /\ Active(t) \in ScreenSet /\ Rows(t) \in Nat \ {0} /\ Columns(t) \in Nat \ {0}
        /\ t.active = "primary" => ScreenFits(Active(t), t.dims)
    BY GoodParts
  <1> QED
    BY <1>1, ScreenParts DEF ScreenFits, Rows, Columns

LEMMA SetCursorCarries ==
    ASSUME NEW t, Good(t), NEW r \in Nat, NEW c \in Nat,
           t.active = "primary" => r < Rows(t) /\ c < Columns(t)
    PROVE  Carries(t, set_cursor_position(t, r, c))
  <1>1. {Active(t).row, r} \in SUBSET Nat
    BY CursorOnScreen
  <1> QED
    BY <1>1, UnwrapAndMove DEF set_cursor_position, Carries

LEMMA ToColumnCarries ==
    ASSUME NEW t, Good(t), NEW c \in Nat, t.active = "primary" => c < Columns(t)
    PROVE  Carries(t, to_column(t, c))
  <1> DEFINE r == Active(t).row
             m == mark(move_to(unwrapped(t), r, c), {r})
  <1>1. r \in Nat /\ (t.active = "primary" => r < Rows(t)) /\ {r} \in SUBSET Nat
    BY CursorOnScreen
  <1>2. Follows(t, m, {}) /\ m.active = t.active
    BY <1>1, UnwrapAndMove
  <1>3. Active(unwrapped(t)).row = r
    BY UnwrappedCursor DEF Cursor
  <1>4. to_column(t, c) = m
    BY <1>3 DEF to_column
  <1> QED
    BY <1>2, <1>4 DEF Carries

LEMMA ControlCarries ==
    ASSUME NEW t, Good(t), NEW kind \in Controls
    PROVE  Carries(t, apply_control(t, kind))
  <1> DEFINE c == Active(t).col
  <1>1. c \in Nat /\ Columns(t) \in Nat \ {0} /\ (t.active = "primary" => c < Columns(t))
    BY CursorOnScreen
  <1>2. kind \in {"BS", "HT", "LF", "CR"}
    BY TerminalAssumption DEF ControlKinds
  <1> HIDE DEF c
  <1>3. CASE kind = "BS"
    <2>1. Monus(c, 1) \in Nat /\ Monus(c, 1) <= c
      BY <1>1 DEF Monus, Greatest
    <2>2. Carries(t, to_column(t, Monus(c, 1)))
      BY <1>1, <2>1, ToColumnCarries
    <2> QED
      BY <1>3, <2>2 DEF apply_control, backspace, c
  <1>4. CASE kind = "HT"
    <2> DEFINE to == Least((c \div 8 + 1) * 8, Columns(t) - 1)
    <2>1. c \div 8 \in Nat
      BY <1>1
    <2>2. (c \div 8 + 1) * 8 \in Nat
      BY <2>1
    <2>3. \A x \in Nat : Least(x, Columns(t) - 1) \in Nat
                          /\ Least(x, Columns(t) - 1) < Columns(t)
      BY <1>1 DEF Least
    <2>4. to \in Nat /\ to < Columns(t)
      BY <2>2, <2>3
    <2> HIDE DEF to
    <2>5. Carries(t, to_column(t, to))
      BY <2>4, ToColumnCarries
    <2> QED
      BY <1>4, <2>5 DEF apply_control, horizontal_tab, c, to
  <1>5. CASE kind = "LF"
    BY <1>5, LineFeedCarries DEF apply_control
  <1>6. CASE kind = "CR"
    <2>1. Carries(t, to_column(t, 0))
      BY <1>1, ToColumnCarries
    <2> QED
      BY <1>6, <2>1 DEF apply_control, carriage_return
  <1> QED
    BY <1>2, <1>3, <1>4, <1>5, <1>6

LEMMA MoveCarries ==
    ASSUME NEW t, Good(t), NEW m \in Moves
    PROVE  Carries(t, apply_move(t, m))
  <1> DEFINE s == Active(t)
             down == Least(s.row + Param(m.n), Rows(t) - 1)
             up == Monus(s.row, Param(m.n))
             right == Least(s.col + Param(m.n), Columns(t) - 1)
             left == Monus(s.col, Param(m.n))
             OnRow(r) == r \in Nat /\ (t.active = "primary" => r < Rows(t))
             OnColumn(c) == c \in Nat /\ (t.active = "primary" => c < Columns(t))
  <1>1. OnRow(s.row) /\ OnColumn(s.col) /\ Rows(t) \in Nat \ {0} /\ Columns(t) \in Nat \ {0}
    BY CursorOnScreen
  <1>2. m.final \in {"A", "B", "C", "D", "E", "F", "G", "H", "d"} /\ m.n \in Nat /\ m.m \in Nat
    BY TerminalAssumption DEF MoveFinals
  <1>3. \A n \in Nat : Param(n) \in Nat \ {0}
    BY DEF Param, Greatest
  <1>4. OnRow(down) /\ OnRow(up)
    BY <1>1, <1>2, <1>3 DEF Least, Monus, Greatest
  <1>5. OnColumn(right) /\ OnColumn(left)
    BY <1>1, <1>2, <1>3 DEF Least, Monus, Greatest
  <1>6. OnColumn(0)
    BY <1>1
  <1>7. \A n \in Nat : OnRow(Index(n, Rows(t))) /\ OnColumn(Index(n, Columns(t)))
    BY <1>1, <1>3 DEF Index, Least
  <1>8. \A r, c : OnRow(r) /\ OnColumn(c) => Carries(t, set_cursor_position(t, r, c))
    BY SetCursorCarries
  <1> HIDE DEF OnRow, OnColumn
  <1>9. \/ apply_move(t, m) = set_cursor_position(t, up, s.col)
        \/ apply_move(t, m) = set_cursor_position(t, down, s.col)
        \/ apply_move(t, m) = set_cursor_position(t, s.row, right)
        \/ apply_move(t, m) = set_cursor_position(t, s.row, left)
        \/ apply_move(t, m) = set_cursor_position(t, down, 0)
        \/ apply_move(t, m) = set_cursor_position(t, up, 0)
        \/ apply_move(t, m) = set_cursor_position(t, s.row, Index(m.n, Columns(t)))
        \/ apply_move(t, m) = set_cursor_position(t, Index(m.n, Rows(t)), s.col)
        \/ apply_move(t, m) = set_cursor_position(t, Index(m.n, Rows(t)), Index(m.m, Columns(t)))
    BY <1>2 DEF apply_move
  <1> HIDE DEF s, down, up, right, left
  <1> QED
    BY <1>1, <1>2, <1>4, <1>5, <1>6, <1>7, <1>8, <1>9

-----------------------------------------------------------------------------
(* Modes.                                                                  *)

(* The screens differ in whether their cursors show at most.               *)
LEMMA SameScreensCarries ==
    ASSUME NEW t, Good(t), NEW u \in Terminals, u.dims = t.dims, u.active = t.active,
           u.scrollback = t.scrollback, u.nextId = t.nextId, u.damage = t.damage,
           u.panicked = t.panicked,
           u.primary = [t.primary EXCEPT !.visible = u.primary.visible],
           u.alternate = [t.alternate EXCEPT !.visible = u.alternate.visible]
    PROVE  Carries(t, u) /\ Active(u).rows = Active(t).rows
  <1>1. t \in Terminals /\ t.primary \in ScreenSet /\ t.alternate \in ScreenSet
        /\ t.active \in {"primary", "alternate"} /\ t.nextId \in Nat
    BY TerminalParts DEF Good
  <1>2. /\ u.primary.rows = t.primary.rows /\ u.primary.row = t.primary.row
        /\ u.primary.col = t.primary.col /\ u.primary.wrap = t.primary.wrap
        /\ u.alternate.rows = t.alternate.rows
    BY <1>1 DEF ScreenSet
  <1>3. Active(u).rows = Active(t).rows
    BY <1>2 DEF Active
  <1>4. Good(u)
    BY <1>2 DEF Good, Distinct, ScreenFits
  <1>5. \A r \in 0..Rows(t) - 1 : SameRow(Active(t).rows, Active(u).rows, r)
    BY <1>3 DEF SameRow
  <1>6. Remembers(t, u)
    BY <1>2 DEF Remembers, Known
  <1>7. Follows(t, u, {})
    BY <1>1, <1>4, <1>5, <1>6 DEF Follows, Isolated
  <1> QED
    BY <1>3, <1>7 DEF Carries

LEMMA SaveCarries ==
    ASSUME NEW t, Good(t)
    PROVE  Carries(t, save_cursor(t))
  <1> DEFINE u == save_cursor(t)
             saved == [screen |-> t.active, row |-> Active(t).row, col |-> Active(t).col]
  <1>1. /\ t \in Terminals /\ t.primary \in ScreenSet /\ t.alternate \in ScreenSet
        /\ t.active \in {"primary", "alternate"}
    BY TerminalParts DEF Good
  <1>2. saved \in [screen : {"none", "primary", "alternate"}, row : Nat, col : Nat]
    BY <1>1, CursorOnScreen
  <1>3. u = [t EXCEPT !.saved = saved]
    BY DEF save_cursor
  <1> HIDE DEF u, saved
  <1>4. /\ u \in Terminals /\ u.dims = t.dims /\ u.active = t.active
        /\ u.scrollback = t.scrollback /\ u.nextId = t.nextId /\ u.damage = t.damage
        /\ u.panicked = t.panicked /\ u.primary = t.primary /\ u.alternate = t.alternate
    BY <1>1, <1>2, <1>3 DEF Terminals
  <1>5. \A s \in ScreenSet : s = [s EXCEPT !.visible = s.visible]
    BY DEF ScreenSet
  <1> QED
    BY <1>1, <1>4, <1>5, SameScreensCarries DEF u

LEMMA ShadeCarries ==
    ASSUME NEW t, Good(t), NEW bg \in Backgrounds
    PROVE  Carries(t, [t EXCEPT !.shade = bg])
  <1> DEFINE u == [t EXCEPT !.shade = bg]
  <1>1. t \in Terminals /\ t.primary \in ScreenSet /\ t.alternate \in ScreenSet
        /\ bg \in BOOLEAN
    BY TerminalParts, TerminalAssumption DEF Good
  <1>2. /\ u \in Terminals /\ u.dims = t.dims /\ u.active = t.active
        /\ u.scrollback = t.scrollback /\ u.nextId = t.nextId /\ u.damage = t.damage
        /\ u.panicked = t.panicked /\ u.primary = t.primary /\ u.alternate = t.alternate
    BY <1>1 DEF Terminals
  <1>3. \A s \in ScreenSet : s = [s EXCEPT !.visible = s.visible]
    BY DEF ScreenSet
  <1> HIDE DEF u
  <1> QED
    BY <1>1, <1>2, <1>3, SameScreensCarries DEF u

LEMMA VisibleCarries ==
    ASSUME NEW t, Good(t), NEW visible \in BOOLEAN
    PROVE  Carries(t, set_cursor_visible(t, visible))
  <1> DEFINE v == [t EXCEPT !.primary.visible = visible, !.alternate.visible = visible]
             p == [t.primary EXCEPT !.visible = visible]
             a == [t.alternate EXCEPT !.visible = visible]
  <1>1. t \in Terminals /\ t.primary \in ScreenSet /\ t.alternate \in ScreenSet
    BY TerminalParts DEF Good
  <1>2. /\ p \in ScreenSet /\ a \in ScreenSet /\ p.visible = visible /\ a.visible = visible
    BY <1>1 DEF ScreenSet
  <1>3. v = [t EXCEPT !.primary = p, !.alternate = a]
    BY <1>1 DEF Terminals
  <1>4. p = [t.primary EXCEPT !.visible = p.visible]
        /\ a = [t.alternate EXCEPT !.visible = a.visible]
    BY <1>2
  <1> HIDE DEF p, a, v
  <1>5. /\ v \in Terminals /\ v.dims = t.dims /\ v.active = t.active
        /\ v.scrollback = t.scrollback /\ v.nextId = t.nextId /\ v.damage = t.damage
        /\ v.panicked = t.panicked /\ v.primary = p /\ v.alternate = a
    BY <1>1, <1>2, <1>3 DEF Terminals
  <1>6. Carries(t, v)
    BY <1>4, <1>5, SameScreensCarries
  <1>7. {Active(t).row} \in SUBSET Nat
    BY CursorOnScreen
  <1>8. set_cursor_visible(t, visible) = mark(v, {Active(t).row})
    BY DEF set_cursor_visible, v
  <1> QED
    BY <1>6, <1>7, <1>8, CarriesMark

LEMMA RestoreCarries ==
    ASSUME NEW t, Good(t)
    PROVE  Carries(t, restore_cursor(t))
  <1> DEFINE r == Least(t.saved.row, Rows(t) - 1)
             c == Least(t.saved.col, Columns(t) - 1)
  <1>1. t.saved.row \in Nat /\ t.saved.col \in Nat
    BY TerminalParts DEF Good
  <1>2. Rows(t) \in Nat \ {0} /\ Columns(t) \in Nat \ {0}
    BY CursorOnScreen
  <1>3. r \in Nat /\ c \in Nat /\ r < Rows(t) /\ c < Columns(t) /\ {r} \in SUBSET Nat
    BY <1>1, <1>2 DEF Least
  <1>4. CASE t.saved.screen = t.active
    <2> DEFINE u == mark(move_to(unwrapped(t), r, c), {r})
    <2>1. restore_cursor(t) = u
      BY <1>4 DEF restore_cursor
    <2> HIDE DEF r, c
    <2>2. Follows(t, u, {}) /\ u.active = t.active
      BY <1>3, UnwrapAndMove
    <2> QED
      BY <2>1, <2>2 DEF Carries
  <1>5. CASE t.saved.screen # t.active
    BY <1>5, CarriesSelf DEF restore_cursor
  <1> QED
    BY <1>4, <1>5

(* Screen::new: rows of its size with the ids from id on.                  *)
LEMMA NewScreenParts ==
    ASSUME NEW dims, ValidSize(dims), NEW id \in Nat \ {0}
    PROVE  LET s == NewScreen(dims, id) IN
           /\ s \in ScreenSet /\ ScreenFits(s, dims) /\ s.rows # <<>> /\ Inj(s.rows)
           /\ Below(s.rows, id + dims.rows) /\ \A i \in DOMAIN s.rows : id <= s.rows[i].id
  <1> DEFINE s == NewScreen(dims, id)
             rows == BlankRows(dims.rows, dims.cols, id)
  <1>1. dims.rows \in Nat \ {0} /\ dims.cols \in Nat \ {0}
    BY SizeParts
  <1>2. /\ rows \in Seq(RowSet) /\ Len(rows) = dims.rows /\ Sized(rows, dims.cols)
        /\ \A i \in 1..dims.rows : rows[i].id = id + i - 1
    BY <1>1, BlankRowsType
  <1>3. s = [rows |-> rows, row |-> 0, col |-> 0, visible |-> TRUE, wrap |-> FALSE]
    BY DEF NewScreen
  <1> HIDE DEF rows, s
  <1>4. s \in ScreenSet
    BY <1>2, <1>3 DEF ScreenSet
  <1>5. s.rows = rows /\ s.row = 0 /\ s.col = 0 /\ s.wrap = FALSE
    BY <1>3
  <1>6. ScreenFits(s, dims)
    BY <1>1, <1>2, <1>5 DEF ScreenFits
  <1>7. DOMAIN rows = 1..dims.rows /\ rows # <<>>
    BY <1>1, <1>2
  <1>8. Inj(rows) /\ Below(rows, id + dims.rows) /\ \A i \in DOMAIN rows : id <= rows[i].id
    BY <1>1, <1>2, <1>7 DEF Inj, Below
  <1> QED
    BY <1>4, <1>5, <1>6, <1>7, <1>8 DEF s

(* Rows below id are below a later one.                                    *)
LEMMA BelowLater ==
    ASSUME NEW rows \in Seq(RowSet), NEW id \in Nat, NEW later \in Nat, id <= later,
           Below(rows, id)
    PROVE  Below(rows, later)
  <1>1. ASSUME NEW i \in DOMAIN rows PROVE rows[i].id < later
    <2>1. rows[i].id \in Nat /\ rows[i].id < id
      BY RowParts, ElementOfSeq DEF Below
    <2> QED
      BY <2>1
  <1> QED
    BY <1>1 DEF Below

(* Rows with new ids are apart from those there were.                      *)
LEMMA NewApart ==
    ASSUME NEW old \in Seq(RowSet), NEW new \in Seq(RowSet), NEW id \in Nat,
           Below(old, id), \A i \in DOMAIN new : id <= new[i].id
    PROVE  Apart(old, new) /\ Apart(new, old)
  <1>1. ASSUME NEW i \in DOMAIN old, NEW j \in DOMAIN new PROVE old[i].id # new[j].id
    <2>1. /\ old[i].id \in Nat /\ old[i].id < id
          /\ new[j].id \in Nat /\ id <= new[j].id
      BY RowParts, ElementOfSeq DEF Below
    <2> QED
      BY <2>1
  <1> QED
    BY <1>1 DEF Apart

(* The rows on the screen.                                                 *)
Everything(t) == 0..Rows(t) - 1

(* Another alternate screen, of new rows.                                  *)
LEMMA ResetFollows ==
    ASSUME NEW t, Good(t)
    PROVE  /\ Follows(t, reset_alternate(t), Everything(t))
           /\ reset_alternate(t).active = t.active /\ reset_alternate(t).panicked = t.panicked
  <1> DEFINE u == reset_alternate(t)
             s == NewScreen(t.dims, t.nextId)
  <1>1. /\ t \in Terminals /\ t.nextId \in Nat \ {0} /\ Rows(t) \in Nat \ {0}
        /\ t.scrollback \in Scrollbacks /\ t.primary \in ScreenSet /\ ValidSize(t.dims)
        /\ Rows(t) = t.dims.rows
    BY GoodParts, TerminalParts DEF Good, Rows
  <1>2. /\ s \in ScreenSet /\ s.rows # <<>> /\ Inj(s.rows)
        /\ Below(s.rows, t.nextId + Rows(t)) /\ \A i \in DOMAIN s.rows : t.nextId <= s.rows[i].id
    BY <1>1, NewScreenParts
  <1> HIDE DEF s
  <1>3. /\ u \in Terminals /\ u.dims = t.dims /\ u.active = t.active
        /\ u.scrollback = t.scrollback /\ u.nextId = t.nextId + Rows(t) /\ u.damage = t.damage
        /\ u.panicked = t.panicked /\ u.primary = t.primary /\ u.alternate = s
    <2> DEFINE later == t.nextId + Rows(t)
    <2>1. u = [t EXCEPT !.alternate = s, !.nextId = later]
      BY <1>1 DEF reset_alternate, s, Terminals
    <2>2. later \in Nat \ {0}
      BY <1>1
    <2> HIDE DEF u, later
    <2>3. /\ u \in Terminals /\ u.dims = t.dims /\ u.active = t.active
          /\ u.scrollback = t.scrollback /\ u.nextId = later /\ u.damage = t.damage
          /\ u.panicked = t.panicked /\ u.primary = t.primary /\ u.alternate = s
      BY <1>1, <1>2, <2>1, <2>2 DEF Terminals
    <2> QED
      BY <2>3 DEF later
  <1> HIDE DEF u
  <1>4. u.nextId \in Nat /\ t.nextId <= u.nextId
    BY <1>1, <1>3
  <1>5. /\ t.scrollback.rows \in Seq(RowSet) /\ t.primary.rows \in Seq(RowSet)
        /\ s.rows \in Seq(RowSet)
    BY <1>1, <1>2, ScreenParts DEF Scrollbacks
  <1>6. Distinct(t)
    BY DEF Good
  <1>7. Below(t.scrollback.rows, u.nextId) /\ Below(t.primary.rows, u.nextId)
    BY <1>1, <1>4, <1>5, <1>6, BelowLater DEF Distinct
  <1>8. Apart(t.scrollback.rows, s.rows) /\ Apart(t.primary.rows, s.rows)
    BY <1>1, <1>2, <1>5, <1>6, NewApart DEF Distinct
  <1>9. Distinct(u)
    BY <1>2, <1>3, <1>6, <1>7, <1>8 DEF Distinct
  <1>10. Good(u)
    BY <1>2, <1>3, <1>9 DEF Good
  <1>11. Isolated(t, u) /\ Remembers(t, u)
    <2>1. t.primary = [t.primary EXCEPT !.visible = t.primary.visible]
      BY <1>1 DEF ScreenSet
    <2> QED
      BY <1>3, <2>1 DEF Isolated, Remembers, Known
  <1>12. Follows(t, u, Everything(t))
    BY <1>3, <1>4, <1>10, <1>11 DEF Follows, Everything
  <1> QED
    BY <1>3, <1>12 DEF u

(* Another screen becomes the active one.                                  *)
LEMMA SwitchFollows ==
    ASSUME NEW t, Good(t), NEW screen \in {"primary", "alternate"},
           screen = "primary" => ~t.panicked, NEW u, u = [t EXCEPT !.active = screen]
    PROVE  Follows(t, u, Everything(t)) /\ u.active = screen /\ Rows(u) = Rows(t)
  <1>1. t \in Terminals /\ t.primary \in ScreenSet /\ t.nextId \in Nat
    BY TerminalParts DEF Good
  <1>2. /\ u \in Terminals /\ u.dims = t.dims /\ u.active = screen
        /\ u.scrollback = t.scrollback /\ u.nextId = t.nextId /\ u.damage = t.damage
        /\ u.panicked = t.panicked /\ u.primary = t.primary /\ u.alternate = t.alternate
    BY <1>1 DEF Terminals
  <1>3. Good(u)
    BY <1>2 DEF Good, Distinct
  <1>4. Isolated(t, u) /\ Remembers(t, u)
    <2>1. t.primary = [t.primary EXCEPT !.visible = t.primary.visible]
      BY <1>1 DEF ScreenSet
    <2> QED
      BY <1>2, <2>1 DEF Isolated, Remembers, Known
  <1>5. Follows(t, u, Everything(t))
    BY <1>1, <1>2, <1>3, <1>4 DEF Follows, Everything
  <1> QED
    BY <1>2, <1>5 DEF Rows

(* A switch of screens, with the alternate one reset or not, marks all.    *)
LEMMA ScreenSwitched ==
    ASSUME NEW t, Good(t), NEW m, m = t \/ m = reset_alternate(t),
           NEW screen \in {"primary", "alternate"}, screen = "primary" => ~t.panicked
    PROVE  /\ Follows(t, mark_all([m EXCEPT !.active = screen]), {})
           /\ mark_all([m EXCEPT !.active = screen]).active = screen
  <1> DEFINE v == [m EXCEPT !.active = screen]
             S == Everything(t)
  <1>1. Follows(t, m, S) /\ m.active = t.active /\ m.panicked = t.panicked
    BY ResetFollows, FollowsSelf
  <1>2. Good(m) /\ Rows(m) = Rows(t)
    BY <1>1 DEF Follows, Rows
  <1>3. v = [m EXCEPT !.active = screen]
    OBVIOUS
  <1> HIDE DEF v
  <1>4. Follows(m, v, Everything(m)) /\ v.active = screen /\ Rows(v) = Rows(m)
    BY <1>1, <1>2, <1>3, SwitchFollows
  <1>5. Everything(m) = S
    BY <1>2 DEF Everything
  <1>6. S \cup S = S /\ S \ S = {} /\ S \in SUBSET Nat
    <2>1. Rows(t) \in Nat
      BY CursorOnScreen
    <2> QED
      BY <2>1 DEF Everything
  <1>7. Follows(t, v, S)
    <2> HIDE DEF S
    <2>1. Follows(t, v, S \cup S)
      BY <1>1, <1>4, <1>5, FollowsTwice
    <2> QED
      BY <1>6, <2>1
  <1>8. mark_all(v) = mark(v, S)
    BY <1>2, <1>4 DEF mark_all, Everything
  <1>9. Follows(t, mark(v, S), S \ S) /\ mark(v, S).active = v.active
    BY <1>6, <1>7, MarkFollows
  <1> QED
    BY <1>4, <1>6, <1>8, <1>9 DEF v

LEMMA EnterFollows ==
    ASSUME NEW t, Good(t), NEW clear \in BOOLEAN
    PROVE  /\ Follows(t, enter_alternate_screen(t, clear), {})
           /\ enter_alternate_screen(t, clear).active = "alternate"
  <1>1. CASE clear
    BY <1>1, ScreenSwitched DEF enter_alternate_screen
  <1>2. CASE ~clear
    BY <1>2, ScreenSwitched DEF enter_alternate_screen
  <1> QED
    BY <1>1, <1>2

LEMMA ExitFollows ==
    ASSUME NEW t, Good(t), ~t.panicked, NEW clear \in BOOLEAN
    PROVE  /\ Follows(t, exit_alternate_screen(t, clear), {})
           /\ exit_alternate_screen(t, clear).active = "primary"
  <1>1. CASE clear /\ t.active = "alternate"
    BY <1>1, ScreenSwitched DEF exit_alternate_screen
  <1>2. CASE ~(clear /\ t.active = "alternate")
    BY <1>2, ScreenSwitched DEF exit_alternate_screen
  <1> QED
    BY <1>1, <1>2

LEMMA ModeFollows ==
    ASSUME NEW t, Good(t), ~t.panicked, NEW mode, NEW enabled \in BOOLEAN
    PROVE  Follows(t, apply_dec_private_mode(t, mode, enabled), {})
  <1> DEFINE u == apply_dec_private_mode(t, mode, enabled)
  <1>1. /\ Follows(t, set_cursor_visible(t, enabled), {})
        /\ Follows(t, save_cursor(t), {}) /\ save_cursor(t).active = t.active
        /\ Follows(t, restore_cursor(t), {}) /\ Follows(t, t, {})
    BY VisibleCarries, SaveCarries, RestoreCarries, FollowsSelf DEF Carries
  <1>2. /\ Follows(t, enter_alternate_screen(t, FALSE), {})
        /\ Follows(t, exit_alternate_screen(t, FALSE), {})
        /\ Follows(t, exit_alternate_screen(t, TRUE), {})
        /\ exit_alternate_screen(t, TRUE).active = "primary"
    BY EnterFollows, ExitFollows
  <1>3. {} \cup {} = {}
    OBVIOUS
  <1>4. Follows(t, enter_alternate_screen(save_cursor(t), TRUE), {})
    <2> DEFINE m == save_cursor(t)
    <2>1. Follows(t, m, {}) /\ m.active = t.active /\ Good(m)
      BY <1>1 DEF Follows
    <2> HIDE DEF m
    <2>2. Follows(m, enter_alternate_screen(m, TRUE), {})
      BY <2>1, EnterFollows
    <2>3. Follows(t, enter_alternate_screen(m, TRUE), {})
      BY <2>1, <2>2, Then
    <2> QED
      BY <2>3 DEF m
  <1>5. Follows(t, restore_cursor(exit_alternate_screen(t, TRUE)), {})
    <2> DEFINE m == exit_alternate_screen(t, TRUE)
               r == restore_cursor(m)
    <2>1. Follows(t, m, {}) /\ Good(m)
      BY <1>2 DEF Follows
    <2> HIDE DEF m
    <2>2. Follows(m, r, {}) /\ r.active = m.active
      BY <2>1, RestoreCarries DEF Carries
    <2>3. Follows(t, r, {} \cup {})
      <3> HIDE DEF r
      <3> QED
        BY <2>1, <2>2, FollowsTwice
    <2> QED
      BY <1>3, <2>3 DEF m
  <1> DEFINE visible == set_cursor_visible(t, enabled)
             enter == enter_alternate_screen(t, FALSE)
             leave == exit_alternate_screen(t, FALSE)
             clear == exit_alternate_screen(t, TRUE)
             save == save_cursor(t)
             restore == restore_cursor(t)
             enter2 == enter_alternate_screen(save_cursor(t), TRUE)
             leave2 == restore_cursor(exit_alternate_screen(t, TRUE))
             F(v) == Follows(t, v, {})
  <1>6. /\ F(visible) /\ F(enter) /\ F(leave) /\ F(clear) /\ F(save) /\ F(restore)
        /\ F(enter2) /\ F(leave2) /\ F(t)
    BY <1>1, <1>2, <1>4, <1>5
  <1>7. ASSUME mode = 25 PROVE u = visible
    BY <1>7 DEF apply_dec_private_mode
  <1>8. ASSUME mode = 47, enabled PROVE u = enter
    BY <1>8 DEF apply_dec_private_mode
  <1>9. ASSUME mode = 47, ~enabled PROVE u = leave
    BY <1>9 DEF apply_dec_private_mode
  <1>10. ASSUME mode = 1047, enabled PROVE u = enter
    BY <1>10 DEF apply_dec_private_mode
  <1>11. ASSUME mode = 1047, ~enabled PROVE u = clear
    BY <1>11 DEF apply_dec_private_mode
  <1>12. ASSUME mode = 1048, enabled PROVE u = save
    BY <1>12 DEF apply_dec_private_mode
  <1>13. ASSUME mode = 1048, ~enabled PROVE u = restore
    BY <1>13 DEF apply_dec_private_mode
  <1>14. ASSUME mode = 1049, enabled PROVE u = enter2
    BY <1>14 DEF apply_dec_private_mode
  <1>15. ASSUME mode = 1049, ~enabled PROVE u = leave2
    BY <1>15 DEF apply_dec_private_mode
  <1>16. ASSUME mode # 25, mode # 47, mode # 1047, mode # 1048, mode # 1049 PROVE u = t
    BY <1>16 DEF apply_dec_private_mode
  <1> HIDE DEF visible, enter, leave, clear, save, restore, enter2, leave2, u, F
  <1>17. F(u)
    BY <1>6, <1>7, <1>8, <1>9, <1>10, <1>11, <1>12, <1>13, <1>14, <1>15, <1>16
  <1> QED
    BY <1>17 DEF F, u

-----------------------------------------------------------------------------
(* Erasing.                                                                *)

(* A row of the cells and the wrap flag given.                             *)
LEMMA RowChanged ==
    ASSUME NEW old \in RowSet, NEW cells \in Seq(Cells), NEW wrapped \in BOOLEAN
    PROVE  LET row == [id |-> old.id, gen |-> old.gen, cells |-> cells, wrapped |-> wrapped] IN
           row \in RowSet /\ row.id = old.id /\ row.cells = cells
  BY RowParts DEF RowSet

LEMMA RowRecord ==
    ASSUME NEW old \in RowSet, NEW cells, NEW end \in BOOLEAN
    PROVE  [[old EXCEPT !.cells = cells] EXCEPT !.wrapped = @ /\ end]
             = [id |-> old.id, gen |-> old.gen, cells |-> cells, wrapped |-> old.wrapped /\ end]
  <1> DEFINE x == [old EXCEPT !.cells = cells]
             a == old.wrapped /\ end
             y == [x EXCEPT !.wrapped = @ /\ end]
  <1>1. x = [id |-> old.id, gen |-> old.gen, cells |-> cells, wrapped |-> old.wrapped]
    BY DEF RowSet
  <1> HIDE DEF x
  <1>2. x.id = old.id /\ x.gen = old.gen /\ x.cells = cells /\ x.wrapped = old.wrapped
        /\ DOMAIN x = {"id", "gen", "cells", "wrapped"}
    BY <1>1
  <1>3. y = [x EXCEPT !.wrapped = a]
    BY <1>2
  <1> HIDE DEF a, y
  <1>4. y = [id |-> old.id, gen |-> old.gen, cells |-> cells, wrapped |-> a]
    BY <1>1, <1>3
  <1> QED
    BY <1>4 DEF x, y, a

LEMMA FillCarries ==
    ASSUME NEW t, Good(t), NEW r \in Nat, NEW start \in Nat, NEW end \in Nat, NEW bg \in BOOLEAN
    PROVE  Carries(t, fill_erased_cells(t, r, start, end, bg))
  <1> DEFINE s == Active(t)
             k == r + 1
             last == Least(end, Columns(t))
             cells == [c \in DOMAIN s.rows[k].cells |->
                         IF c - 1 \in start..last - 1 THEN Cell(1, 0, bg)
                         ELSE s.rows[k].cells[c]]
             open == last # Columns(t)
             set == [s EXCEPT !.rows[k].cells = cells, !.rows[k].wrapped = @ /\ open]
             u == fill_erased_cells(t, r, start, end, bg)
             old == s.rows[k]
             row == [id |-> old.id, gen |-> old.gen, cells |-> cells,
                     wrapped |-> old.wrapped /\ open]
             w == s.wrap
  <1>1. s \in ScreenSet /\ Rows(t) \in Nat \ {0} /\ Columns(t) \in Nat \ {0}
    BY GoodParts
  <1>2. /\ s.rows \in Seq(RowSet) /\ w \in BOOLEAN
        /\ last \in Nat /\ last <= Columns(t) /\ last <= end /\ open \in BOOLEAN
    BY <1>1, ScreenParts DEF Least
  <1>3. u = IF r >= Rows(t) \/ start >= Columns(t) \/ start >= end THEN t
            ELSE IF ~Has(s, r, last - 1) THEN Panicked(t)
            ELSE mark(Update(t, set), {r})
    BY DEF fill_erased_cells
  <1>4. CASE r >= Rows(t) \/ start >= Columns(t) \/ start >= end
    BY <1>3, <1>4, CarriesSelf
  <1>5. CASE ~(r >= Rows(t) \/ start >= Columns(t) \/ start >= end)
    <2>1. last - 1 \in Nat /\ last - 1 < Columns(t) /\ r < Rows(t)
      <3>1. last > 0
        BY <1>1, <1>5 DEF Least
      <3> QED
        BY <1>1, <1>2, <1>5, <3>1
    <2> HIDE DEF last, cells, open, set, u
    <2>2. CASE ~Has(s, r, last - 1)
      <3>1. t.active # "primary"
        BY <2>1, <2>2, PrimaryHas
      <3> QED
        BY <1>3, <1>5, <2>2, <3>1, CarriesPanic DEF u
    <2>3. CASE Has(s, r, last - 1)
      <3>1. k \in DOMAIN s.rows /\ old \in RowSet /\ u = mark(Update(t, set), {r})
        BY <1>2, <1>3, <1>5, <2>3, ElementOfSeq DEF Has
      <3>2. old.cells \in Seq(Cells) /\ Len(old.cells) \in Nat /\ old.wrapped \in BOOLEAN
        BY <3>1, RowParts
      <3>3. cells \in Seq(Cells) /\ Len(cells) = Len(old.cells)
        <4> HIDE DEF old, s, k
        <4>1. Cell(1, 0, bg) \in Cells
          BY DEF Cell, Cells
        <4>2. DOMAIN old.cells = 1..Len(old.cells) /\ \A c \in DOMAIN old.cells : old.cells[c] \in Cells
          BY <3>2
        <4>3. cells = [c \in 1..Len(old.cells) |->
                         IF c - 1 \in start..last - 1 THEN Cell(1, 0, bg) ELSE old.cells[c]]
          BY <4>2 DEF cells, old, s, k
        <4>4. cells \in [1..Len(old.cells) -> Cells]
          BY <4>1, <4>2, <4>3
        <4> QED
          BY <3>2, <4>4, FunctionIsSeq
      <3>4. row \in RowSet /\ row.id = old.id /\ Len(row.cells) = Len(old.cells)
        <4> HIDE DEF old
        <4>1. (old.wrapped /\ open) \in BOOLEAN
          BY <3>2 DEF open
        <4> QED
          BY <3>1, <3>3, <4>1, RowChanged
      <3>5. set = WithRow(s, k, row, w)
        <4> DEFINE rows == [s.rows EXCEPT ![k] = row]
        <4>1. set = [[s EXCEPT !.rows[k].cells = cells] EXCEPT !.rows[k].wrapped = @ /\ open]
          BY DEF set
        <4>2. set = [s EXCEPT !.rows = [s.rows EXCEPT ![k] =
                        [[old EXCEPT !.cells = cells] EXCEPT !.wrapped = @ /\ open]]]
          BY <1>1, <1>2, <3>1, <4>1 DEF ScreenSet
        <4>3. [[old EXCEPT !.cells = cells] EXCEPT !.wrapped = @ /\ open] = row
          <5> HIDE DEF old
          <5> QED
            BY <1>2, <3>1, RowRecord DEF open
        <4> HIDE DEF row, old
        <4>4. set = [s EXCEPT !.rows = rows]
          BY <4>2, <4>3
        <4> HIDE DEF rows, s
        <4>5. set = [rows |-> rows, row |-> s.row, col |-> s.col,
                     visible |-> s.visible, wrap |-> s.wrap]
          BY <1>1, <4>4 DEF ScreenSet
        <4> QED
          BY <4>5 DEF WithRow, rows
      <3> HIDE DEF row
      <3>6. Replaces(t, set, r, row, w)
        BY <1>2, <3>1, <3>4, <3>5 DEF Replaces
      <3>7. Follows(t, Update(t, set), {r}) /\ Update(t, set).active = t.active
        BY <3>6, RowFollows
      <3>8. {r} \in SUBSET Nat
        OBVIOUS
      <3> QED
        BY <3>1, <3>7, <3>8, CarriesMarked DEF u
    <2> QED
      BY <2>2, <2>3
  <1> QED
    BY <1>4, <1>5

(* The states that come of t.                                              *)
Carried(t) == {u \in Terminals : Carries(t, u)}

LEMMA CarriedParts ==
    ASSUME NEW t, Good(t)
    PROVE  /\ t \in Carried(t)
           /\ \A m \in Carried(t) : Good(m)
           /\ \A m \in Carried(t) : \A u : Carries(m, u) => u \in Carried(t)
  <1>1. t \in Carried(t)
    BY CarriesSelf DEF Carried, Good
  <1>2. \A m \in Carried(t) : Good(m)
    BY CarriesParts DEF Carried
  <1>3. ASSUME NEW m \in Carried(t), NEW u, Carries(m, u)
        PROVE  u \in Carried(t)
    <2>1. Carries(t, u)
      BY <1>3, CarriesTwice DEF Carried
    <2>2. u \in Terminals
      BY <2>1, CarriesParts DEF Good
    <2> QED
      BY <2>1, <2>2 DEF Carried
  <1> QED
    BY <1>1, <1>2, <1>3

LEMMA ClearRowsCarries ==
    ASSUME NEW t, Good(t), NEW first \in Nat, NEW last \in Int, last + 1 \in Nat,
           NEW bg \in BOOLEAN
    PROVE  Carries(t, clear_rows(t, first, last, bg))
  <1> DEFINE n == Monus(last + 1, first)
             A == Carried(t)
             seq == [i \in 1..n |-> first + i - 1]
             Op(acc, r) == fill_erased_cells(acc, r, 0, Columns(t), bg)
             op == [p \in A \X Nat |-> Op(p[1], p[2])]
             F(g) == [s \in SUBSET (DOMAIN seq) |->
                        IF s = {} THEN t ELSE Op(g[s \ {Max(s)}], seq[Max(s)])]
             it == CHOOSE g : g = F(g)
             all == it[DOMAIN seq]
  <1>1. clear_rows(t, first, last, bg) = all
    BY DEF clear_rows, FoldLeft, MapThenFoldSet
  <1>2. n \in Nat
    BY MonusOf
  <1> HIDE DEF n
  <1>3. seq \in Seq(Nat) /\ Len(seq) = n
    <2>1. \A i \in 1..n : first + i - 1 \in Nat
      BY <1>2
    <2>2. seq \in [1..n -> Nat]
      BY <2>1
    <2> QED
      BY <1>2, <2>2, FunctionIsSeq
  <1>4. t \in A /\ \A acc \in A, r \in Nat : Op(acc, r) \in A
    <2>1. t \in A
      BY CarriedParts
    <2>2. ASSUME NEW acc \in A, NEW r \in Nat PROVE Op(acc, r) \in A
      <3>1. Good(acc) /\ Columns(t) \in Nat /\ 0 \in Nat
        BY CarriedParts, GoodParts
      <3>2. Carries(acc, Op(acc, r))
        BY <3>1, FillCarries
      <3> HIDE DEF Op
      <3> QED
        BY <3>2, CarriedParts
    <2> QED
      BY <2>1, <2>2
  <1>5. op \in [A \X Nat -> A] /\ \A a \in A, e \in Nat : op[<<a, e>>] = Op(a, e)
    BY <1>4
  <1> HIDE DEF op, A
  <1>6. Foldable(A, Nat, op, t, seq)
    BY <1>3, <1>4, <1>5 DEF Foldable
  <1>7. PICK g : IterationOnA(g, A, Nat, op, t, seq)
    BY <1>6, IterationOnAExists
  <1> HIDE DEF Op, seq
  <1>8. g = F(g)
    BY <1>5, <1>7 DEF IterationOnA
  <1>9. it = F(it)
    BY <1>8
  <1> HIDE DEF it
  <1>10. Folds(it, A, Nat, op, t, seq)
    BY <1>5, <1>6, <1>7, <1>9 DEF Folds, IterationOnA
  <1>11. PICK f : Chain(f, A, op, t, seq, all)
    BY <1>10, ChainOfFold
  <1>12. all \in A
    BY <1>2, <1>3, <1>11 DEF Chain
  <1> HIDE DEF all
  <1> QED
    BY <1>1, <1>12 DEF A, Carried

(* Scrolling up n times.                                                   *)
Scrolled(t, n) == LET scroll(acc, i) == scroll_active_screen_up(acc)
                  IN  FoldLeft(scroll, t, [i \in 1..n |-> i])

LEMMA ScrolledCarries ==
    ASSUME NEW t, Good(t), NEW n \in Nat
    PROVE  Carries(t, Scrolled(t, n))
  <1> DEFINE A == Carried(t)
             seq == [i \in 1..n |-> i]
             Op(acc, i) == scroll_active_screen_up(acc)
             op == [p \in A \X Nat |-> Op(p[1], p[2])]
             F(g) == [s \in SUBSET (DOMAIN seq) |->
                        IF s = {} THEN t ELSE Op(g[s \ {Max(s)}], seq[Max(s)])]
             it == CHOOSE g : g = F(g)
             all == it[DOMAIN seq]
  <1>1. Scrolled(t, n) = all
    BY DEF Scrolled, FoldLeft, MapThenFoldSet
  <1>2. seq \in Seq(Nat) /\ Len(seq) = n
    <2>1. seq \in [1..n -> Nat]
      OBVIOUS
    <2> QED
      BY <2>1, FunctionIsSeq
  <1>3. t \in A /\ \A acc \in A, i \in Nat : Op(acc, i) \in A
    <2>1. t \in A
      BY CarriedParts
    <2>2. ASSUME NEW acc \in A, NEW i \in Nat PROVE Op(acc, i) \in A
      <3>1. Good(acc)
        BY CarriedParts
      <3>2. Carries(acc, Op(acc, i))
        BY <3>1, ScrollFollows DEF Carries
      <3> HIDE DEF Op
      <3> QED
        BY <3>2, CarriedParts
    <2> QED
      BY <2>1, <2>2
  <1>4. op \in [A \X Nat -> A] /\ \A a \in A, e \in Nat : op[<<a, e>>] = Op(a, e)
    BY <1>3
  <1> HIDE DEF op, A
  <1>5. Foldable(A, Nat, op, t, seq)
    BY <1>2, <1>3, <1>4 DEF Foldable
  <1>6. PICK g : IterationOnA(g, A, Nat, op, t, seq)
    BY <1>5, IterationOnAExists
  <1> HIDE DEF Op, seq
  <1>7. g = F(g)
    BY <1>4, <1>6 DEF IterationOnA
  <1>8. it = F(it)
    BY <1>7
  <1> HIDE DEF it
  <1>9. Folds(it, A, Nat, op, t, seq)
    BY <1>4, <1>5, <1>6, <1>8 DEF Folds, IterationOnA
  <1>10. PICK f : Chain(f, A, op, t, seq, all)
    BY <1>9, ChainOfFold
  <1>11. all \in A
    BY <1>2, <1>10 DEF Chain
  <1> HIDE DEF all
  <1> QED
    BY <1>1, <1>11 DEF A, Carried

LEMMA EraseAllCarries ==
    ASSUME NEW t, Good(t)
    PROVE  Carries(t, erase_display_all(t))
  <1> DEFINE rows == t.primary.rows
             written == {i \in DOMAIN rows : ~is_empty(rows[i])}
             occupied == IF written = {} THEN 1
                         ELSE CHOOSE i \in written : \A j \in written : j <= i
             scrolled == IF t.active = "primary" THEN Scrolled(t, occupied) ELSE t
             last == Rows(t) - 1
             shade == t.shade
  <1>1. rows \in Seq(RowSet) /\ t.shade \in BOOLEAN /\ Rows(t) \in Nat \ {0}
    BY CursorOnScreen, TerminalParts, ScreenParts DEF Good
  <1>2. occupied \in Nat
    <2> DEFINE n == Len(rows)
    <2>1. n \in Nat /\ DOMAIN rows = 1..n
      BY <1>1
    <2>2. written \in SUBSET (1..n)
      BY <2>1
    <2> HIDE DEF written, n
    <2>3. CASE written = {}
      BY <2>3
    <2>4. CASE written # {}
      <3>1. Max(written) \in written /\ \A j \in written : Max(written) >= j
        BY <2>1, <2>2, <2>4, MaxIn
      <3>2. \A j \in written : j \in Nat
        BY <2>1, <2>2
      <3>3. Max(written) \in written /\ \A j \in written : j <= Max(written)
        BY <3>1, <3>2
      <3>4. \E i \in written : \A j \in written : j <= i
        BY <3>3
      <3>5. occupied = CHOOSE i \in written : \A j \in written : j <= i
        BY <2>4
      <3>6. occupied \in written
        BY <3>4, <3>5
      <3> HIDE DEF occupied
      <3> QED
        BY <3>2, <3>6
    <2> QED
      BY <2>3, <2>4
  <1>3. erase_display_all(t) = clear_rows(scrolled, 0, last, shade)
    BY DEF erase_display_all, Scrolled
  <1> HIDE DEF occupied, scrolled
  <1>4. Carries(t, scrolled)
    BY <1>2, ScrolledCarries, CarriesSelf DEF scrolled
  <1>5. Good(scrolled)
    BY <1>4, CarriesParts
  <1>6. last \in Int /\ last + 1 \in Nat /\ 0 \in Nat
    BY <1>1
  <1> HIDE DEF last
  <1>7. Carries(scrolled, clear_rows(scrolled, 0, last, shade))
    BY <1>1, <1>5, <1>6, ClearRowsCarries
  <1> QED
    BY <1>3, <1>4, <1>7, CarriesTwice

LEMMA UnwrappedCarries ==
    ASSUME NEW t, NEW u, Good(t), Carries(t, u)
    PROVE  Carries(t, unwrapped(u))
  <1>1. Good(u)
    BY CarriesParts
  <1>2. Carries(u, unwrapped(u))
    BY <1>1, UnwrappedCursor DEF Cursor, Carries
  <1> QED
    BY <1>2, CarriesTwice

LEMMA ClearCellsCarries ==
    ASSUME NEW t, Good(t), NEW r \in Nat, NEW start \in Nat, NEW end \in Nat
    PROVE  Carries(t, clear_cells_with_current_background(t, r, start, end))
  <1>1. t.shade \in BOOLEAN
    BY TerminalParts DEF Good
  <1> QED
    BY <1>1, FillCarries DEF clear_cells_with_current_background

LEMMA EraseInDisplayCarries ==
    ASSUME NEW t, Good(t), NEW mode \in Nat
    PROVE  Carries(t, erase_in_display(t, mode))
  <1> DEFINE s == Active(t)
             right == clear_cells_with_current_background(t, s.row, s.col, Columns(t))
             f == FALSE
             below == clear_rows(right, s.row + 1, Rows(t) - 1, f)
             above == clear_rows(t, 0, s.row - 1, f)
             left == clear_cells_with_current_background(above, s.row, 0, s.col + 1)
             all == erase_display_all(t)
             u == erase_in_display(t, mode)
  <1>1. s.row \in Nat /\ s.col \in Nat /\ Rows(t) \in Nat \ {0} /\ Columns(t) \in Nat \ {0}
    BY CursorOnScreen
  <1>2. f \in BOOLEAN
    OBVIOUS
  <1>3. /\ mode = 0 => u = unwrapped(below)
        /\ mode = 1 => u = unwrapped(left)
        /\ mode = 2 => u = unwrapped(all)
        /\ mode # 0 /\ mode # 1 /\ mode # 2 => u = t
    <2>1. ASSUME mode = 0 PROVE u = unwrapped(below)
      BY <2>1 DEF erase_in_display
    <2>2. ASSUME mode = 1 PROVE u = unwrapped(left)
      BY <2>2 DEF erase_in_display
    <2>3. ASSUME mode = 2 PROVE u = unwrapped(all)
      BY <2>3 DEF erase_in_display
    <2>4. ASSUME mode # 0, mode # 1, mode # 2 PROVE u = t
      BY <2>4 DEF erase_in_display
    <2> HIDE DEF u, below, left, all
    <2> QED
      BY <2>1, <2>2, <2>3, <2>4
  <1> HIDE DEF u, f, right, below, above, left, all, s
  <1>4. Carries(t, unwrapped(below))
    <2>1. Carries(t, right)
      BY <1>1, ClearCellsCarries DEF right
    <2>2. Good(right) /\ Rows(right) = Rows(t)
      BY <2>1, CarriesParts
    <2> DEFINE last == Rows(t) - 1
    <2>3. last \in Int /\ last + 1 \in Nat /\ s.row + 1 \in Nat
      BY <1>1
    <2>4. below = clear_rows(right, s.row + 1, last, f)
      BY DEF below
    <2> HIDE DEF last
    <2>5. Carries(right, below)
      BY <1>2, <2>2, <2>3, <2>4, ClearRowsCarries
    <2> QED
      BY <2>1, <2>5, CarriesTwice, UnwrappedCarries
  <1>5. Carries(t, unwrapped(left))
    <2> DEFINE last == s.row - 1
    <2>1. last \in Int /\ last + 1 \in Nat /\ 0 \in Nat /\ s.col + 1 \in Nat
      BY <1>1
    <2>2. above = clear_rows(t, 0, last, f)
      BY DEF above
    <2> HIDE DEF last
    <2>3. Carries(t, above)
      BY <1>2, <2>1, <2>2, ClearRowsCarries
    <2>4. Good(above)
      BY <2>3, CarriesParts
    <2>5. Carries(above, left)
      BY <1>1, <2>1, <2>4, ClearCellsCarries DEF left
    <2> QED
      BY <2>3, <2>5, CarriesTwice, UnwrappedCarries
  <1>6. Carries(t, unwrapped(all))
    BY EraseAllCarries, UnwrappedCarries DEF all
  <1>7. Carries(t, u)
    BY <1>3, <1>4, <1>5, <1>6, CarriesSelf
  <1> QED
    BY <1>7 DEF u

LEMMA EraseInLineCarries ==
    ASSUME NEW t, Good(t), NEW mode \in Nat
    PROVE  Carries(t, erase_in_line(t, mode))
  <1> DEFINE s == Active(t)
             row(start, end) == clear_cells_with_current_background(t, s.row, start, end)
             right == row(s.col, Columns(t))
             left == row(0, s.col + 1)
             all == row(0, Columns(t))
             u == erase_in_line(t, mode)
  <1>1. s.row \in Nat /\ s.col \in Nat /\ Columns(t) \in Nat /\ s.col + 1 \in Nat
    BY CursorOnScreen
  <1>2. /\ mode = 0 /\ s.wrap => u = t
        /\ mode = 0 /\ ~s.wrap => u = unwrapped(right)
        /\ mode = 1 => u = unwrapped(left)
        /\ mode = 2 => u = unwrapped(all)
        /\ mode # 0 /\ mode # 1 /\ mode # 2 => u = t
    BY DEF erase_in_line
  <1>3. Carries(t, right) /\ Carries(t, left) /\ Carries(t, all)
    BY <1>1, ClearCellsCarries
  <1> HIDE DEF u, right, left, all
  <1>4. Carries(t, u)
    BY <1>2, <1>3, CarriesSelf, UnwrappedCarries
  <1> QED
    BY <1>4 DEF u

LEMMA ErasureCarries ==
    ASSUME NEW t, Good(t), NEW e \in Erasures
    PROVE  Carries(t, apply_erasure(t, e))
  <1> DEFINE s == Active(t)
             end == s.col + Param(e.n)
  <1>1. e.final \in {"J", "K", "X"} /\ e.n \in Nat
    BY TerminalAssumption DEF EraseFinals
  <1>2. s.row \in Nat /\ s.col \in Nat /\ end \in Nat
    BY <1>1, CursorOnScreen DEF Param, Greatest
  <1> HIDE DEF s, end
  <1>3. CASE e.final = "J"
    BY <1>1, <1>3, EraseInDisplayCarries DEF apply_erasure
  <1>4. CASE e.final = "K"
    BY <1>1, <1>4, EraseInLineCarries DEF apply_erasure
  <1>5. CASE e.final = "X"
    <2>1. apply_erasure(t, e)
            = unwrapped(clear_cells_with_current_background(t, s.row, s.col, end))
      BY <1>5 DEF apply_erasure, erase_characters, s, end
    <2>2. Carries(t, clear_cells_with_current_background(t, s.row, s.col, end))
      BY <1>2, ClearCellsCarries
    <2> QED
      BY <2>1, <2>2, UnwrappedCarries
  <1> QED
    BY <1>1, <1>3, <1>4, <1>5

-----------------------------------------------------------------------------
(* Rows that are joined or cut out.                                        *)

(* sub is the m rows after the first p.                                    *)
CutOf(sub, rows, p, m) ==
    /\ sub \in Seq(RowSet) /\ Len(sub) = m /\ DOMAIN sub = 1..m
    /\ \A i \in 1..m : p + i \in DOMAIN rows /\ sub[i] = rows[p + i]

LEMMA CutRows ==
    ASSUME NEW rows \in Seq(RowSet), NEW p \in Nat, NEW m \in Nat, p + m <= Len(rows),
           NEW sub, sub = SubSeq(rows, p + 1, p + m)
    PROVE  CutOf(sub, rows, p, m)
  <1>1. Len(rows) \in Nat /\ DOMAIN rows = 1..Len(rows)
    OBVIOUS
  <1>2. \A i \in 1..m : p + i \in 1..Len(rows)
    BY <1>1
  <1>3. sub \in Seq(RowSet)
    <2>1. m = 0 => sub = <<>>
      OBVIOUS
    <2>2. m # 0 => p + 1 \in 1..Len(rows) /\ p + m \in 1..Len(rows)
      BY <1>1
    <2> QED
      BY <2>1, <2>2
  <1>4. Len(sub) = m /\ DOMAIN sub = 1..m
    OBVIOUS
  <1>5. \A i \in 1..m : sub[i] = rows[p + i]
    OBVIOUS
  <1> QED
    BY <1>1, <1>2, <1>3, <1>4, <1>5 DEF CutOf

LEMMA CutInj ==
    ASSUME NEW rows \in Seq(RowSet), NEW p \in Nat, NEW m \in Nat, NEW sub,
           CutOf(sub, rows, p, m), Inj(rows)
    PROVE  Inj(sub)
  <1>1. /\ DOMAIN sub = 1..m
        /\ \A i \in 1..m : p + i \in DOMAIN rows /\ sub[i] = rows[p + i]
    BY DEF CutOf
  <1>2. ASSUME NEW i \in 1..m, NEW j \in 1..m, sub[i].id = sub[j].id PROVE i = j
    <2> DEFINE a == p + i
               b == p + j
    <2>1. a \in DOMAIN rows /\ b \in DOMAIN rows /\ sub[i] = rows[a] /\ sub[j] = rows[b]
      BY <1>1
    <2>2. (a = b) => (i = j)
      OBVIOUS
    <2> HIDE DEF a, b
    <2>3. rows[a].id = rows[b].id
      BY <1>2, <2>1
    <2> QED
      BY <2>1, <2>2, <2>3 DEF Inj
  <1> QED
    BY <1>1, <1>2 DEF Inj

(* Every row of a is one of b.                                             *)
Among(a, b) == \A i \in DOMAIN a : \E j \in DOMAIN b : a[i] = b[j]

LEMMA AmongApart ==
    ASSUME NEW a, NEW b, NEW c, Among(a, b)
    PROVE  /\ Apart(b, c) => Apart(a, c)
           /\ Apart(c, b) => Apart(c, a)
           /\ \A id : Below(b, id) => Below(a, id)
  <1>1. Apart(b, c) => Apart(a, c)
    BY DEF Among, Apart
  <1>2. Apart(c, b) => Apart(c, a)
    BY DEF Among, Apart
  <1>3. \A id : Below(b, id) => Below(a, id)
    BY DEF Among, Below
  <1> QED
    BY <1>1, <1>2, <1>3

LEMMA CutAmong ==
    ASSUME NEW rows \in Seq(RowSet), NEW p \in Nat, NEW m \in Nat, NEW sub,
           CutOf(sub, rows, p, m)
    PROVE  Among(sub, rows)
  BY DEF CutOf, Among

LEMMA ConcatInj ==
    ASSUME NEW a \in Seq(RowSet), NEW b \in Seq(RowSet), Inj(a), Inj(b), Apart(a, b)
    PROVE  Inj(a \o b)
  <1> DEFINE c == a \o b
             n == Len(a)
  <1>1. Joins(c, a, b, RowSet)
    BY ConcatParts
  <1> HIDE DEF c
  <1>2. /\ n \in Nat /\ DOMAIN a = 1..n /\ DOMAIN b = 1..Len(b) /\ Len(b) \in Nat
    OBVIOUS
  <1>3. \A i \in DOMAIN c : \/ i \in DOMAIN a /\ c[i] = a[i]
                            \/ \E j \in DOMAIN b : i = n + j /\ c[i] = b[j]
    BY <1>1, <1>2 DEF Joins
  <1>4. ASSUME NEW i \in DOMAIN c, NEW j \in DOMAIN c, c[i].id = c[j].id PROVE i = j
    <2>1. CASE i \in DOMAIN a /\ c[i] = a[i] /\ j \in DOMAIN a /\ c[j] = a[j]
      BY <1>4, <2>1 DEF Inj
    <2>2. CASE /\ \E p \in DOMAIN b : i = n + p /\ c[i] = b[p]
               /\ \E q \in DOMAIN b : j = n + q /\ c[j] = b[q]
      <3>1. PICK p \in DOMAIN b, q \in DOMAIN b :
               i = n + p /\ c[i] = b[p] /\ j = n + q /\ c[j] = b[q]
        BY <2>2
      <3>2. p = q
        BY <1>4, <3>1 DEF Inj
      <3> QED
        BY <3>1, <3>2
    <2>3. CASE i \in DOMAIN a /\ c[i] = a[i] /\ \E q \in DOMAIN b : j = n + q /\ c[j] = b[q]
      BY <1>4, <2>3 DEF Apart
    <2>4. CASE j \in DOMAIN a /\ c[j] = a[j] /\ \E p \in DOMAIN b : i = n + p /\ c[i] = b[p]
      BY <1>4, <2>4 DEF Apart
    <2> QED
      BY <1>3, <2>1, <2>2, <2>3, <2>4
  <1>5. Inj(c)
    BY <1>4 DEF Inj
  <1> QED
    BY <1>5 DEF c

(* Every row of the whole is a row of one of the parts.                    *)
LEMMA ConcatAmong ==
    ASSUME NEW a \in Seq(RowSet), NEW b \in Seq(RowSet)
    PROVE  /\ a \o b \in Seq(RowSet) /\ Len(a \o b) = Len(a) + Len(b)
           /\ \A i \in DOMAIN (a \o b) :
                \/ \E j \in DOMAIN a : (a \o b)[i] = a[j]
                \/ \E j \in DOMAIN b : (a \o b)[i] = b[j]
  <1> DEFINE c == a \o b
  <1>0. c \in Seq(RowSet) /\ Len(c) = Len(a) + Len(b)
    OBVIOUS
  <1>1. Joins(c, a, b, RowSet)
    BY ConcatParts
  <1> HIDE DEF c
  <1>2. DOMAIN a = 1..Len(a) /\ DOMAIN b = 1..Len(b)
    OBVIOUS
  <1>3. \A i \in DOMAIN c : \/ \E j \in DOMAIN a : c[i] = a[j]
                            \/ \E j \in DOMAIN b : c[i] = b[j]
    BY <1>1, <1>2 DEF Joins
  <1> QED
    BY <1>0, <1>3 DEF c

LEMMA ConcatApart ==
    ASSUME NEW a \in Seq(RowSet), NEW b \in Seq(RowSet), NEW c
    PROVE  /\ Apart(a, c) /\ Apart(b, c) => Apart(a \o b, c)
           /\ Apart(c, a) /\ Apart(c, b) => Apart(c, a \o b)
           /\ \A id : Below(a, id) /\ Below(b, id) => Below(a \o b, id)
  <1> DEFINE d == a \o b
  <1>1. \A i \in DOMAIN d : \/ \E j \in DOMAIN a : d[i] = a[j]
                            \/ \E j \in DOMAIN b : d[i] = b[j]
    BY ConcatAmong
  <1> HIDE DEF d
  <1>2. Apart(a, c) /\ Apart(b, c) => Apart(d, c)
    BY <1>1 DEF Apart
  <1>3. Apart(c, a) /\ Apart(c, b) => Apart(c, d)
    BY <1>1 DEF Apart
  <1>4. \A id : Below(a, id) /\ Below(b, id) => Below(d, id)
    BY <1>1 DEF Below
  <1> QED
    BY <1>2, <1>3, <1>4 DEF d

(* n blank rows with the ids from id on, among rows below id.              *)
LEMMA BlankRowsParts ==
    ASSUME NEW n \in Nat, NEW columns \in Nat, NEW id \in Nat \ {0}
    PROVE  LET new == BlankRows(n, columns, id) IN
           /\ new \in Seq(RowSet) /\ Len(new) = n /\ Sized(new, columns) /\ Inj(new)
           /\ Below(new, id + n) /\ \A i \in DOMAIN new : id <= new[i].id
  <1> DEFINE new == BlankRows(n, columns, id)
  <1>1. /\ new \in Seq(RowSet) /\ Len(new) = n /\ Sized(new, columns)
        /\ \A i \in 1..n : new[i].id = id + i - 1
    BY BlankRowsType
  <1> HIDE DEF new
  <1>2. DOMAIN new = 1..n
    BY <1>1
  <1>3. Inj(new)
    BY <1>1, <1>2 DEF Inj
  <1>4. Below(new, id + n)
    BY <1>1, <1>2 DEF Below
  <1>5. \A i \in DOMAIN new : id <= new[i].id
    BY <1>1, <1>2
  <1> QED
    BY <1>1, <1>3, <1>4, <1>5 DEF new

-----------------------------------------------------------------------------
(* What a resize does to the rows.                                         *)

(* The rows a resize works on: those of t as they are, or new ones.        *)
Kept(rows, t) ==
    \A i \in DOMAIN rows :
      \/ \E j \in DOMAIN t.scrollback.rows : rows[i] = t.scrollback.rows[j]
      \/ \E j \in DOMAIN t.primary.rows : rows[i] = t.primary.rows[j]
      \/ t.nextId <= rows[i].id

(* m comes of t by moving rows between the scrollback and the screen.      *)
Moved(t, m) ==
    /\ m \in Terminals /\ m.alternate = t.alternate /\ t.nextId <= m.nextId
    /\ m.active = t.active /\ m.panicked = t.panicked
    /\ m.primary.wrap = t.primary.wrap
    /\ Inj(m.scrollback.rows) /\ Inj(m.primary.rows)
    /\ Apart(m.scrollback.rows, m.primary.rows)
    /\ Below(m.scrollback.rows, m.nextId) /\ Below(m.primary.rows, m.nextId)
    /\ Kept(m.scrollback.rows, t) /\ Kept(m.primary.rows, t)

(* What a resize leaves of a row: its id with the next generation.         *)
Renewed(rows, t) ==
    \A i \in DOMAIN rows :
      \/ t.nextId <= rows[i].id
      \/ \E j \in DOMAIN t.scrollback.rows :
           /\ rows[i].id = t.scrollback.rows[j].id
           /\ rows[i].gen = t.scrollback.rows[j].gen + 1
      \/ \E j \in DOMAIN t.primary.rows :
           /\ rows[i].id = t.primary.rows[j].id
           /\ rows[i].gen = t.primary.rows[j].gen + 1

(* StableHistory, of two states.                                           *)
Settled(t, u) ==
    \A i \in DOMAIN t.scrollback.rows, j \in DOMAIN u.scrollback.rows :
      /\ t.scrollback.rows[i].id = u.scrollback.rows[j].id
      /\ t.scrollback.rows[i].gen = u.scrollback.rows[j].gen
      => t.scrollback.rows[i] = u.scrollback.rows[j]

(* The rows of a good state.                                               *)
LEMMA GoodRows ==
    ASSUME NEW t, Good(t)
    PROVE  /\ t.scrollback.rows \in Seq(RowSet) /\ t.primary.rows \in Seq(RowSet)
           /\ t.alternate.rows \in Seq(RowSet) /\ t.nextId \in Nat \ {0} /\ Distinct(t)
           /\ t.scrollback \in Scrollbacks /\ Bounded(t.scrollback)
           /\ t.primary \in ScreenSet /\ t.alternate \in ScreenSet
           /\ ScreenFits(t.primary, t.dims)
  <1>1. /\ t.primary \in ScreenSet /\ t.alternate \in ScreenSet /\ t.nextId \in Nat \ {0}
        /\ t.scrollback \in Scrollbacks
    BY TerminalParts DEF Good
  <1> QED
    BY <1>1, ScreenParts DEF Good, Scrollbacks

(* Steps short of a resize keep what the handles of the history denote.    *)
LEMMA RemembersSettled ==
    ASSUME NEW t, Good(t), NEW u, Remembers(t, u)
    PROVE  Settled(t, u)
  <1>1. /\ t.scrollback.rows \in Seq(RowSet) /\ t.primary.rows \in Seq(RowSet)
        /\ t.nextId \in Nat \ {0} /\ Distinct(t)
    BY GoodRows
  <1>2. ASSUME NEW i \in DOMAIN t.scrollback.rows, NEW j \in DOMAIN u.scrollback.rows,
               t.scrollback.rows[i].id = u.scrollback.rows[j].id
        PROVE  t.scrollback.rows[i] = u.scrollback.rows[j]
    <2>1. t.scrollback.rows[i].id \in Nat /\ t.scrollback.rows[i].id < t.nextId
      BY <1>1, RowParts, ElementOfSeq DEF Distinct, Below
    <2>2. ~Known(u.scrollback.rows[j], t)
      BY <1>1, <1>2, <2>1 DEF Known, Distinct, Apart
    <2>3. PICK k \in DOMAIN t.scrollback.rows : u.scrollback.rows[j] = t.scrollback.rows[k]
      BY <2>2 DEF Remembers
    <2>4. k = i
      BY <1>1, <1>2, <2>3 DEF Distinct, Inj
    <2> QED
      BY <2>3, <2>4
  <1> QED
    BY <1>2 DEF Settled

(* A generation on, a handle no longer denotes a row of before.            *)
LEMMA RenewedSettled ==
    ASSUME NEW t, Good(t), NEW u, Renewed(u.scrollback.rows, t)
    PROVE  Settled(t, u)
  <1>1. /\ t.scrollback.rows \in Seq(RowSet) /\ t.primary.rows \in Seq(RowSet)
        /\ t.nextId \in Nat \ {0} /\ Distinct(t)
    BY GoodRows
  <1>2. ASSUME NEW i \in DOMAIN t.scrollback.rows, NEW j \in DOMAIN u.scrollback.rows,
               t.scrollback.rows[i].id = u.scrollback.rows[j].id,
               t.scrollback.rows[i].gen = u.scrollback.rows[j].gen
        PROVE  FALSE
    <2>1. /\ t.scrollback.rows[i].id \in Nat /\ t.scrollback.rows[i].id < t.nextId
          /\ t.scrollback.rows[i].gen \in Nat
      BY <1>1, RowParts, ElementOfSeq DEF Distinct, Below
    <2>2. PICK k \in DOMAIN t.scrollback.rows :
             /\ u.scrollback.rows[j].id = t.scrollback.rows[k].id
             /\ u.scrollback.rows[j].gen = t.scrollback.rows[k].gen + 1
      BY <1>1, <1>2, <2>1 DEF Renewed, Distinct, Apart
    <2>3. k = i
      BY <1>1, <1>2, <2>2 DEF Distinct, Inj
    <2> QED
      BY <1>2, <2>1, <2>2, <2>3
  <1> QED
    BY <1>2 DEF Settled

(* Kept rows are apart from the alternate screen.                          *)
LEMMA KeptApart ==
    ASSUME NEW t, Good(t), NEW rows \in Seq(RowSet), Kept(rows, t)
    PROVE  Apart(rows, t.alternate.rows)
  <1>1. t.alternate.rows \in Seq(RowSet) /\ t.nextId \in Nat \ {0} /\ Distinct(t)
    BY GoodRows
  <1>2. ASSUME NEW i \in DOMAIN rows, NEW k \in DOMAIN t.alternate.rows
        PROVE  rows[i].id # t.alternate.rows[k].id
    <2>1. t.alternate.rows[k].id \in Nat /\ t.alternate.rows[k].id < t.nextId
      BY <1>1, RowParts, ElementOfSeq DEF Distinct, Below
    <2>2. CASE t.nextId <= rows[i].id
      BY <1>1, <2>1, <2>2
    <2>3. CASE ~(t.nextId <= rows[i].id)
      BY <1>1, <2>3 DEF Kept, Distinct, Apart
    <2> QED
      BY <2>2, <2>3
  <1> QED
    BY <1>2 DEF Apart

LEMMA KeptAmong ==
    ASSUME NEW t, NEW a, NEW b, Among(a, b), Kept(b, t)
    PROVE  Kept(a, t)
  BY DEF Among, Kept

(* The rows pushed onto the scrollback one after the other.                *)
Pushed(sb, rows) == LET pushing(acc, row) == push(acc, row)
                    IN  FoldLeft(pushing, sb, rows)

(* A scrollback after the first k of the rows have been pushed.            *)
PushedTo(new, sb, rows, k) ==
    /\ new \in Scrollbacks /\ Bounded(new) /\ Inj(new.rows)
    /\ \A i \in DOMAIN new.rows :
         \/ \E j \in DOMAIN sb.rows : new.rows[i] = sb.rows[j]
         \/ \E j \in 1..k : new.rows[i] = rows[j]

LEMMA PushOne ==
    ASSUME NEW sb, NEW rows \in Seq(RowSet), Inj(rows), Apart(sb.rows, rows),
           NEW k \in 1..Len(rows), NEW new, PushedTo(new, sb, rows, k - 1)
    PROVE  PushedTo(push(new, rows[k]), sb, rows, k)
  <1> DEFINE next == push(new, rows[k])
  <1>1. /\ new \in Scrollbacks /\ Bounded(new) /\ Inj(new.rows)
        /\ \A i \in DOMAIN new.rows :
             \/ \E j \in DOMAIN sb.rows : new.rows[i] = sb.rows[j]
             \/ \E j \in 1..(k - 1) : new.rows[i] = rows[j]
    BY DEF PushedTo
  <1>2. DOMAIN rows = 1..Len(rows) /\ rows[k] \in RowSet /\ k \in DOMAIN rows
    OBVIOUS
  <1>3. \A j \in 1..(k - 1) : j \in DOMAIN rows /\ j # k /\ j \in 1..k
    BY <1>2
  <1>4. \A i \in DOMAIN new.rows : new.rows[i].id # rows[k].id
    BY <1>1, <1>2, <1>3 DEF Apart, Inj
  <1>5. /\ next \in Scrollbacks /\ Bounded(next) /\ Inj(next.rows)
        /\ \A i \in DOMAIN next.rows :
             next.rows[i] = rows[k] \/ \E j \in DOMAIN new.rows : next.rows[i] = new.rows[j]
    BY <1>1, <1>2, <1>4, PushDistinct
  <1> HIDE DEF next
  <1>6. k \in 1..k
    OBVIOUS
  <1>7. \A i \in DOMAIN next.rows :
          \/ \E j \in DOMAIN sb.rows : next.rows[i] = sb.rows[j]
          \/ \E j \in 1..k : next.rows[i] = rows[j]
    BY <1>1, <1>3, <1>5, <1>6
  <1>8. PushedTo(next, sb, rows, k)
    BY <1>5, <1>7 DEF PushedTo
  <1> QED
    BY <1>8 DEF next

LEMMA PushedType ==
    ASSUME NEW sb \in Scrollbacks, Bounded(sb), NEW rows \in Seq(RowSet),
           Inj(sb.rows), Inj(rows), Apart(sb.rows, rows)
    PROVE  PushedTo(Pushed(sb, rows), sb, rows, Len(rows))
  <1> DEFINE n == Len(rows)
             A == {x \in Scrollbacks : Bounded(x)}
             Op(acc, row) == push(acc, row)
             op == [p \in A \X RowSet |-> Op(p[1], p[2])]
             F(g) == [s \in SUBSET (DOMAIN rows) |->
                        IF s = {} THEN sb ELSE Op(g[s \ {Max(s)}], rows[Max(s)])]
             it == CHOOSE g : g = F(g)
             all == it[DOMAIN rows]
  <1>1. Pushed(sb, rows) = all
    BY DEF Pushed, FoldLeft, MapThenFoldSet
  <1>2. n \in Nat /\ DOMAIN rows = 1..n /\ \A i \in 1..n : rows[i] \in RowSet
    OBVIOUS
  <1>3. sb \in A /\ \A acc \in A, row \in RowSet : Op(acc, row) \in A
    BY PushKeepsSuffix
  <1>4. op \in [A \X RowSet -> A] /\ \A a \in A, e \in RowSet : op[<<a, e>>] = Op(a, e)
    BY <1>3
  <1> HIDE DEF op
  <1>5. Foldable(A, RowSet, op, sb, rows)
    BY <1>3, <1>4 DEF Foldable
  <1>6. PICK g : IterationOnA(g, A, RowSet, op, sb, rows)
    BY <1>5, IterationOnAExists
  <1> HIDE DEF Op, A
  <1>7. g = F(g)
    BY <1>4, <1>6 DEF IterationOnA
  <1>8. it = F(it)
    BY <1>7
  <1> HIDE DEF it
  <1>9. Folds(it, A, RowSet, op, sb, rows)
    BY <1>4, <1>5, <1>6, <1>8 DEF Folds, IterationOnA
  <1>10. PICK f : Chain(f, A, op, sb, rows, all)
    BY <1>9, ChainOfFold
  <1>11. /\ f \in [0..n -> A] /\ f[0] = sb /\ f[n] = all
         /\ \A k \in 1..n : f[k] = push(f[k - 1], rows[k])
    <2>1. f \in [0..n -> A] /\ f[0] = sb /\ f[n] = all
      BY <1>10 DEF Chain
    <2>2. ASSUME NEW k \in 1..n PROVE f[k] = push(f[k - 1], rows[k])
      <3>1. f[k] = op[<<f[k - 1], rows[k]>>]
        BY <1>10 DEF Chain
      <3>2. k - 1 \in 0..n
        BY <1>2
      <3>3. f[k - 1] \in A /\ rows[k] \in RowSet
        BY <1>2, <2>1, <3>2
      <3> QED
        BY <1>4, <3>1, <3>3 DEF Op
    <2> QED
      BY <2>1, <2>2
  <1> DEFINE U == {k \in 0..n : PushedTo(f[k], sb, rows, k)}
  <1>12. 0 \in U
    <2>1. PushedTo(sb, sb, rows, 0)
      BY DEF PushedTo
    <2> QED
      BY <1>2, <1>11, <2>1
  <1>13. ASSUME NEW k \in 1..n, k - 1 \in U PROVE k \in U
    <2>1. PushedTo(f[k - 1], sb, rows, k - 1)
      BY <1>13
    <2>2. PushedTo(f[k], sb, rows, k)
      BY <1>11, <2>1, PushOne
    <2>3. k \in 0..n
      BY <1>2
    <2> QED
      BY <2>2, <2>3
  <1>14. PushedTo(all, sb, rows, n)
    <2> HIDE DEF U, n, all
    <2>1. \A k \in 0..n : k \in U
      BY <1>2, <1>12, <1>13, UpTo
    <2>2. n \in U
      BY <1>2, <2>1
    <2> QED
      BY <1>11, <2>2 DEF U
  <1> QED
    BY <1>1, <1>14

(* The screen with other rows and another row of the cursor.               *)
WithRows(s, rows, r) ==
    [rows |-> rows, row |-> r, col |-> s.col, visible |-> s.visible, wrap |-> s.wrap]

LEMMA WithRowsParts ==
    ASSUME NEW s \in ScreenSet, NEW rows \in Seq(RowSet), NEW r \in Nat
    PROVE  LET new == WithRows(s, rows, r) IN
           new \in ScreenSet /\ new.rows = rows /\ new.wrap = s.wrap
  BY ScreenParts DEF WithRows, ScreenSet

(* A state with another scrollback, primary screen and next id.            *)
WithHistory(t, sb, s, id) == [t EXCEPT !.scrollback = sb, !.primary = s, !.nextId = id]

LEMMA WithHistoryParts ==
    ASSUME NEW t \in Terminals, NEW sb \in Scrollbacks, NEW s \in ScreenSet,
           NEW id \in Nat \ {0}, NEW u, u = WithHistory(t, sb, s, id)
    PROVE  /\ u \in Terminals /\ u.dims = t.dims /\ u.alternate = t.alternate
           /\ u.active = t.active /\ u.panicked = t.panicked /\ u.damage = t.damage
           /\ u.scrollback = sb /\ u.primary = s /\ u.nextId = id
  BY DEF WithHistory, Terminals

LEMMA KeptSelf ==
    ASSUME NEW t
    PROVE  Kept(t.scrollback.rows, t) /\ Kept(t.primary.rows, t)
  BY DEF Kept

LEMMA ShrinkMoved ==
    ASSUME NEW t, Good(t), NEW rows \in Nat \ {0}, rows < Len(t.primary.rows)
    PROVE  Moved(t, shrink_primary(t, rows))
  <1> DEFINE s == t.primary
             n == Monus(s.row + 1, rows)
             gone == SubSeq(s.rows, 1, n)
             left == SubSeq(s.rows, n + 1, n + rows)
             sb == Pushed(t.scrollback, gone)
             r == Least(Monus(s.row, n), rows - 1)
             new == WithRows(s, left, r)
             m == shrink_primary(t, rows)
  <1>1. /\ t \in Terminals /\ s \in ScreenSet /\ s.rows \in Seq(RowSet)
        /\ t.nextId \in Nat \ {0} /\ Distinct(t)
        /\ t.scrollback \in Scrollbacks /\ Bounded(t.scrollback)
        /\ s.row < Len(s.rows)
    BY GoodRows DEF ScreenFits, Good
  <1>2. s.row \in Nat /\ s.col \in Nat /\ Len(s.rows) \in Nat
    BY <1>1, ScreenParts
  <1>3. n \in Nat /\ n + rows <= Len(s.rows) /\ n <= Len(s.rows)
    BY <1>1, <1>2 DEF Monus, Greatest
  <1>4. r \in Nat
    BY <1>2, <1>3 DEF Monus, Greatest, Least
  <1>5. m = [t EXCEPT !.scrollback = sb, !.primary.rows = left, !.primary.row = r]
    BY <1>1 DEF shrink_primary, Pushed, Terminals
  <1>50. Inj(s.rows) /\ Inj(t.scrollback.rows) /\ Apart(t.scrollback.rows, s.rows)
         /\ Below(s.rows, t.nextId) /\ Below(t.scrollback.rows, t.nextId)
         /\ Kept(s.rows, t)
    BY <1>1, KeptSelf DEF Distinct
  <1> HIDE DEF n, r, sb, left, s
  <1>6. /\ left \in Seq(RowSet) /\ Inj(left) /\ Among(left, s.rows)
        /\ DOMAIN left = 1..rows
        /\ \A k \in 1..rows : n + k \in DOMAIN s.rows /\ left[k] = s.rows[n + k]
    <2>1. CutOf(left, s.rows, n, rows)
      BY <1>1, <1>3, CutRows DEF left
    <2> QED
      BY <1>1, <1>3, <1>50, <2>1, CutInj, CutAmong DEF CutOf
  <1>7. gone \in Seq(RowSet) /\ Inj(gone) /\ Among(gone, s.rows) /\ Len(gone) = n
        /\ \A i \in 1..n : gone[i] = s.rows[i]
    <2> DEFINE z == 0
    <2>1. z \in Nat /\ z + n <= Len(s.rows) /\ gone = SubSeq(s.rows, z + 1, z + n)
      BY <1>3
    <2>2. gone \in Seq(RowSet) /\ Inj(gone) /\ Among(gone, s.rows) /\ Len(gone) = n
          /\ \A i \in 1..n : gone[i] = s.rows[z + i]
      <3> HIDE DEF z, gone
      <3>1. CutOf(gone, s.rows, z, n)
        BY <1>1, <1>3, <2>1, CutRows
      <3>2. Inj(gone)
        BY <1>1, <1>3, <1>50, <2>1, <3>1, CutInj
      <3>3. Among(gone, s.rows)
        BY <1>1, <1>3, <2>1, <3>1, CutAmong
      <3> QED
        BY <1>3, <3>1, <3>2, <3>3 DEF CutOf
    <2> QED
      BY <1>3, <2>2
  <1> HIDE DEF gone
  <1>8. Apart(t.scrollback.rows, gone)
    BY <1>50, <1>7, AmongApart
  <1>9. PushedTo(sb, t.scrollback, gone, n)
    BY <1>1, <1>50, <1>7, <1>8, PushedType DEF sb
  <1>10. /\ sb \in Scrollbacks /\ Inj(sb.rows)
         /\ \A i \in DOMAIN sb.rows :
              \/ \E j \in DOMAIN t.scrollback.rows : sb.rows[i] = t.scrollback.rows[j]
              \/ \E j \in 1..n : sb.rows[i] = s.rows[j]
    BY <1>7, <1>9 DEF PushedTo
  <1>11. \A j \in 1..n : j \in DOMAIN s.rows
    BY <1>1, <1>2, <1>3
  <1>12. Kept(sb.rows, t) /\ Kept(left, t)
    <2>1. Kept(sb.rows, t)
      BY <1>10, <1>11 DEF Kept, s
    <2> QED
      BY <2>1, <1>6, <1>50, KeptAmong
  <1>13. new \in ScreenSet /\ new.rows = left /\ new.wrap = s.wrap
    BY <1>1, <1>4, <1>6, WithRowsParts
  <1>14. m = WithHistory(t, sb, new, t.nextId)
    <2> DEFINE x == [s EXCEPT !.rows = left, !.row = r]
    <2>0. x = [s EXCEPT !.rows = left, !.row = r]
      OBVIOUS
    <2> HIDE DEF x
    <2>1. new = x
      BY <1>1, <2>0 DEF WithRows, ScreenSet
    <2> HIDE DEF new
    <2>2. m = [t EXCEPT !.scrollback = sb, !.primary = new]
      BY <1>1, <1>5, <2>0, <2>1 DEF Terminals, s
    <2>3. m = [t EXCEPT !.scrollback = sb, !.primary = new, !.nextId = t.nextId]
      BY <1>1, <2>2 DEF Terminals
    <2> QED
      BY <2>3 DEF WithHistory
  <1> HIDE DEF m, new
  <1>15. /\ m \in Terminals /\ m.alternate = t.alternate /\ m.active = t.active
         /\ m.panicked = t.panicked /\ m.scrollback = sb /\ m.primary = new
         /\ m.nextId = t.nextId
    <2> DEFINE id == t.nextId
    <2>1. id \in Nat \ {0} /\ id = t.nextId
      BY <1>1
    <2>2. m = WithHistory(t, sb, new, id)
      BY <1>14
    <2> HIDE DEF id
    <2>3. /\ m \in Terminals /\ m.dims = t.dims /\ m.alternate = t.alternate
          /\ m.active = t.active /\ m.panicked = t.panicked /\ m.damage = t.damage
          /\ m.scrollback = sb /\ m.primary = new /\ m.nextId = id
      <3>1. t \in Terminals /\ sb \in Scrollbacks /\ new \in ScreenSet
        BY <1>1, <1>10, <1>13
      <3>2. id \in Nat \ {0}
        BY <2>1
      <3> QED
        BY <3>1, <3>2, <2>2 DEF WithHistory, Terminals
    <2> QED
      BY <2>1, <2>3
  <1>16. Apart(sb.rows, left)
    <2> SUFFICES ASSUME NEW i \in DOMAIN sb.rows, NEW j \in DOMAIN left
                 PROVE  sb.rows[i].id # left[j].id
      BY DEF Apart
    <2> DEFINE q == n + j
    <2>2. q \in DOMAIN s.rows /\ left[j] = s.rows[q]
      BY <1>6
    <2>3. \A k \in 1..n : k # q
      BY <1>3, <1>6
    <2> HIDE DEF q
    <2>4. CASE \E k \in DOMAIN t.scrollback.rows : sb.rows[i] = t.scrollback.rows[k]
      BY <1>50, <2>2, <2>4 DEF Apart
    <2>5. CASE \E k \in 1..n : sb.rows[i] = s.rows[k]
      BY <1>50, <1>11, <2>2, <2>3, <2>5 DEF Inj
    <2> QED
      BY <1>10, <2>4, <2>5
  <1>17. Below(sb.rows, t.nextId) /\ Below(left, t.nextId)
    <2>1. Below(sb.rows, t.nextId)
      BY <1>10, <1>11, <1>50 DEF Below
    <2> QED
      BY <1>6, <1>50, <2>1, AmongApart
  <1>18. t.nextId <= m.nextId
    BY <1>1, <1>15
  <1>19. Moved(t, m)
    BY <1>6, <1>10, <1>12, <1>13, <1>15, <1>16, <1>17, <1>18 DEF Moved, s
  <1> QED
    BY <1>19 DEF m

LEMMA GrowMoved ==
    ASSUME NEW t, Good(t), NEW rows \in Nat \ {0}, Len(t.primary.rows) < rows
    PROVE  Moved(t, grow_primary(t, rows))
  <1> DEFINE s == t.primary
             old == t.scrollback.rows
             k == Len(s.rows)
             l == Len(old)
             n == Least(rows - k, l)
             more == rows - k - n
             p == l - n
             back == SubSeq(old, p + 1, l)
             fresh == BlankRows(more, Columns(t), t.nextId)
             above == back \o s.rows
             all == above \o fresh
             sb == pop_back(t.scrollback, n)
             r == Least(s.row + n, rows - 1)
             id == t.nextId + more
             new == WithRows(s, all, r)
             m == grow_primary(t, rows)
  <1>1. /\ t \in Terminals /\ s \in ScreenSet /\ s.rows \in Seq(RowSet)
        /\ old \in Seq(RowSet) /\ t.nextId \in Nat \ {0} /\ Distinct(t)
        /\ t.scrollback \in Scrollbacks /\ Bounded(t.scrollback)
    BY GoodRows DEF Good
  <1>2. s.row \in Nat /\ k \in Nat /\ l \in Nat /\ k < rows /\ Columns(t) \in Nat
    <2>1. s.row \in Nat /\ k \in Nat
      BY <1>1, ScreenParts
    <2>2. Columns(t) \in Nat
      BY SizeParts DEF Good, Columns
    <2> QED
      BY <1>1, <2>1, <2>2
  <1>3. /\ n \in Nat /\ n <= rows - k /\ n <= l /\ more \in Nat /\ p \in Nat
        /\ p + n = l /\ p + n <= l /\ n \in 0..l /\ id \in Nat \ {0} /\ t.nextId <= id
    <2> HIDE DEF s, old, k, l
    <2> QED
      BY <1>1, <1>2 DEF Least
  <1>4. r \in Nat
    <2> HIDE DEF s, n
    <2> QED
      BY <1>2, <1>3 DEF Least
  <1>5. m = [t EXCEPT !.scrollback = sb, !.primary.rows = all, !.primary.row = r,
                      !.nextId = id]
    BY <1>1 DEF grow_primary, Terminals, ScreenSet
  <1>50. Inj(s.rows) /\ Inj(old) /\ Apart(old, s.rows)
         /\ Below(s.rows, t.nextId) /\ Below(old, t.nextId)
         /\ Kept(s.rows, t) /\ Kept(old, t)
    BY <1>1, KeptSelf DEF Distinct
  <1>6. /\ sb \in Scrollbacks /\ sb.rows = SubSeq(old, 1, p)
    BY <1>1, <1>3, PopBackKeepsPrefix
  <1>7. CutOf(back, old, p, n)
    <2>1. back = SubSeq(old, p + 1, p + n)
      BY <1>3
    <2> HIDE DEF back, p, n, old
    <2> QED
      BY <1>1, <1>3, <2>1, CutRows
  <1>8. fresh \in Seq(RowSet) /\ Inj(fresh) /\ Below(fresh, id)
        /\ \A i \in DOMAIN fresh : t.nextId <= fresh[i].id
    <2> HIDE DEF more, n
    <2> QED
      BY <1>1, <1>2, <1>3, BlankRowsParts
  <1>90. \E z : z = 0
    OBVIOUS
  <1>91. PICK z : z = 0
    BY <1>90
  <1>9. CutOf(sb.rows, old, z, p)
    <2>1. z \in Nat /\ z + p <= l /\ sb.rows = SubSeq(old, z + 1, z + p)
      BY <1>3, <1>6, <1>91
    <2> HIDE DEF old, p, l, sb
    <2> QED
      BY <1>1, <1>3, <2>1, CutRows DEF l
  <1>10. /\ back \in Seq(RowSet) /\ Inj(back) /\ Among(back, old) /\ DOMAIN back = 1..n
         /\ \A i \in 1..n : p + i \in DOMAIN old /\ back[i] = old[p + i]
    <2> HIDE DEF back, p, n, old, l
    <2>1. Inj(back)
      BY <1>1, <1>3, <1>50, <1>7, CutInj
    <2>2. Among(back, old)
      BY <1>1, <1>3, <1>7, CutAmong
    <2> QED
      BY <1>7, <2>1, <2>2 DEF CutOf
  <1>11. /\ sb.rows \in Seq(RowSet) /\ Inj(sb.rows) /\ Among(sb.rows, old)
         /\ DOMAIN sb.rows = 1..p
         /\ \A i \in 1..p : i \in DOMAIN old /\ sb.rows[i] = old[i]
    <2> HIDE DEF back, p, n, old, l, sb
    <2>1. Inj(sb.rows)
      BY <1>1, <1>3, <1>50, <1>9, <1>91, CutInj
    <2>2. Among(sb.rows, old)
      BY <1>1, <1>3, <1>9, <1>91, CutAmong
    <2>3. \A i \in 1..p : z + i = i
      BY <1>3, <1>91
    <2> QED
      BY <1>9, <2>1, <2>2, <2>3 DEF CutOf
  <1> HIDE DEF back, fresh, sb, n, p, more, id, r
  <1>12. Apart(sb.rows, back)
    <2> SUFFICES ASSUME NEW i \in 1..p, NEW j \in 1..n
                 PROVE  sb.rows[i].id # back[j].id
      BY <1>10, <1>11 DEF Apart
    <2>1. i \in DOMAIN old /\ p + j \in DOMAIN old /\ sb.rows[i] = old[i]
          /\ back[j] = old[p + j] /\ i # p + j
      BY <1>3, <1>10, <1>11
    <2> HIDE DEF old
    <2> QED
      BY <1>50, <2>1 DEF Inj
  <1> HIDE DEF old
  <1>13. Apart(back, s.rows) /\ Apart(sb.rows, s.rows)
    BY <1>10, <1>11, <1>50, AmongApart
  <1>14. above \in Seq(RowSet) /\ Inj(above) /\ Apart(sb.rows, above)
         /\ Below(above, t.nextId) /\ Below(sb.rows, t.nextId)
    <2> HIDE DEF s
    <2>1. above \in Seq(RowSet)
      BY <1>1, <1>10
    <2>2. Inj(above)
      BY <1>1, <1>10, <1>13, <1>50, ConcatInj
    <2>3. Apart(sb.rows, above)
      BY <1>1, <1>10, <1>12, <1>13, ConcatApart
    <2>4. Below(back, t.nextId) /\ Below(sb.rows, t.nextId)
      BY <1>10, <1>11, <1>50, AmongApart
    <2>5. Below(above, t.nextId)
      BY <1>1, <1>10, <1>50, <2>4, ConcatApart
    <2> QED
      BY <2>1, <2>2, <2>3, <2>4, <2>5
  <1>15. Kept(above, t) /\ Kept(sb.rows, t) /\ Kept(fresh, t)
    <2>1. Kept(back, t) /\ Kept(sb.rows, t)
      BY <1>10, <1>11, <1>50, KeptAmong
    <2>2. \A i \in DOMAIN above : \/ \E j \in DOMAIN back : above[i] = back[j]
                                  \/ \E j \in DOMAIN s.rows : above[i] = s.rows[j]
      BY <1>1, <1>10, ConcatAmong
    <2>3. Kept(above, t)
      <3> HIDE DEF above
      <3> QED
        BY <2>1, <2>2, <1>50 DEF Kept
    <2>4. Kept(fresh, t)
      BY <1>8 DEF Kept
    <2> QED
      BY <2>1, <2>3, <2>4
  <1> HIDE DEF above
  <1>16. Apart(sb.rows, fresh) /\ Apart(above, fresh)
    BY <1>1, <1>8, <1>11, <1>14, NewApart
  <1>17. /\ all \in Seq(RowSet) /\ Inj(all) /\ Apart(sb.rows, all) /\ Below(all, id)
         /\ Below(sb.rows, id) /\ Kept(all, t)
    <2>1. all \in Seq(RowSet) /\ Inj(all) /\ Apart(sb.rows, all)
      BY <1>8, <1>14, <1>16, ConcatInj, ConcatApart
    <2>2. Below(above, id) /\ Below(sb.rows, id)
      BY <1>1, <1>3, <1>11, <1>14, BelowLater
    <2>3. Below(all, id)
      BY <1>8, <1>14, <2>2, ConcatApart
    <2>4. \A i \in DOMAIN all : \/ \E j \in DOMAIN above : all[i] = above[j]
                                \/ \E j \in DOMAIN fresh : all[i] = fresh[j]
      BY <1>8, <1>14, ConcatAmong
    <2>5. Kept(all, t)
      <3> HIDE DEF all
      <3> QED
        BY <1>15, <2>4 DEF Kept
    <2> QED
      BY <2>1, <2>2, <2>3, <2>5
  <1> HIDE DEF all
  <1>18. new \in ScreenSet /\ new.rows = all /\ new.wrap = s.wrap
    BY <1>1, <1>4, <1>17, WithRowsParts
  <1>19. m = WithHistory(t, sb, new, id)
    <2> DEFINE x == [s EXCEPT !.rows = all, !.row = r]
    <2>0. x = [s EXCEPT !.rows = all, !.row = r]
      OBVIOUS
    <2> HIDE DEF x
    <2>1. new = x
      BY <1>1, <2>0 DEF WithRows, ScreenSet
    <2> HIDE DEF new
    <2>2. m = [t EXCEPT !.scrollback = sb, !.primary = new, !.nextId = id]
      BY <1>1, <1>5, <2>0, <2>1 DEF Terminals, s
    <2> QED
      BY <2>2 DEF WithHistory
  <1> HIDE DEF m, new
  <1>20. /\ m \in Terminals /\ m.alternate = t.alternate /\ m.active = t.active
         /\ m.panicked = t.panicked /\ m.scrollback = sb /\ m.primary = new
         /\ m.nextId = id
    <2>1. t \in Terminals /\ sb \in Scrollbacks /\ new \in ScreenSet
      BY <1>1, <1>6, <1>18
    <2>2. id \in Nat \ {0}
      BY <1>3
    <2> QED
      BY <1>19, <2>1, <2>2 DEF WithHistory, Terminals
  <1>21. Moved(t, m)
    BY <1>3, <1>11, <1>15, <1>17, <1>18, <1>20 DEF Moved, s
  <1> QED
    BY <1>21 DEF m

LEMMA HeightMoved ==
    ASSUME NEW t, Good(t), NEW rows \in Nat \ {0}
    PROVE  Moved(t, resize_primary_height(t, rows))
  <1>1. Len(t.primary.rows) \in Nat
    BY GoodRows, ScreenParts
  <1>2. CASE rows < Len(t.primary.rows)
    BY <1>2, ShrinkMoved DEF resize_primary_height
  <1>3. CASE Len(t.primary.rows) < rows
    BY <1>1, <1>3, GrowMoved DEF resize_primary_height
  <1>4. CASE rows = Len(t.primary.rows)
    <2>1. resize_primary_height(t, rows) = t
      BY <1>1, <1>4 DEF resize_primary_height
    <2>2. t.nextId <= t.nextId
      BY GoodRows
    <2>3. Moved(t, t)
      BY <2>2, KeptSelf DEF Moved, Good, Distinct
    <2> QED
      BY <2>1, <2>3
  <1> QED
    BY <1>1, <1>2, <1>3, <1>4

-----------------------------------------------------------------------------
(* The state a resize leaves.                                              *)

(* What is rebuilt: the history, the two screens and the next id.          *)
Rebuilt(m, dims, sb, s, a, id) ==
    [m EXCEPT !.scrollback = sb, !.primary = s, !.alternate = a, !.nextId = id,
              !.dims = dims, !.damage = 0..dims.rows - 1]

(* The parts fit the size and have rows of their own.                      *)
Consistent(dims, sb, s, a, id) ==
    /\ sb \in Scrollbacks /\ Bounded(sb) /\ s \in ScreenSet /\ ScreenFits(s, dims)
    /\ a \in ScreenSet /\ a.rows # <<>> /\ id \in Nat \ {0}
    /\ Inj(sb.rows) /\ Inj(s.rows) /\ Inj(a.rows)
    /\ Apart(sb.rows, s.rows) /\ Apart(sb.rows, a.rows) /\ Apart(s.rows, a.rows)
    /\ Below(sb.rows, id) /\ Below(s.rows, id) /\ Below(a.rows, id)

(* What every resize leaves, whatever it did to the rows.                  *)
Fitted(u, dims, sb) ==
    Good(u) /\ u.dims = dims /\ u.damage = 0..dims.rows - 1 /\ u.scrollback = sb

LEMMA RebuiltGood ==
    ASSUME NEW m \in Terminals, ~m.panicked, NEW dims \in Sizes, ValidSize(dims),
           NEW sb, NEW s, NEW a, NEW id, Consistent(dims, sb, s, a, id),
           NEW u, u = Rebuilt(m, dims, sb, s, a, id)
    PROVE  Fitted(u, dims, sb)
  <1>1. 0..dims.rows - 1 \in SUBSET Nat
    BY SizeParts
  <1>2. /\ u \in Terminals /\ u.dims = dims /\ u.damage = 0..dims.rows - 1
        /\ u.scrollback = sb /\ u.primary = s /\ u.alternate = a /\ u.nextId = id
        /\ u.panicked = m.panicked /\ u.active = m.active
    <2> DEFINE damage == 0..dims.rows - 1
    <2>1. u = [m EXCEPT !.scrollback = sb, !.primary = s, !.alternate = a, !.nextId = id,
                        !.dims = dims, !.damage = damage]
      BY DEF Rebuilt
    <2>2. damage \in SUBSET Nat
      BY <1>1
    <2> HIDE DEF damage
    <2>3. /\ u \in Terminals /\ u.dims = dims /\ u.damage = damage
          /\ u.scrollback = sb /\ u.primary = s /\ u.alternate = a /\ u.nextId = id
          /\ u.panicked = m.panicked /\ u.active = m.active
      <3>1. sb \in Scrollbacks /\ s \in ScreenSet /\ a \in ScreenSet /\ id \in Nat \ {0}
        BY DEF Consistent
      <3> DEFINE v == [m EXCEPT !.scrollback = sb, !.primary = s, !.alternate = a]
      <3>2. /\ v \in Terminals /\ v.scrollback = sb /\ v.primary = s /\ v.alternate = a
            /\ v.panicked = m.panicked /\ v.active = m.active
        BY <3>1 DEF Terminals
      <3>3. u = [v EXCEPT !.nextId = id, !.dims = dims, !.damage = damage]
        BY <2>1 DEF Terminals
      <3> DEFINE w == [v EXCEPT !.nextId = id]
      <3> HIDE DEF v
      <3>4. /\ w \in Terminals /\ w.scrollback = sb /\ w.primary = s /\ w.alternate = a
            /\ w.panicked = m.panicked /\ w.active = m.active /\ w.nextId = id
        BY <3>1, <3>2 DEF Terminals
      <3>5. u = [w EXCEPT !.dims = dims, !.damage = damage]
        BY <3>2, <3>3 DEF Terminals
      <3> HIDE DEF w
      <3>6. u \in Terminals
        BY <2>2, <3>4, <3>5 DEF Terminals
      <3>7. u.dims = dims /\ u.damage = damage
        BY <2>2, <3>4, <3>5 DEF Terminals
      <3>8. /\ u.scrollback = sb /\ u.primary = s /\ u.alternate = a
            /\ u.panicked = m.panicked /\ u.active = m.active /\ u.nextId = id
        BY <2>2, <3>4, <3>5 DEF Terminals
      <3> QED
        BY <3>6, <3>7, <3>8
    <2> QED
      BY <2>3 DEF damage
  <1>3. Distinct(u)
    BY <1>2 DEF Distinct, Consistent
  <1> QED
    BY <1>2, <1>3 DEF Good, Consistent, Fitted

(* Reflowed rows of their own, beside those of the alternate screen a.     *)
Flowing(flow, dims, a) ==
    /\ flow \in Flows(dims.cols)
    /\ flow.wrap => flow.col = dims.cols - 1
    /\ Sized(flow.rows, dims.cols) /\ Inj(flow.rows) /\ Below(flow.rows, flow.nextId)
    /\ Apart(flow.rows, a.rows) /\ Below(a.rows, flow.nextId)
    /\ a \in ScreenSet /\ a.rows # <<>> /\ Inj(a.rows)

LEMMA ReflowedFlowing ==
    ASSUME NEW t, Good(t), NEW m, Moved(t, m), NEW dims, ValidSize(dims),
           NEW rows \in Seq(RowSet), Kept(rows, t), Below(rows, m.nextId),
           NEW flow, Reflowed(flow, rows, dims.cols, m.nextId)
    PROVE  Flowing(flow, dims, t.alternate) /\ Renewed(flow.rows, t)
  <1> DEFINE F == flow.rows
             a == t.alternate
  <1>1. /\ flow \in Flows(dims.cols) /\ m.nextId <= flow.nextId
        /\ flow.wrap => flow.col = dims.cols - 1
        /\ Sized(F, dims.cols) /\ Inj(F)
        /\ \A i \in DOMAIN F :
             \/ m.nextId <= F[i].id /\ F[i].id < flow.nextId
             \/ \E j \in DOMAIN rows : F[i].id = rows[j].id /\ F[i].gen = rows[j].gen + 1
    BY DEF Reflowed
  <1>2. F \in Seq(RowSet) /\ flow.nextId \in Nat \ {0}
    BY <1>1 DEF Flows
  <1>3. m.nextId \in Nat \ {0} /\ t.nextId <= m.nextId /\ t.nextId \in Nat \ {0}
        /\ a.rows \in Seq(RowSet) /\ Below(a.rows, t.nextId) /\ a \in ScreenSet
        /\ a.rows # <<>> /\ Inj(a.rows)
    BY TerminalParts, GoodRows DEF Moved, Good, Distinct
  <1> HIDE DEF a
  <1>4. ASSUME NEW i \in DOMAIN F
        PROVE  /\ F[i].id \in Nat /\ F[i].gen \in Nat
               /\ \/ m.nextId <= F[i].id /\ F[i].id < flow.nextId
                  \/ \E j \in DOMAIN rows : F[i].id = rows[j].id /\ F[i].gen = rows[j].gen + 1
    BY <1>1, <1>2, RowParts, ElementOfSeq
  <1>5. ASSUME NEW j \in DOMAIN rows PROVE rows[j].id \in Nat /\ rows[j].id < m.nextId
    BY RowParts, ElementOfSeq DEF Below
  <1>6. Below(F, flow.nextId)
    <2> SUFFICES ASSUME NEW i \in DOMAIN F PROVE F[i].id < flow.nextId
      BY DEF Below
    <2> HIDE DEF F
    <2> QED
      BY <1>1, <1>2, <1>3, <1>4, <1>5
  <1>7. Apart(rows, a.rows)
    BY KeptApart DEF a
  <1>8. Apart(F, a.rows)
    <2> SUFFICES ASSUME NEW i \in DOMAIN F, NEW k \in DOMAIN a.rows
                 PROVE  F[i].id # a.rows[k].id
      BY DEF Apart
    <2>1. a.rows[k].id \in Nat /\ a.rows[k].id < t.nextId
      BY <1>3, RowParts, ElementOfSeq DEF Below
    <2>2. \A j \in DOMAIN rows : rows[j].id # a.rows[k].id
      BY <1>7 DEF Apart
    <2> HIDE DEF F
    <2> QED
      BY <1>3, <1>4, <2>1, <2>2
  <1>9. Below(a.rows, flow.nextId)
    BY <1>1, <1>2, <1>3, BelowLater
  <1>10. Renewed(F, t)
    <2> SUFFICES ASSUME NEW i \in DOMAIN F
                 PROVE  \/ t.nextId <= F[i].id
                        \/ \E j \in DOMAIN t.scrollback.rows :
                             /\ F[i].id = t.scrollback.rows[j].id
                             /\ F[i].gen = t.scrollback.rows[j].gen + 1
                        \/ \E j \in DOMAIN t.primary.rows :
                             /\ F[i].id = t.primary.rows[j].id
                             /\ F[i].gen = t.primary.rows[j].gen + 1
      BY DEF Renewed
    <2> HIDE DEF F
    <2>1. CASE m.nextId <= F[i].id
      BY <1>3, <1>4, <2>1
    <2>2. CASE \E j \in DOMAIN rows : F[i].id = rows[j].id /\ F[i].gen = rows[j].gen + 1
      BY <2>2 DEF Kept
    <2> QED
      BY <1>4, <2>1, <2>2
  <1> QED
    BY <1>1, <1>3, <1>6, <1>8, <1>9, <1>10 DEF Flowing, a

(* Where split_rows cuts, and what it makes of the two parts.              *)
SplitAt(flow, dims) == Least(Monus(Len(flow.rows), dims.rows), flow.row)
SplitSeen(flow, dims) == Least(dims.rows, Len(flow.rows) - SplitAt(flow, dims))
SplitMore(flow, dims) == dims.rows - SplitSeen(flow, dims)
SplitHistory(flow, dims) == replace_rows(SubSeq(flow.rows, 1, SplitAt(flow, dims)))
SplitRows(flow, dims) ==
    SubSeq(flow.rows, SplitAt(flow, dims) + 1, SplitAt(flow, dims) + SplitSeen(flow, dims))
      \o BlankRows(SplitMore(flow, dims), dims.cols, flow.nextId)
SplitScreen(flow, dims) ==
    [rows |-> SplitRows(flow, dims),
     row |-> Least(Monus(flow.row, SplitAt(flow, dims)), dims.rows - 1),
     col |-> flow.col, visible |-> TRUE, wrap |-> flow.wrap]

LEMMA SplitConsistent ==
    ASSUME NEW flow, NEW dims, ValidSize(dims), NEW a, Flowing(flow, dims, a)
    PROVE  /\ Consistent(dims, SplitHistory(flow, dims), SplitScreen(flow, dims), a,
                         flow.nextId + SplitMore(flow, dims))
           /\ Among(SplitHistory(flow, dims).rows, flow.rows)
  <1> DEFINE F == flow.rows
             n == Len(F)
             p == SplitAt(flow, dims)
             seen == SplitSeen(flow, dims)
             more == SplitMore(flow, dims)
             top == SubSeq(F, 1, p)
             body == SubSeq(F, p + 1, p + seen)
             fresh == BlankRows(more, dims.cols, flow.nextId)
             all == body \o fresh
             sb == SplitHistory(flow, dims)
             s == SplitScreen(flow, dims)
             id == flow.nextId + more
             r == Least(Monus(flow.row, p), dims.rows - 1)
  <1>1. /\ F \in Seq(RowSet) /\ flow.nextId \in Nat \ {0} /\ flow.row \in Nat
        /\ flow.col \in 0..dims.cols - 1 /\ flow.wrap \in BOOLEAN
        /\ flow.wrap => flow.col = dims.cols - 1
        /\ Sized(F, dims.cols) /\ Inj(F) /\ Below(F, flow.nextId)
        /\ Apart(F, a.rows) /\ Below(a.rows, flow.nextId)
        /\ a \in ScreenSet /\ a.rows # <<>> /\ Inj(a.rows) /\ a.rows \in Seq(RowSet)
    <2>1. flow \in Flows(dims.cols)
      BY DEF Flowing
    <2>2. /\ F \in Seq(RowSet) /\ flow.nextId \in Nat \ {0} /\ flow.row \in Nat
          /\ flow.col \in 0..dims.cols - 1 /\ flow.wrap \in BOOLEAN
      BY <2>1 DEF Flows
    <2>3. a \in ScreenSet
      BY DEF Flowing
    <2>4. a.rows \in Seq(RowSet)
      BY <2>3 DEF ScreenSet
    <2> QED
      BY <2>2, <2>3, <2>4 DEF Flowing
  <1>2. n \in Nat /\ dims.rows \in Nat \ {0} /\ dims.cols \in Nat \ {0}
    BY <1>1, SizeParts
  <1>3. /\ p \in Nat /\ seen \in Nat /\ more \in Nat /\ p + seen <= n
        /\ seen + more = dims.rows /\ p <= n /\ id \in Nat \ {0} /\ flow.nextId <= id
    <2>1. p = Least(Monus(n, dims.rows), flow.row)
      BY DEF SplitAt
    <2>2. p \in Nat /\ p <= n
      <3> HIDE DEF p, n
      <3> QED
        BY <1>1, <1>2, <2>1 DEF Least, Monus, Greatest
    <2>3. seen = Least(dims.rows, n - p) /\ more = dims.rows - seen
      BY DEF SplitSeen, SplitMore
    <2> HIDE DEF p, n, seen, more
    <2>4. /\ seen \in Nat /\ more \in Nat /\ p + seen <= n /\ seen + more = dims.rows
      BY <1>2, <2>2, <2>3 DEF Least
    <2>5. id \in Nat \ {0} /\ flow.nextId <= id
      BY <1>1, <2>4
    <2> QED
      BY <2>2, <2>4, <2>5
  <1>4. r \in Nat /\ r < dims.rows
    <2> DEFINE g == Monus(flow.row, p)
    <2>1. flow.row \in Nat /\ p \in Nat /\ dims.rows \in Nat \ {0}
      BY <1>1, <1>2, <1>3
    <2> HIDE DEF p
    <2>2. g \in Nat
      BY <2>1, MonusOf
    <2> HIDE DEF g
    <2>3. Least(g, dims.rows - 1) \in Nat /\ Least(g, dims.rows - 1) < dims.rows
      BY <2>1, <2>2 DEF Least
    <2> QED
      BY <2>3 DEF g
  <1>5. /\ s = [rows |-> all, row |-> r, col |-> flow.col, visible |-> TRUE,
                wrap |-> flow.wrap]
        /\ sb = replace_rows(top)
    BY DEF SplitScreen, SplitRows, SplitHistory
  <1> HIDE DEF p, seen, more, sb, s, r
  <1>6. CutOf(body, F, p, seen)
    <2> HIDE DEF F, body
    <2> QED
      BY <1>1, <1>3, CutRows DEF body, n
  <1>7. /\ body \in Seq(RowSet) /\ Inj(body) /\ Among(body, F) /\ DOMAIN body = 1..seen
        /\ Len(body) = seen
        /\ \A i \in 1..seen : p + i \in DOMAIN F /\ body[i] = F[p + i]
    <2> HIDE DEF F, body
    <2>1. Inj(body)
      BY <1>1, <1>3, <1>6, CutInj
    <2>2. Among(body, F)
      BY <1>1, <1>3, <1>6, CutAmong
    <2> QED
      BY <1>6, <2>1, <2>2 DEF CutOf
  <1>8. top \in Seq(RowSet) /\ Len(top) = p /\ \A i \in 1..p : i \in DOMAIN F /\ top[i] = F[i]
    BY <1>1, <1>2, <1>3
  <1> HIDE DEF top, body
  <1>9. /\ sb \in Scrollbacks /\ Bounded(sb)
        /\ \E k \in 0..Len(top) : sb.rows = SubSeq(top, k + 1, Len(top))
    BY <1>5, <1>8, ReplaceKeepsSuffix
  <1>10. PICK k \in 0..p : sb.rows = SubSeq(top, k + 1, p)
    BY <1>8, <1>9
  <1>11. /\ sb.rows \in Seq(RowSet) /\ DOMAIN sb.rows = 1..(p - k)
         /\ \A i \in 1..(p - k) : k + i \in 1..p /\ sb.rows[i] = F[k + i]
    <2>1. p \in Nat /\ k \in Nat /\ k <= p
      BY <1>3, <1>10
    <2>2. CutOf(sb.rows, top, k, p - k)
      <3> DEFINE m == p - k
      <3>1. m \in Nat /\ k + m <= Len(top) /\ k + m = p
        BY <1>8, <2>1
      <3>2. sb.rows = SubSeq(top, k + 1, k + m)
        BY <1>10, <3>1
      <3> HIDE DEF m
      <3>3. CutOf(sb.rows, top, k, m)
        BY <1>8, <2>1, <3>1, <3>2, CutRows
      <3> QED
        BY <3>3 DEF m
    <2>3. \A i \in 1..(p - k) : k + i \in 1..p
      BY <2>1
    <2> QED
      BY <1>8, <2>2, <2>3 DEF CutOf
  <1>12. Among(sb.rows, F)
    <2> SUFFICES ASSUME NEW i \in 1..(p - k) PROVE \E j \in DOMAIN F : sb.rows[i] = F[j]
      BY <1>11 DEF Among
    <2> QED
      BY <1>8, <1>11
  <1>13. Inj(sb.rows) /\ Apart(sb.rows, body)
    <2>1. ASSUME NEW i \in 1..(p - k), NEW j \in 1..(p - k), sb.rows[i].id = sb.rows[j].id
          PROVE  i = j
      <3>1. k + i \in DOMAIN F /\ k + j \in DOMAIN F
            /\ sb.rows[i] = F[k + i] /\ sb.rows[j] = F[k + j]
        BY <1>8, <1>11
      <3>2. k + i = k + j => i = j
        OBVIOUS
      <3>3. k + i = k + j
        <4> HIDE DEF F
        <4> QED
          BY <1>1, <2>1, <3>1 DEF Inj
      <3> QED
        BY <3>2, <3>3
    <2>2. ASSUME NEW i \in 1..(p - k), NEW j \in 1..seen
          PROVE  sb.rows[i].id # body[j].id
      <3>1. k + i \in DOMAIN F /\ p + j \in DOMAIN F
            /\ sb.rows[i] = F[k + i] /\ body[j] = F[p + j]
        BY <1>7, <1>8, <1>11
      <3>2. k + i # p + j
        BY <1>3, <1>11
      <3> HIDE DEF F
      <3> QED
        BY <1>1, <3>1, <3>2 DEF Inj
    <2> QED
      BY <1>7, <1>11, <2>1, <2>2 DEF Inj, Apart
  <1>14. /\ fresh \in Seq(RowSet) /\ Len(fresh) = more /\ Sized(fresh, dims.cols)
         /\ Inj(fresh) /\ Below(fresh, id) /\ \A i \in DOMAIN fresh : flow.nextId <= fresh[i].id
    BY <1>1, <1>2, <1>3, BlankRowsParts
  <1>15. Sized(body, dims.cols)
    BY <1>1, <1>7 DEF Among, Sized
  <1> HIDE DEF fresh, F, n
  <1>16. /\ Below(sb.rows, flow.nextId) /\ Below(body, flow.nextId)
         /\ Apart(sb.rows, a.rows) /\ Apart(body, a.rows)
    BY <1>1, <1>7, <1>12, AmongApart
  <1>17. Apart(sb.rows, fresh) /\ Apart(body, fresh) /\ Apart(fresh, a.rows)
    BY <1>1, <1>7, <1>11, <1>14, <1>16, NewApart
  <1>18. all \in Seq(RowSet) /\ Len(all) = dims.rows
    BY <1>3, <1>7, <1>14, ConcatAmong
  <1>19. Sized(all, dims.cols)
    BY <1>7, <1>14, <1>15, ConcatSized
  <1>20. Inj(all) /\ Apart(sb.rows, all) /\ Apart(all, a.rows)
    BY <1>7, <1>13, <1>14, <1>16, <1>17, ConcatInj, ConcatApart
  <1>21. Below(sb.rows, id) /\ Below(body, id) /\ Below(a.rows, id)
    BY <1>1, <1>3, <1>7, <1>11, <1>16, BelowLater
  <1>22. Below(all, id)
    BY <1>7, <1>14, <1>21, ConcatApart
  <1> HIDE DEF all, id
  <1>23. /\ s \in ScreenSet /\ s.rows = all /\ s.row = r /\ s.col = flow.col
         /\ s.wrap = flow.wrap
    <2>1. flow.col \in Nat
      BY <1>1
    <2> QED
      BY <1>1, <1>4, <1>5, <1>18, <2>1 DEF ScreenSet
  <1>24. ScreenFits(s, dims)
    <2>1. flow.col < dims.cols
      BY <1>1, <1>2
    <2> QED
      BY <1>1, <1>4, <1>18, <1>19, <1>23, <2>1 DEF ScreenFits
  <1>25. Consistent(dims, sb, s, a, id)
    BY <1>1, <1>3, <1>9, <1>13, <1>16, <1>20, <1>21, <1>22, <1>23, <1>24 DEF Consistent
  <1> QED
    BY <1>12, <1>25 DEF sb, s, id, more, F

(* The state u a resize to dims leaves of t.                               *)
ResizedTo(t, u, dims) ==
    /\ Good(u) /\ u.dims = dims /\ u.damage = 0..dims.rows - 1 /\ Settled(t, u)

LEMMA AmongRenewed ==
    ASSUME NEW t, NEW a, NEW b, Among(a, b), Renewed(b, t)
    PROVE  Renewed(a, t)
  BY DEF Among, Renewed

LEMMA PrimaryResizeGood ==
    ASSUME NEW t, Good(t), ~t.panicked, NEW dims \in Sizes, ValidSize(dims),
           NEW u, u = [resize_active_primary(t, dims) EXCEPT !.dims = dims,
                                                       !.damage = 0..dims.rows - 1]
    PROVE  ResizedTo(t, u, dims)
  <1> DEFINE m == resize_primary_height(t, dims.rows)
             rows == m.scrollback.rows \o m.primary.rows
             r == Len(m.scrollback.rows) + m.primary.row
             flow == reflow_rows(rows, r, m.primary.col, m.primary.wrap, dims.cols, m.nextId)
             sb == SplitHistory(flow, dims)
             s == SplitScreen(flow, dims)
             id == flow.nextId + SplitMore(flow, dims)
  <1>1. dims.rows \in Nat \ {0} /\ dims.cols \in Nat \ {0}
    BY SizeParts
  <1>2. Moved(t, m)
    BY <1>1, HeightMoved
  <1>3. /\ m \in Terminals /\ m.alternate = t.alternate /\ m.active = t.active
        /\ m.panicked = t.panicked
    BY <1>2 DEF Moved
  <1>4. u = [split_rows(m, flow, dims) EXCEPT !.dims = dims, !.damage = 0..dims.rows - 1]
    BY DEF resize_active_primary, reflow_primary
  <1> HIDE DEF m
  <1>5. /\ m.scrollback.rows \in Seq(RowSet) /\ m.primary.rows \in Seq(RowSet)
        /\ m.primary.row \in Nat /\ m.primary.col \in Nat /\ m.primary.wrap \in BOOLEAN
        /\ m.nextId \in Nat \ {0}
    BY <1>3, TerminalParts, ScreenParts DEF Scrollbacks
  <1>6. r \in Nat
    BY <1>5
  <1>7. rows \in Seq(RowSet) /\ Inj(rows) /\ Below(rows, m.nextId)
    BY <1>2, <1>5, ConcatInj, ConcatApart DEF Moved
  <1>8. Kept(rows, t)
    <2>1. \A i \in DOMAIN rows : \/ \E j \in DOMAIN m.scrollback.rows : rows[i] = m.scrollback.rows[j]
                                 \/ \E j \in DOMAIN m.primary.rows : rows[i] = m.primary.rows[j]
      BY <1>5, ConcatAmong
    <2>2. Kept(m.scrollback.rows, t) /\ Kept(m.primary.rows, t)
      BY <1>2 DEF Moved
    <2> HIDE DEF rows
    <2> QED
      BY <2>1, <2>2 DEF Kept
  <1> HIDE DEF rows, r
  <1>9. Reflowed(flow, rows, dims.cols, m.nextId)
    BY <1>1, <1>5, <1>6, <1>7, ReflowRowsType
  <1> HIDE DEF flow
  <1>10. Flowing(flow, dims, t.alternate) /\ Renewed(flow.rows, t)
    BY <1>2, <1>7, <1>8, <1>9, ReflowedFlowing
  <1>11. Consistent(dims, sb, s, t.alternate, id) /\ Among(sb.rows, flow.rows)
    BY <1>10, SplitConsistent
  <1>12. u = Rebuilt(m, dims, sb, s, t.alternate, id)
    <2>1. split_rows(m, flow, dims) = [m EXCEPT !.scrollback = sb, !.primary = s, !.nextId = id]
      BY DEF split_rows, SplitHistory, SplitScreen, SplitRows, SplitMore, SplitSeen, SplitAt
    <2> DEFINE damage == 0..dims.rows - 1
    <2>2. u = [split_rows(m, flow, dims) EXCEPT !.dims = dims, !.damage = damage]
      BY <1>4
    <2> HIDE DEF sb, s, id, damage
    <2>3. [m EXCEPT !.scrollback = sb, !.primary = s, !.nextId = id]
          = [m EXCEPT !.scrollback = sb, !.primary = s, !.alternate = t.alternate, !.nextId = id]
      BY <1>3 DEF Terminals
    <2>4. u = [m EXCEPT !.scrollback = sb, !.primary = s, !.alternate = t.alternate,
                        !.nextId = id, !.dims = dims, !.damage = damage]
      BY <1>3, <2>1, <2>2, <2>3 DEF Terminals
    <2> QED
      BY <2>4 DEF Rebuilt, damage
  <1> HIDE DEF sb, s, id
  <1>13. Fitted(u, dims, sb)
    <2>1. m \in Terminals /\ ~m.panicked
      BY <1>3
    <2>2. Consistent(dims, sb, s, t.alternate, id)
      BY <1>11
    <2> QED
      BY <1>12, <2>1, <2>2, RebuiltGood
  <1>14. Renewed(u.scrollback.rows, t)
    BY <1>10, <1>11, <1>13, AmongRenewed DEF Fitted
  <1> QED
    BY <1>13, <1>14, RenewedSettled DEF ResizedTo, Fitted

(* The first n rows at another width.                                      *)
Widened(rows, n, columns) == [i \in 1..n |-> resize_width(rows[i], columns)]

LEMMA WidenedParts ==
    ASSUME NEW rows \in Seq(RowSet), NEW n \in 0..Len(rows), NEW columns \in Nat, Inj(rows),
           NEW new, new = Widened(rows, n, columns)
    PROVE  /\ new \in Seq(RowSet) /\ Len(new) = n /\ DOMAIN new = 1..n
           /\ Sized(new, columns) /\ Inj(new)
           /\ \A i \in 1..n : /\ i \in DOMAIN rows /\ new[i].id = rows[i].id
                              /\ new[i].gen = rows[i].gen + 1
  <1>1. n \in Nat /\ \A i \in 1..n : i \in DOMAIN rows /\ rows[i] \in RowSet
    OBVIOUS
  <1>2. \A i \in 1..n : /\ new[i] \in RowSet /\ Len(new[i].cells) = columns
                        /\ new[i].id = rows[i].id /\ new[i].gen = rows[i].gen + 1
    BY <1>1, ResizeWidthType DEF Widened
  <1>3. new \in Seq(RowSet) /\ Len(new) = n /\ DOMAIN new = 1..n
    BY <1>1, <1>2, FunctionIsSeq DEF Widened
  <1>4. Sized(new, columns) /\ Inj(new)
    BY <1>1, <1>2, <1>3 DEF Sized, Inj
  <1> QED
    BY <1>1, <1>2, <1>3, <1>4

(* The rows of a have ids of rows of b, or ids from id on.                 *)
Kin(a, b, id) ==
    \A i \in DOMAIN a : id <= a[i].id \/ \E j \in DOMAIN b : a[i].id = b[j].id

LEMMA KinApart ==
    ASSUME NEW a \in Seq(RowSet), NEW b \in Seq(RowSet), NEW c \in Seq(RowSet),
           NEW d \in Seq(RowSet), NEW x \in Nat, NEW y \in Nat,
           Kin(a, c, x), Kin(b, d, y), Below(d, x), Below(a, y), Apart(c, d)
    PROVE  Apart(a, b)
  <1>1. ASSUME NEW i \in DOMAIN a, NEW k \in DOMAIN b, a[i].id = b[k].id PROVE FALSE
    <2>1. a[i].id \in Nat /\ a[i].id < y /\ b[k].id \in Nat
      BY RowParts, ElementOfSeq DEF Below
    <2>2. PICK j \in DOMAIN d : b[k].id = d[j].id
      BY <1>1, <2>1 DEF Kin
    <2>3. d[j].id \in Nat /\ d[j].id < x
      BY RowParts, ElementOfSeq DEF Below
    <2>4. PICK l \in DOMAIN c : a[i].id = c[l].id
      BY <1>1, <2>1, <2>2, <2>3 DEF Kin
    <2> QED
      BY <1>1, <2>2, <2>4 DEF Apart
  <1> QED
    BY <1>1 DEF Apart

(* What resize_visible makes of the screen s.                              *)
Visible(v, s, dims, id) ==
    /\ v \in ScreenSet /\ ScreenFits(v, dims) /\ v.rows # <<>> /\ Inj(v.rows)
    /\ Below(v.rows, id + Monus(dims.rows, Len(s.rows))) /\ Kin(v.rows, s.rows, id)

LEMMA ResizeVisibleParts ==
    ASSUME NEW s \in ScreenSet, Inj(s.rows), NEW id \in Nat \ {0}, Below(s.rows, id),
           NEW dims, ValidSize(dims)
    PROVE  Visible(resize_visible(s, dims, id), s, dims, id)
  <1> DEFINE n == Least(Len(s.rows), dims.rows)
             more == dims.rows - n
             old == Widened(s.rows, n, dims.cols)
             fresh == BlankRows(more, dims.cols, id)
             all == old \o fresh
             r == Least(s.row, dims.rows - 1)
             c == Least(s.col, dims.cols - 1)
             v == resize_visible(s, dims, id)
             later == id + more
  <1>1. /\ s.rows \in Seq(RowSet) /\ Len(s.rows) \in Nat /\ s.row \in Nat /\ s.col \in Nat
        /\ dims.rows \in Nat \ {0} /\ dims.cols \in Nat \ {0}
    BY ScreenParts, SizeParts
  <1>2. /\ n \in 0..Len(s.rows) /\ more \in Nat /\ n + more = dims.rows
        /\ later = id + Monus(dims.rows, Len(s.rows))
        /\ later \in Nat \ {0} /\ id <= later
    <2> DEFINE l == Len(s.rows)
               h == dims.rows
    <2>1. l \in Nat /\ h \in Nat \ {0} /\ n = Least(l, h) /\ more = h - n
          /\ later = id + more
      BY <1>1
    <2> HIDE DEF l, h, n, more, later
    <2>2. /\ n \in 0..l /\ more \in Nat /\ n + more = h /\ later = id + Monus(h, l)
          /\ later \in Nat \ {0} /\ id <= later
      BY <2>1 DEF Least, Monus, Greatest
    <2> QED
      BY <2>2 DEF l, h
  <1>3. r \in Nat /\ r < dims.rows /\ c \in Nat /\ c < dims.cols
    BY <1>1 DEF Least
  <1>4. v = [s EXCEPT !.rows = all, !.row = r, !.col = c, !.wrap = FALSE]
    BY DEF resize_visible, Widened, ScreenSet
  <1> HIDE DEF v, r, c, n, more
  <1>5. /\ old \in Seq(RowSet) /\ Len(old) = n /\ DOMAIN old = 1..n
        /\ Sized(old, dims.cols) /\ Inj(old)
        /\ \A i \in 1..n : i \in DOMAIN s.rows /\ old[i].id = s.rows[i].id
    <2>1. s.rows \in Seq(RowSet) /\ n \in 0..Len(s.rows) /\ dims.cols \in Nat
      BY <1>1, <1>2
    <2> HIDE DEF old
    <2>2. old = Widened(s.rows, n, dims.cols)
      BY DEF old
    <2> QED
      BY <2>1, <2>2, WidenedParts
  <1>6. /\ fresh \in Seq(RowSet) /\ Len(fresh) = more /\ Sized(fresh, dims.cols)
        /\ Inj(fresh) /\ Below(fresh, later) /\ \A i \in DOMAIN fresh : id <= fresh[i].id
    BY <1>1, <1>2, BlankRowsParts
  <1> HIDE DEF old, fresh, later
  <1>7. Below(old, id)
    BY <1>5 DEF Below
  <1>8. Apart(old, fresh)
    BY <1>5, <1>6, <1>7, NewApart
  <1>9. Below(old, later)
    BY <1>2, <1>5, <1>7, BelowLater
  <1>10. /\ all \in Seq(RowSet) /\ Len(all) = dims.rows /\ Sized(all, dims.cols) /\ Inj(all)
         /\ Below(all, later)
    <2>1. all \in Seq(RowSet) /\ Len(all) = Len(old) + Len(fresh)
      BY <1>5, <1>6, ConcatAmong
    <2>2. Sized(all, dims.cols)
      BY <1>5, <1>6, ConcatSized
    <2>3. Inj(all)
      BY <1>5, <1>6, <1>8, ConcatInj
    <2>4. Below(all, later)
      BY <1>5, <1>6, <1>9, ConcatApart
    <2> QED
      BY <1>2, <1>5, <1>6, <2>1, <2>2, <2>3, <2>4
  <1>11. Kin(all, s.rows, id)
    <2>1. \A i \in DOMAIN all : \/ \E j \in DOMAIN old : all[i] = old[j]
                                \/ \E j \in DOMAIN fresh : all[i] = fresh[j]
      BY <1>5, <1>6, ConcatAmong
    <2> HIDE DEF all
    <2> QED
      BY <1>5, <1>6, <2>1 DEF Kin
  <1>12. all # <<>>
    BY <1>1, <1>10
  <1> HIDE DEF all
  <1>13. /\ v \in ScreenSet /\ v.rows = all /\ v.row = r /\ v.col = c /\ v.wrap = FALSE
    <2> DEFINE f == FALSE
    <2>1. f \in BOOLEAN /\ f = FALSE /\ v = [s EXCEPT !.rows = all, !.row = r, !.col = c, !.wrap = f]
      BY <1>4
    <2> HIDE DEF f
    <2>2. v \in ScreenSet /\ v.rows = all /\ v.row = r /\ v.col = c /\ v.wrap = f
      BY <1>3, <1>10, <2>1 DEF ScreenSet
    <2> QED
      BY <2>1, <2>2
  <1>14. ScreenFits(v, dims)
    BY <1>3, <1>10, <1>13 DEF ScreenFits
  <1>15. Visible(v, s, dims, id)
    BY <1>2, <1>10, <1>11, <1>12, <1>13, <1>14 DEF Visible
  <1> QED
    BY <1>15 DEF v

(* What scrollback_resize_width makes of the scrollback.                   *)
LEMMA HistoryResized ==
    ASSUME NEW t, Good(t), NEW columns \in Nat,
           NEW sb, sb = scrollback_resize_width(t.scrollback, columns)
    PROVE  /\ sb \in Scrollbacks /\ Bounded(sb) /\ Inj(sb.rows)
           /\ Kin(sb.rows, t.scrollback.rows, t.nextId) /\ Below(sb.rows, t.nextId)
           /\ Renewed(sb.rows, t)
  <1> DEFINE old == t.scrollback.rows
             n == Len(old)
             new == Widened(old, n, columns)
  <1>1. /\ old \in Seq(RowSet) /\ Inj(old) /\ Below(old, t.nextId) /\ n \in 0..Len(old)
        /\ n \in Nat /\ DOMAIN old = 1..n
    BY GoodRows DEF Distinct
  <1>2. sb = replace_rows(new)
    BY <1>1 DEF scrollback_resize_width, Widened
  <1> HIDE DEF n, old
  <1>3. /\ new \in Seq(RowSet) /\ Len(new) = n /\ DOMAIN new = 1..n /\ Inj(new)
        /\ \A i \in 1..n : /\ i \in DOMAIN old /\ new[i].id = old[i].id
                           /\ new[i].gen = old[i].gen + 1
    BY <1>1, WidenedParts
  <1> HIDE DEF new
  <1>4. /\ sb \in Scrollbacks /\ Bounded(sb)
        /\ \E k \in 0..n : sb.rows = SubSeq(new, k + 1, n)
    BY <1>2, <1>3, ReplaceKeepsSuffix
  <1>5. PICK k \in 0..n : sb.rows = SubSeq(new, k + 1, n)
    BY <1>4
  <1>6. CutOf(sb.rows, new, k, n - k)
    <2> DEFINE m == n - k
    <2>1. m \in Nat /\ k \in Nat /\ k + m <= Len(new) /\ k + m = n
      BY <1>1, <1>3, <1>5
    <2>2. sb.rows = SubSeq(new, k + 1, k + m)
      BY <1>5, <2>1
    <2> HIDE DEF m
    <2>3. CutOf(sb.rows, new, k, m)
      BY <1>3, <2>1, <2>2, CutRows
    <2> QED
      BY <2>3 DEF m
  <1>7. Inj(sb.rows) /\ Among(sb.rows, new)
    <2> DEFINE m == n - k
    <2>1. m \in Nat /\ k \in Nat /\ CutOf(sb.rows, new, k, m)
      BY <1>1, <1>5, <1>6
    <2> HIDE DEF m
    <2> QED
      BY <1>3, <2>1, CutInj, CutAmong
  <1>8. Kin(sb.rows, old, t.nextId) /\ Below(sb.rows, t.nextId)
    BY <1>1, <1>3, <1>7 DEF Kin, Below, Among
  <1>9. Renewed(sb.rows, t)
    <2>1. Renewed(new, t)
      BY <1>1, <1>3 DEF Renewed, old
    <2> QED
      BY <1>7, <2>1, AmongRenewed
  <1> QED
    BY <1>4, <1>7, <1>8, <1>9 DEF old

LEMMA AlternateResizeGood ==
    ASSUME NEW t, Good(t), ~t.panicked, NEW dims \in Sizes, ValidSize(dims),
           NEW u, u = [resize_while_alternate_active(t, dims) EXCEPT
                         !.dims = dims, !.damage = 0..dims.rows - 1]
    PROVE  ResizedTo(t, u, dims)
  <1> DEFINE p == t.primary
             a == t.alternate
             b == t.nextId + Monus(dims.rows, Len(p.rows))
             id == b + Monus(dims.rows, Len(a.rows))
             v == resize_visible(p, dims, t.nextId)
             w == resize_visible(a, dims, b)
             sb == scrollback_resize_width(t.scrollback, dims.cols)
  <1>1. /\ t \in Terminals /\ p \in ScreenSet /\ a \in ScreenSet /\ t.nextId \in Nat \ {0}
        /\ t.scrollback.rows \in Seq(RowSet) /\ p.rows \in Seq(RowSet)
        /\ a.rows \in Seq(RowSet) /\ Distinct(t)
    BY GoodRows DEF Good
  <1>2. /\ dims.rows \in Nat \ {0} /\ dims.cols \in Nat \ {0}
        /\ Len(p.rows) \in Nat /\ Len(a.rows) \in Nat
    BY <1>1, SizeParts, ScreenParts
  <1>3. /\ Inj(p.rows) /\ Inj(a.rows) /\ Below(p.rows, t.nextId) /\ Below(a.rows, t.nextId)
        /\ Apart(t.scrollback.rows, p.rows) /\ Apart(t.scrollback.rows, a.rows)
        /\ Apart(p.rows, a.rows)
    BY <1>1 DEF Distinct
  <1>4. /\ b \in Nat \ {0} /\ t.nextId <= b /\ id \in Nat \ {0} /\ b <= id
    <2> DEFINE x == Monus(dims.rows, Len(p.rows))
               y == Monus(dims.rows, Len(a.rows))
    <2>1. x \in Nat /\ y \in Nat
      BY <1>2, MonusOf
    <2> HIDE DEF x, y
    <2> QED
      BY <1>1, <2>1 DEF x, y
  <1>5. u = Rebuilt(t, dims, sb, v, w, id)
    BY <1>1 DEF resize_while_alternate_active, Rebuilt, Terminals
  <1> HIDE DEF p, a
  <1>6. Visible(v, p, dims, t.nextId)
    BY <1>1, <1>3, ResizeVisibleParts
  <1> HIDE DEF v
  <1>7. /\ v \in ScreenSet /\ ScreenFits(v, dims) /\ v.rows # <<>> /\ Inj(v.rows)
        /\ Below(v.rows, b) /\ Kin(v.rows, p.rows, t.nextId)
    BY <1>6 DEF Visible
  <1>8. Below(a.rows, b)
    <2> HIDE DEF b
    <2> QED
      BY <1>1, <1>3, <1>4, BelowLater
  <1>9. Visible(w, a, dims, b)
    <2> HIDE DEF b
    <2> QED
      BY <1>1, <1>3, <1>4, <1>8, ResizeVisibleParts
  <1> HIDE DEF w
  <1>10. /\ w \in ScreenSet /\ w.rows # <<>> /\ Inj(w.rows)
         /\ Below(w.rows, id) /\ Kin(w.rows, a.rows, b)
    BY <1>9 DEF Visible
  <1> HIDE DEF b, id
  <1>11. /\ sb \in Scrollbacks /\ Bounded(sb) /\ Inj(sb.rows)
         /\ Kin(sb.rows, t.scrollback.rows, t.nextId) /\ Below(sb.rows, t.nextId)
         /\ Renewed(sb.rows, t)
    BY <1>2, HistoryResized
  <1> HIDE DEF sb
  <1>12. sb.rows \in Seq(RowSet) /\ v.rows \in Seq(RowSet) /\ w.rows \in Seq(RowSet)
    BY <1>7, <1>10, <1>11, ScreenParts DEF Scrollbacks
  <1>13. Below(sb.rows, b) /\ Below(sb.rows, id) /\ Below(v.rows, id)
    BY <1>1, <1>4, <1>7, <1>11, <1>12, BelowLater
  <1>14. Apart(sb.rows, v.rows)
    BY <1>1, <1>3, <1>7, <1>11, <1>12, KinApart
  <1>15. Apart(sb.rows, w.rows)
    BY <1>1, <1>3, <1>4, <1>10, <1>11, <1>12, <1>13, KinApart
  <1>16. Apart(v.rows, w.rows)
    BY <1>1, <1>3, <1>4, <1>7, <1>10, <1>12, KinApart
  <1>17. Consistent(dims, sb, v, w, id)
    BY <1>4, <1>7, <1>10, <1>11, <1>13, <1>14, <1>15, <1>16 DEF Consistent
  <1>18. Fitted(u, dims, sb)
    BY <1>1, <1>5, <1>17, RebuiltGood
  <1>19. Renewed(u.scrollback.rows, t)
    BY <1>11, <1>18 DEF Fitted
  <1> QED
    BY <1>18, <1>19, RenewedSettled DEF ResizedTo, Fitted

LEMMA ResizeGood ==
    ASSUME NEW t, Good(t), ~t.panicked, NEW dims \in Sizes
    PROVE  resize(t, dims) = t \/ (dims # t.dims /\ ResizedTo(t, resize(t, dims), dims))
  <1> DEFINE u == resize(t, dims)
  <1>1. CASE ~ValidSize(dims) \/ dims = t.dims
    BY <1>1 DEF resize
  <1>2. CASE ValidSize(dims) /\ dims # t.dims /\ t.active = "primary"
    <2>1. u = [resize_active_primary(t, dims) EXCEPT !.dims = dims, !.damage = 0..dims.rows - 1]
      BY <1>2 DEF resize
    <2> HIDE DEF u
    <2>2. ResizedTo(t, u, dims)
      BY <1>2, <2>1, PrimaryResizeGood
    <2> QED
      BY <1>2, <2>2 DEF u
  <1>3. CASE ValidSize(dims) /\ dims # t.dims /\ t.active # "primary"
    <2>1. u = [resize_while_alternate_active(t, dims) EXCEPT
                 !.dims = dims, !.damage = 0..dims.rows - 1]
      BY <1>3 DEF resize
    <2> HIDE DEF u
    <2>2. ResizedTo(t, u, dims)
      BY <1>3, <2>1, AlternateResizeGood
    <2> QED
      BY <1>3, <2>2 DEF u
  <1> QED
    BY <1>1, <1>2, <1>3

-----------------------------------------------------------------------------
(* The state itself.                                                       *)

LEMMA IdsCount ==
    ASSUME NEW rows \in Seq(RowSet), Inj(rows)
    PROVE  Cardinality(RowIds(rows)) = Len(rows)
  <1> DEFINE n == Len(rows)
             f == [i \in 1..n |-> rows[i].id]
             ids == RowIds(rows)
  <1>1. n \in Nat /\ DOMAIN rows = 1..n
    OBVIOUS
  <1>2. ids = {rows[i].id : i \in 1..n}
    BY <1>1 DEF RowIds
  <1> HIDE DEF n, ids
  <1>3. f \in [1..n -> ids]
    BY <1>2
  <1>4. \A i, j \in 1..n : f[i] = f[j] => i = j
    BY <1>1 DEF Inj
  <1>5. \A x \in ids : \E i \in 1..n : f[i] = x
    BY <1>2
  <1> HIDE DEF f
  <1>6. f \in Bijection(1..n, ids)
    BY <1>3, <1>4, <1>5 DEF Bijection, Injection, Surjection, IsInjective
  <1>7. ExistsBijection(1..n, ids)
    BY <1>6 DEF ExistsBijection
  <1>8. Cardinality(ids) = n
    BY <1>1, <1>7, FS_CountingElements
  <1> QED
    BY <1>8 DEF n, ids

LEMMA GoodDistinct ==
    ASSUME Good(term)
    PROVE  DistinctRows
  <1> DEFINE h == term.scrollback.rows
             p == term.primary.rows
             a == term.alternate.rows
             all == (h \o p) \o a
  <1>1. /\ h \in Seq(RowSet) /\ p \in Seq(RowSet) /\ a \in Seq(RowSet)
        /\ Inj(h) /\ Inj(p) /\ Inj(a) /\ Apart(h, p) /\ Apart(h, a) /\ Apart(p, a)
        /\ Below(h, term.nextId) /\ Below(p, term.nextId) /\ Below(a, term.nextId)
    BY GoodRows DEF Distinct
  <1>2. all = History(term) \o term.alternate.rows
    BY DEF History
  <1> HIDE DEF h, p, a
  <1> DEFINE b == h \o p
  <1>3. b \in Seq(RowSet) /\ Inj(b) /\ Apart(b, a) /\ Below(b, term.nextId)
    BY <1>1, ConcatInj, ConcatApart
  <1> HIDE DEF b
  <1>4. b \o a \in Seq(RowSet) /\ Inj(b \o a) /\ Below(b \o a, term.nextId)
    BY <1>1, <1>3, ConcatInj, ConcatApart
  <1>5. all \in Seq(RowSet) /\ Inj(all) /\ Below(all, term.nextId)
    BY <1>4 DEF b
  <1> HIDE DEF all
  <1>6. Cardinality(RowIds(all)) = Len(all)
    BY <1>5, IdsCount
  <1>7. \A id \in RowIds(all) : id < term.nextId
    BY <1>5 DEF RowIds, Below
  <1> QED
    BY <1>2, <1>6, <1>7 DEF DistinctRows

LEMMA GoodTyped ==
    ASSUME Good(term)
    PROVE  TypeOK /\ PrimaryFits /\ ScrollbackBounded
  <1>1. /\ term.dims \in Sizes /\ ValidSize(term.dims) /\ term.primary \in ScreenSet
        /\ term.alternate \in ScreenSet /\ term.active \in {"primary", "alternate"}
        /\ term.damage \in SUBSET Nat /\ term.nextId \in Nat
        /\ term.shade \in BOOLEAN /\ term.panicked \in BOOLEAN
        /\ term.saved.screen \in {"none", "primary", "alternate"}
        /\ ScreenFits(term.primary, term.dims) /\ Bounded(term.scrollback)
    BY TerminalParts DEF Good
  <1>2. ASSUME NEW s \in ScreenSet PROVE ScreenTypeOK(s)
    <2>1. ASSUME NEW i \in DOMAIN s.rows
          PROVE  /\ s.rows[i].id \in Nat \ {0} /\ s.rows[i].gen \in Nat
                 /\ s.rows[i].wrapped \in BOOLEAN
                 /\ \A c \in DOMAIN s.rows[i].cells : s.rows[i].cells[c] \in Cells
      <3>1. s.rows[i] \in RowSet
        BY <1>2, ScreenParts
      <3>2. s.rows[i].cells \in Seq(Cells)
        BY <3>1, RowParts
      <3> QED
        BY <3>1, <3>2, RowParts, ElementOfSeq
    <2> QED
      BY <1>2, <2>1, ScreenParts DEF ScreenTypeOK
  <1>3. TypeOK
    BY <1>1, <1>2 DEF TypeOK
  <1>4. PrimaryFits
    BY <1>1 DEF PrimaryFits, ScreenFits, Sized, Rows, Columns
  <1>5. ScrollbackBounded
    BY <1>1 DEF ScrollbackBounded, Bounded
  <1> QED
    BY <1>3, <1>4, <1>5

LEMMA InitGood == Init => Good(term) /\ DamageCovers
  <1> SUFFICES ASSUME Init PROVE Good(term) /\ DamageCovers
    OBVIOUS
  <1> DEFINE d == InitialSize
             p == NewScreen(d, 1)
             k == 1 + d.rows
             a == NewScreen(d, k)
             id == 1 + 2 * d.rows
             damage == 0..d.rows - 1
             saved == [screen |-> "none", row |-> 0, col |-> 0]
  <1>1. d \in Sizes /\ ValidSize(d) /\ d.rows \in Nat \ {0}
    BY TerminalAssumption, SizeParts
  <1>2. k \in Nat \ {0} /\ id \in Nat \ {0} /\ k + d.rows = id /\ damage \in SUBSET Nat
        /\ 1 \in Nat \ {0} /\ k <= id
    BY <1>1
  <1>3. term = [dims |-> d, primary |-> p, alternate |-> a, active |-> "primary",
                scrollback |-> NoScrollback, nextId |-> id, damage |-> damage,
                shade |-> FALSE, saved |-> saved, panicked |-> FALSE]
        /\ shown.active = "none"
    BY DEF Init
  <1>4. /\ p \in ScreenSet /\ ScreenFits(p, d) /\ p.rows # <<>> /\ Inj(p.rows)
        /\ Below(p.rows, k)
    BY <1>1, <1>2, NewScreenParts
  <1>5. /\ a \in ScreenSet /\ a.rows # <<>> /\ Inj(a.rows)
        /\ Below(a.rows, id) /\ \A i \in DOMAIN a.rows : k <= a.rows[i].id
    <2> HIDE DEF k
    <2>1. LET s == NewScreen(d, k) IN
           /\ s \in ScreenSet /\ ScreenFits(s, d) /\ s.rows # <<>> /\ Inj(s.rows)
           /\ Below(s.rows, k + d.rows) /\ \A i \in DOMAIN s.rows : k <= s.rows[i].id
      BY <1>1, <1>2, NewScreenParts
    <2> QED
      BY <1>2, <2>1
  <1>6. NoScrollback \in Scrollbacks /\ NoScrollback.rows = <<>> /\ Bounded(NoScrollback)
    BY RowsBytesEmpty, ScrollbackAssumption DEF NoScrollback, Scrollbacks, Bounded
  <1>7. saved \in [screen : {"none", "primary", "alternate"}, row : Nat, col : Nat]
    OBVIOUS
  <1> HIDE DEF d, p, k, a, id, damage, saved
  <1>8. /\ term \in Terminals /\ term.dims = d /\ term.primary = p /\ term.alternate = a
        /\ term.scrollback = NoScrollback /\ term.nextId = id /\ term.panicked = FALSE
    <2> DEFINE f == FALSE
    <2>1. f \in BOOLEAN /\ f = FALSE
      OBVIOUS
    <2>2. term = [dims |-> d, primary |-> p, alternate |-> a, active |-> "primary",
                  scrollback |-> NoScrollback, nextId |-> id, damage |-> damage,
                  shade |-> f, saved |-> saved, panicked |-> f]
      BY <1>3
    <2> HIDE DEF f
    <2>3. /\ term \in Terminals /\ term.dims = d /\ term.primary = p /\ term.alternate = a
          /\ term.scrollback = NoScrollback /\ term.nextId = id /\ term.panicked = f
      BY <1>1, <1>2, <1>4, <1>5, <1>6, <1>7, <2>1, <2>2 DEF Terminals
    <2> QED
      BY <2>1, <2>3
  <1>9. Apart(p.rows, a.rows) /\ Below(p.rows, id)
    BY <1>2, <1>4, <1>5, NewApart, BelowLater DEF ScreenSet
  <1>10. Distinct(term)
    <2>1. Inj(<<>>) /\ \A rows : Apart(<<>>, rows) /\ Below(<<>>, id)
      BY DEF Inj, Apart, Below
    <2> QED
      BY <1>4, <1>5, <1>6, <1>8, <1>9, <2>1 DEF Distinct
  <1>11. Good(term)
    BY <1>1, <1>4, <1>5, <1>6, <1>8, <1>10 DEF Good
  <1>12. DamageCovers
    BY <1>3 DEF DamageCovers
  <1> QED
    BY <1>11, <1>12

(* Every step is a step of a good state, a resize or a snapshot.           *)
Snapshot == term' = [term EXCEPT !.damage = {}]

LEMMA NextSteps ==
    ASSUME Good(term), Next
    PROVE  \/ Follows(term, term', {}) /\ shown' = shown
           \/ term' = term /\ shown' = shown
           \/ /\ term'.dims # term.dims /\ shown' = shown
              /\ ResizedTo(term, term', term'.dims)
           \/ /\ Snapshot
              /\ shown' = [dims |-> term.dims, active |-> term.active,
                           rows |-> Active(term).rows]
  <1>1. CASE PrintGlyph
    BY <1>1, PrintCarries DEF PrintGlyph, Step, Carries
  <1>2. CASE Control
    BY <1>2, ControlCarries DEF Control, Step, Carries
  <1>3. CASE Move
    BY <1>3, MoveCarries DEF Move, Step, Carries
  <1>4. CASE Erase
    BY <1>4, ErasureCarries DEF Erase, Step, Carries
  <1>5. CASE DecPrivateMode
    BY <1>5, ModeFollows DEF DecPrivateMode, Step
  <1>6. CASE SelectRendition
    BY <1>6, ShadeCarries DEF SelectRendition, Step, Carries
  <1>7. CASE Resize
    <2>1. PICK dims \in Sizes : term' = resize(term, dims) /\ ~term.panicked /\ shown' = shown
      BY <1>7 DEF Resize, Step
    <2>2. term' = term \/ (dims # term.dims /\ ResizedTo(term, term', dims))
      BY <2>1, ResizeGood
    <2>3. ResizedTo(term, term', dims) => term'.dims = dims
      BY DEF ResizedTo
    <2> QED
      BY <2>1, <2>2, <2>3
  <1>8. CASE RenderSnapshot
    BY <1>8 DEF RenderSnapshot, Step, Snapshot
  <1> QED
    BY <1>1, <1>2, <1>3, <1>4, <1>5, <1>6, <1>7, <1>8 DEF Next

LEMMA SnapshotParts ==
    ASSUME NEW t, Good(t), NEW u, u = [t EXCEPT !.damage = {}]
    PROVE  /\ Good(u) /\ u.dims = t.dims /\ u.primary = t.primary
           /\ u.scrollback = t.scrollback /\ u.active = t.active
           /\ u.alternate = t.alternate /\ Active(u) = Active(t)
  <1>1. t \in Terminals
    BY DEF Good
  <1>2. /\ u \in Terminals /\ u.dims = t.dims /\ u.primary = t.primary
        /\ u.scrollback = t.scrollback /\ u.active = t.active
        /\ u.alternate = t.alternate /\ u.nextId = t.nextId /\ u.panicked = t.panicked
    BY <1>1 DEF Terminals
  <1>3. Distinct(u)
    BY <1>2 DEF Good, Distinct
  <1> QED
    BY <1>2, <1>3 DEF Good, Active

(* What a renderer that drew row r as shown would draw now.                *)
Current(s, t, r) ==
    \/ r \in t.damage
    \/ /\ s.dims = t.dims /\ s.active = t.active
       /\ r + 1 \in DOMAIN s.rows <=> r + 1 \in DOMAIN Active(t).rows
       /\ r + 1 \in DOMAIN s.rows => s.rows[r + 1] = Active(t).rows[r + 1]

LEMMA CurrentFollows ==
    ASSUME NEW t, NEW u, Follows(t, u, {}), NEW s, NEW r \in 0..Rows(t) - 1, Current(s, t, r)
    PROVE  Current(s, u, r)
  <1>1. /\ u.dims = t.dims /\ t.damage \subseteq u.damage
        /\ \/ r \in u.damage
           \/ u.active = t.active /\ SameRow(Active(t).rows, Active(u).rows, r)
    BY DEF Follows
  <1> QED
    BY <1>1 DEF Current, SameRow

LEMMA GoodStep ==
    ASSUME Good(term), DamageCovers, [Next]_vars
    PROVE  Good(term)' /\ DamageCovers'
  <1>1. CASE Follows(term, term', {}) /\ shown' = shown
    <2>1. Good(term') /\ Rows(term') = Rows(term)
      BY <1>1 DEF Follows, Rows
    <2>2. DamageCovers'
      <3> SUFFICES ASSUME shown.active # "none", NEW r \in 0..Rows(term) - 1
                   PROVE  Current(shown, term', r)
        BY <1>1, <2>1 DEF DamageCovers, Current
      <3>1. Current(shown, term, r)
        BY DEF DamageCovers, Current
      <3> QED
        BY <1>1, <3>1, CurrentFollows
    <2> QED
      BY <2>1, <2>2
  <1>2. CASE term' = term /\ shown' = shown
    BY <1>2 DEF DamageCovers
  <1>3. CASE /\ term'.dims # term.dims /\ shown' = shown
             /\ ResizedTo(term, term', term'.dims)
    <2>1. Good(term') /\ term'.damage = 0..Rows(term') - 1
      BY <1>3 DEF ResizedTo, Rows
    <2> QED
      BY <2>1 DEF DamageCovers
  <1>4. CASE /\ Snapshot
             /\ shown' = [dims |-> term.dims, active |-> term.active,
                          rows |-> Active(term).rows]
    <2>1. /\ Good(term') /\ term'.dims = term.dims /\ term'.active = term.active
          /\ Active(term') = Active(term)
      BY <1>4, SnapshotParts DEF Snapshot
    <2>2. shown'.dims = term.dims /\ shown'.active = term.active
          /\ shown'.rows = Active(term).rows
      BY <1>4
    <2> QED
      BY <2>1, <2>2 DEF DamageCovers
  <1>5. CASE UNCHANGED vars
    BY <1>2, <1>5 DEF vars
  <1> QED
    BY <1>1, <1>2, <1>3, <1>4, <1>5, NextSteps

(* The inductive invariant.                                                *)
THEOREM AlwaysGood == Spec => [](Good(term) /\ DamageCovers)
  <1>1. Init => Good(term) /\ DamageCovers
    BY InitGood
  <1>2. Good(term) /\ DamageCovers /\ [Next]_vars => (Good(term) /\ DamageCovers)'
    BY GoodStep
  <1> QED
    BY <1>1, <1>2, PTL DEF Spec

-----------------------------------------------------------------------------
(* The properties of the state machine.                                    *)

(* Whatever bytes, resizes and snapshots a terminal has seen, its state is *)
(* one Terminal::new and the handlers can build.                           *)
THEOREM TerminalTyped == Spec => []TypeOK
  BY AlwaysGood, GoodTyped, PTL

(* The primary screen has the configured rows and columns after every      *)
(* print, scroll, erase, mode switch and resize, its cursor is on it and a *)
(* pending wrap is in the last column, so that no print on it indexes out  *)
(* of a row.                                                               *)
THEOREM PrimaryAlwaysFits == Spec => []PrimaryFits
  BY AlwaysGood, GoodTyped, PTL

(* push, pop_back, replace_rows and trim keep the scrollback within both   *)
(* budgets, and its byte count that of its rows, whatever the budgets are. *)
THEOREM ScrollbackAlwaysBounded == Spec => []ScrollbackBounded
  BY AlwaysGood, GoodTyped, PTL

(* No two rows of the scrollback and of both screens ever share an id, and *)
(* none has an id that is still to be given out.                           *)
THEOREM RowsAlwaysDistinct == Spec => []DistinctRows
  BY AlwaysGood, GoodDistinct, PTL

(* What render_snapshot would return otherwise than the last time is in    *)
(* the damage set.                                                         *)
THEOREM DamageAlwaysCovers == Spec => []DamageCovers
  BY AlwaysGood, PTL

(* An index out of range (NeverPanics fails) happens on the alternate      *)
(* screen only: the primary one is safe under every sequence of actions.   *)
THEOREM PanicsOnAlternateOnly == Spec => [](term.panicked => term.active = "alternate")
  <1>1. Good(term) => (term.panicked => term.active = "alternate")
    BY DEF Good
  <1> QED
    BY <1>1, AlwaysGood, PTL

LEMMA StepIsolated ==
    ASSUME Good(term), [Next]_vars, term.active = "alternate",
           term'.active = "alternate", term'.dims = term.dims
    PROVE  Isolated(term, term')
  <1>1. ASSUME NEW u, u.primary = term.primary, u.scrollback = term.scrollback
        PROVE  Isolated(term, u)
    <2>1. term.primary \in ScreenSet
      BY GoodRows
    <2>2. term.primary = [term.primary EXCEPT !.visible = term.primary.visible]
      BY <2>1 DEF ScreenSet
    <2> QED
      BY <1>1, <2>2 DEF Isolated
  <1>2. CASE Follows(term, term', {})
    BY <1>2 DEF Follows
  <1>3. CASE term' = term
    BY <1>1, <1>3
  <1>4. CASE Snapshot
    BY <1>1, <1>4, SnapshotParts DEF Snapshot
  <1> QED
    BY <1>2, <1>3, <1>4, NextSteps DEF vars

(* Nothing that happens on the alternate screen, short of a resize, alters *)
(* the primary rows, their cursor or the scrollback.                       *)
THEOREM AlternateAlwaysIsolated == Spec => AlternateIsolation
  <1>1. Good(term) /\ [Next]_vars =>
          [/\ term.active = "alternate" /\ term'.active = "alternate"
           /\ term'.dims = term.dims
           => /\ term'.primary = [term.primary EXCEPT !.visible = term'.primary.visible]
              /\ term'.scrollback = term.scrollback]_vars
    BY StepIsolated DEF Isolated
  <1> QED
    BY <1>1, AlwaysGood, PTL DEF Spec, AlternateIsolation

LEMMA StepSettled ==
    ASSUME Good(term), [Next]_vars
    PROVE  Settled(term, term')
  <1>1. ASSUME NEW u, u.scrollback = term.scrollback, u.primary = term.primary
        PROVE  Settled(term, u)
    <2>1. Remembers(term, u)
      BY <1>1 DEF Remembers, Known
    <2> QED
      BY <2>1, RemembersSettled
  <1>2. CASE Follows(term, term', {})
    BY <1>2, RemembersSettled DEF Follows
  <1>3. CASE term' = term
    BY <1>1, <1>3
  <1>4. CASE Snapshot
    BY <1>1, <1>4, SnapshotParts DEF Snapshot
  <1>5. CASE ResizedTo(term, term', term'.dims)
    BY <1>5 DEF ResizedTo
  <1> QED
    BY <1>2, <1>3, <1>4, <1>5, NextSteps DEF vars

(* A scrollback handle, an id with a generation, never comes to denote     *)
(* other text: what a step alters, a reflow or a resize above all, it      *)
(* gives another generation.                                               *)
THEOREM HistoryAlwaysStable == Spec => StableHistory
  <1>1. Good(term) /\ [Next]_vars =>
          [LET old == term.scrollback.rows
               new == term'.scrollback.rows
           IN  \A i \in DOMAIN old, j \in DOMAIN new :
                 old[i].id = new[j].id /\ old[i].gen = new[j].gen => old[i] = new[j]]_vars
    BY StepSettled DEF Settled
  <1> QED
    BY <1>1, AlwaysGood, PTL DEF Spec, StableHistory


-----------------------------------------------------------------------------
(* Wide characters: while only the primary screen is used and nothing is   *)
(* erased, every step keeps the pairs.                                     *)

WideRows(t) == AllPaired(t.scrollback.rows) /\ AllPaired(t.primary.rows)
Wide(t)     == Good(t) /\ t.active = "primary" /\ WideRows(t)

(* u has the rows of t.                                                    *)
SameRows(t, u) ==
    /\ u.active = t.active /\ u.dims = t.dims
    /\ u.scrollback = t.scrollback /\ u.primary.rows = t.primary.rows

LEMMA SameRowsWide ==
    ASSUME NEW t, NEW u, Wide(t), SameRows(t, u), Good(u)
    PROVE  Wide(u)
  BY DEF Wide, SameRows, WideRows

LEMMA WideParts ==
    ASSUME NEW t, Wide(t)
    PROVE  /\ Good(t) /\ t \in Terminals /\ t.active = "primary" /\ Active(t) = t.primary
           /\ t.primary \in ScreenSet /\ t.scrollback \in Scrollbacks
           /\ t.primary.rows \in Seq(RowSet) /\ t.scrollback.rows \in Seq(RowSet)
           /\ Columns(t) \in Nat \ {0} /\ Rows(t) \in Nat \ {0}
           /\ AllPaired(t.scrollback.rows) /\ AllPaired(t.primary.rows)
           /\ ScreenFits(t.primary, t.dims)
  <1>1. Good(t) /\ t.active = "primary" /\ WideRows(t)
    BY DEF Wide
  <1>2. /\ t \in Terminals /\ Columns(t) \in Nat \ {0} /\ Rows(t) \in Nat \ {0}
        /\ ScreenFits(Active(t), t.dims) /\ Active(t) = t.primary
    BY <1>1, GoodParts
  <1>3. t.primary \in ScreenSet /\ t.scrollback \in Scrollbacks
    BY <1>2, TerminalParts
  <1>4. t.primary.rows \in Seq(RowSet) /\ t.scrollback.rows \in Seq(RowSet)
    BY <1>3, ScreenParts DEF Scrollbacks
  <1> QED
    BY <1>1, <1>2, <1>3, <1>4 DEF WideRows

LEMMA SameRowsTwice ==
    ASSUME NEW t, NEW m, NEW u, SameRows(t, m), SameRows(m, u)
    PROVE  SameRows(t, u)
  BY DEF SameRows

LEMMA MarkSame ==
    ASSUME NEW t \in Terminals, NEW R
    PROVE  SameRows(t, mark(t, R))
  BY DEF mark, SameRows, Terminals

LEMMA UpdateSame ==
    ASSUME NEW t \in Terminals, t.active = "primary", NEW s \in ScreenSet, s.rows = t.primary.rows
    PROVE  SameRows(t, Update(t, s))
  BY UpdateParts DEF SameRows

LEMMA MoveSame ==
    ASSUME NEW t \in Terminals, t.active = "primary", NEW r \in Nat, NEW c \in Nat
    PROVE  SameRows(t, move_to(t, r, c)) /\ move_to(t, r, c) \in Terminals
  <1> DEFINE s == set_cursor(Active(t), r, c)
  <1>1. t.primary \in ScreenSet /\ Active(t) = t.primary
    BY TerminalParts DEF Active
  <1>2. s \in ScreenSet /\ s.rows = t.primary.rows
    BY <1>1 DEF set_cursor, ScreenSet
  <1>3. move_to(t, r, c) = Update(t, s)
    BY DEF move_to
  <1> HIDE DEF s
  <1> QED
    BY <1>2, <1>3, UpdateSame, UpdateParts

LEMMA UnwrappedSame ==
    ASSUME NEW t \in Terminals, t.active = "primary"
    PROVE  SameRows(t, unwrapped(t)) /\ unwrapped(t) \in Terminals
  <1> DEFINE s == [Active(t) EXCEPT !.wrap = FALSE]
  <1>1. t.primary \in ScreenSet /\ Active(t) = t.primary
    BY TerminalParts DEF Active
  <1>2. s \in ScreenSet /\ s.rows = t.primary.rows
    BY <1>1 DEF ScreenSet
  <1>3. unwrapped(t) = Update(t, s)
    BY DEF unwrapped
  <1> HIDE DEF s
  <1> QED
    BY <1>2, <1>3, UpdateSame, UpdateParts

(* The cursor moves, a wrap is dropped.                                    *)
LEMMA UnwrapAndMoveSame ==
    ASSUME NEW t \in Terminals, t.active = "primary", NEW r \in Nat, NEW c \in Nat, NEW R
    PROVE  SameRows(t, mark(move_to(unwrapped(t), r, c), R))
  <1> DEFINE one == unwrapped(t)
             two == move_to(one, r, c)
  <1>1. SameRows(t, one) /\ one \in Terminals
    BY UnwrappedSame
  <1>2. one.active = "primary"
    BY <1>1 DEF SameRows
  <1> HIDE DEF one
  <1>3. SameRows(one, two) /\ two \in Terminals
    BY <1>1, <1>2, MoveSame
  <1> HIDE DEF two
  <1>4. SameRows(two, mark(two, R))
    BY <1>3, MarkSame
  <1>5. SameRows(t, mark(two, R))
    BY <1>1, <1>3, <1>4, SameRowsTwice
  <1> QED
    BY <1>5 DEF one, two

LEMMA ScrollWide ==
    ASSUME NEW t, Wide(t)
    PROVE  Wide(scroll_active_screen_up(t))
  <1> DEFINE u == scroll_active_screen_up(t)
             rows == t.primary.rows
             sb == t.scrollback
             first == Head(rows)
             row == blank_row(Columns(t), t.nextId)
             more == Append(sb.rows, first)
             next == push(sb, first)
  <1>1. /\ Good(t) /\ t.active = "primary" /\ Active(t) = t.primary
        /\ rows \in Seq(RowSet) /\ sb \in Scrollbacks /\ sb.rows \in Seq(RowSet)
        /\ Columns(t) \in Nat \ {0} /\ AllPaired(sb.rows) /\ AllPaired(rows)
    BY WideParts
  <1>2. rows # <<>> /\ t.nextId \in Nat \ {0} /\ Bounded(sb)
    BY <1>1, GoodParts DEF Good
  <1>3. /\ u.primary.rows = Append(Tail(rows), row) /\ u.scrollback = next
        /\ u.active = "primary"
    <2> DEFINE s == Active(t)
               up == [rows |-> Append(Tail(s.rows), row), row |-> s.row, col |-> s.col,
                      visible |-> s.visible, wrap |-> s.wrap]
    <2>1. u.primary = up /\ u.scrollback = push(t.scrollback, Head(s.rows))
          /\ u.active = t.active
      BY <1>1, ScrollParts
    <2> HIDE DEF u
    <2>2. up.rows = Append(Tail(s.rows), row) /\ s = t.primary
      BY <1>1
    <2> HIDE DEF row, up, s
    <2> QED
      BY <1>1, <2>1, <2>2
  <1>4. Good(u)
    BY <1>1, ScrollFollows DEF Follows
  <1> HIDE DEF u, next, row
  <1>5. first \in RowSet /\ Paired(first.cells) /\ Tail(rows) \in Seq(RowSet)
    <2>1. first = rows[1] /\ 1 \in DOMAIN rows /\ first \in RowSet /\ Tail(rows) \in Seq(RowSet)
      BY <1>1, <1>2, HeadTailProperties
    <2> QED
      BY <1>1, <2>1 DEF AllPaired
  <1>6. AllPaired(Tail(rows))
    <2>1. \A i \in DOMAIN Tail(rows) : i + 1 \in DOMAIN rows /\ Tail(rows)[i] = rows[i + 1]
      BY <1>1, <1>2
    <2> QED
      BY <1>1, <2>1 DEF AllPaired
  <1>7. AllPaired(Append(Tail(rows), row))
    <2>1. row \in RowSet /\ Paired(row.cells)
      BY <1>1, <1>2, BlankRowType, BlankRowsPaired DEF row
    <2> QED
      BY <1>5, <1>6, <2>1, AppendPaired
  <1>8. AllPaired(next.rows)
    <2>1. \/ next.rows = sb.rows
          \/ \E k \in 0..Len(sb.rows) + 1 :
                next.rows = SubSeq(more, k + 1, Len(sb.rows) + 1)
      BY <1>1, <1>2, <1>5, PushKeepsSuffix DEF next
    <2> HIDE DEF first, rows
    <2>2. more \in Seq(RowSet) /\ Len(more) = Len(sb.rows) + 1 /\ AllPaired(more)
          /\ Len(sb.rows) \in Nat
      BY <1>1, <1>5, AppendPaired
    <2> HIDE DEF more
    <2>3. ASSUME NEW k \in 0..Len(sb.rows) + 1
          PROVE  AllPaired(SubSeq(more, k + 1, Len(sb.rows) + 1))
      <3>1. k + 1 \in Nat \ {0} /\ Len(sb.rows) + 1 \in Nat /\ Len(sb.rows) + 1 <= Len(more)
        BY <2>2
      <3> QED
        BY <2>2, <3>1, SubSeqPaired
    <2> QED
      BY <1>1, <2>1, <2>3
  <1>9. Wide(u)
    BY <1>3, <1>4, <1>7, <1>8 DEF Wide, WideRows
  <1> QED
    BY <1>9 DEF u

LEMMA MoveDownWide ==
    ASSUME NEW t, Wide(t)
    PROVE  Wide(move_down_or_scroll(t))
  <1> DEFINE s == Active(t)
             u == move_down_or_scroll(t)
             down == move_to(t, s.row + 1, s.col)
             up == scroll_active_screen_up(t)
             last == move_to(up, Rows(t) - 1, s.col)
  <1>1. /\ Good(t) /\ t \in Terminals /\ t.active = "primary" /\ s \in ScreenSet
        /\ Rows(t) \in Nat \ {0}
    BY WideParts
  <1>2. s.row \in Nat /\ s.col \in Nat
    BY <1>1, ScreenParts
  <1>3. Good(u)
    BY <1>1, MoveDownCarries, CarriesParts
  <1>4. CASE s.row + 1 < Rows(t)
    <2>1. u = mark(down, {s.row, s.row + 1})
      BY <1>4 DEF move_down_or_scroll
    <2>2. SameRows(t, down) /\ down \in Terminals
      BY <1>1, <1>2, MoveSame
    <2> HIDE DEF down, s, u
    <2>3. SameRows(down, u)
      BY <2>1, <2>2, MarkSame
    <2>4. SameRows(t, u)
      BY <2>2, <2>3, SameRowsTwice
    <2> QED
      BY <1>3, <2>4, SameRowsWide DEF u
  <1>5. CASE ~(s.row + 1 < Rows(t))
    <2>1. u = last
      BY <1>5 DEF move_down_or_scroll
    <2>2. Wide(up)
      BY ScrollWide
    <2> HIDE DEF up, s, u
    <2>3. up \in Terminals /\ up.active = "primary" /\ Rows(t) - 1 \in Nat
      BY <1>1, <2>2, WideParts
    <2>4. SameRows(up, last)
      BY <1>2, <2>3, MoveSame
    <2> QED
      BY <1>3, <2>1, <2>2, <2>4, SameRowsWide DEF u
  <1> QED
    BY <1>4, <1>5

LEMMA LineFeedWide ==
    ASSUME NEW t, Wide(t)
    PROVE  Wide(line_feed(t))
  <1> DEFINE one == unwrapped(t)
  <1>1. Good(t) /\ t \in Terminals /\ t.active = "primary"
    BY WideParts
  <1>2. Good(one) /\ SameRows(t, one)
    BY <1>1, UnwrappedCursor, UnwrappedSame DEF Cursor, Follows
  <1>3. line_feed(t) = move_down_or_scroll(one)
    BY DEF line_feed
  <1> HIDE DEF one
  <1>4. Wide(one)
    BY <1>2, SameRowsWide
  <1> QED
    BY <1>3, <1>4, MoveDownWide

(* A row on the way: of the cells H nothing is known, nothing depends on   *)
(* them, the others have their pairs.                                      *)
Loose(cells, H) ==
    \A c \in DOMAIN cells \ H :
      /\ cells[c].w = 2 => c + 1 \in DOMAIN cells \ H /\ cells[c + 1].w = 0
      /\ cells[c].w = 0 => c - 1 \in DOMAIN cells \ H /\ cells[c - 1].w = 2

LEMMA PairedIsLoose ==
    ASSUME NEW cells, Paired(cells)
    PROVE  Loose(cells, {})
  BY DEF Paired, Loose

LEMMA LoosePut ==
    ASSUME NEW cells \in Seq(Cells), NEW H, Loose(cells, H), NEW k \in H, NEW x
    PROVE  Loose([cells EXCEPT ![k] = x], H)
  <1> DEFINE next == [cells EXCEPT ![k] = x]
  <1>1. DOMAIN next = DOMAIN cells /\ \A c \in DOMAIN cells \ H : next[c] = cells[c]
    OBVIOUS
  <1> HIDE DEF next
  <1>2. Loose(next, H)
    BY <1>1 DEF Loose
  <1> QED
    BY <1>2 DEF next

(* Cell k gives up its pair.                                               *)
LEMMA LooseClear ==
    ASSUME NEW cells \in Seq(Cells), NEW H, Loose(cells, H), NEW k \in DOMAIN cells, k \notin H,
           NEW x, x.w = 1
    PROVE  /\ cells[k].w = 1 => Loose(cells, H \cup {k})
           /\ cells[k].w = 2 => /\ k + 1 \in DOMAIN cells /\ cells[k + 1].w = 0
                                /\ Loose([cells EXCEPT ![k + 1] = x], H \cup {k})
           /\ cells[k].w = 0 => /\ k - 1 \in DOMAIN cells /\ cells[k - 1].w = 2
                                /\ Loose([cells EXCEPT ![k - 1] = x], H \cup {k})
  <1> DEFINE n == Len(cells)
  <1>1. DOMAIN cells = 1..n /\ n \in Nat
    OBVIOUS
  <1>2. \A c \in (1..n) \ H :
          /\ cells[c].w = 2 => c + 1 \in (1..n) \ H /\ cells[c + 1].w = 0
          /\ cells[c].w = 0 => c - 1 \in (1..n) \ H /\ cells[c - 1].w = 2
    BY <1>1 DEF Loose
  <1> HIDE DEF n
  <1>3. k \in (1..n) \ H /\ k \in Nat
    BY <1>1
  <1>4. ASSUME cells[k].w = 1 PROVE Loose(cells, H \cup {k})
    <2>1. ASSUME NEW c \in (1..n) \ (H \cup {k})
          PROVE  /\ cells[c].w = 2 => c + 1 \in (1..n) \ (H \cup {k}) /\ cells[c + 1].w = 0
                 /\ cells[c].w = 0 => c - 1 \in (1..n) \ (H \cup {k}) /\ cells[c - 1].w = 2
      <3>1. cells[c].w = 2 => c + 1 \in (1..n) \ H /\ cells[c + 1].w = 0
        BY <1>2
      <3>2. cells[c].w = 0 => c - 1 \in (1..n) \ H /\ cells[c - 1].w = 2
        BY <1>2
      <3> QED
        BY <1>4, <3>1, <3>2
    <2> QED
      BY <1>1, <2>1 DEF Loose
  <1>5. ASSUME NEW p \in (1..n) \ H, p # k,
               \A c \in (1..n) \ H : c + 1 = k /\ cells[c].w = 2 => c = p,
               \A c \in (1..n) \ H : c - 1 = k /\ cells[c].w = 0 => c = p,
               \A c \in (1..n) \ H : c + 1 = p /\ cells[c].w = 2 => c = k,
               \A c \in (1..n) \ H : c - 1 = p /\ cells[c].w = 0 => c = k
        PROVE  Loose([cells EXCEPT ![p] = x], H \cup {k})
    <2> DEFINE next == [cells EXCEPT ![p] = x]
    <2>1. DOMAIN next = 1..n /\ next[p] = x /\ \A c \in 1..n : c # p => next[c] = cells[c]
      BY <1>1, <1>5
    <2> HIDE DEF next
    <2>2. ASSUME NEW c \in (1..n) \ (H \cup {k})
          PROVE  /\ next[c].w = 2 => c + 1 \in (1..n) \ (H \cup {k}) /\ next[c + 1].w = 0
                 /\ next[c].w = 0 => c - 1 \in (1..n) \ (H \cup {k}) /\ next[c - 1].w = 2
      <3>1. CASE c = p
        BY <2>1, <3>1
      <3>2. CASE c # p
        <4>1. next[c] = cells[c] /\ c \in (1..n) \ H /\ c # k
          BY <2>1, <3>2
        <4>2. ASSUME cells[c].w = 2
              PROVE  c + 1 \in (1..n) \ (H \cup {k}) /\ next[c + 1].w = 0
          <5>1. c + 1 \in (1..n) \ H /\ cells[c + 1].w = 0
            BY <1>2, <4>1, <4>2
          <5>2. c + 1 # k /\ c + 1 # p
            BY <1>5, <3>2, <4>1, <4>2
          <5> QED
            BY <2>1, <5>1, <5>2
        <4>3. ASSUME cells[c].w = 0
              PROVE  c - 1 \in (1..n) \ (H \cup {k}) /\ next[c - 1].w = 2
          <5>1. c - 1 \in (1..n) \ H /\ cells[c - 1].w = 2
            BY <1>2, <4>1, <4>3
          <5>2. c - 1 # k /\ c - 1 # p
            BY <1>5, <3>2, <4>1, <4>3
          <5> QED
            BY <2>1, <5>1, <5>2
        <4> QED
          BY <4>1, <4>2, <4>3
      <3> QED
        BY <3>1, <3>2
    <2>3. Loose(next, H \cup {k})
      BY <2>1, <2>2 DEF Loose
    <2> QED
      BY <2>3 DEF next
  <1>6. ASSUME cells[k].w = 2
        PROVE  /\ k + 1 \in 1..n /\ cells[k + 1].w = 0
               /\ Loose([cells EXCEPT ![k + 1] = x], H \cup {k})
    <2>1. k + 1 \in (1..n) \ H /\ cells[k + 1].w = 0
      BY <1>2, <1>3, <1>6
    <2> DEFINE p == k + 1
    <2>2. p \in (1..n) \ H /\ p # k /\ cells[p].w = 0 /\ p = k + 1
      BY <1>3, <2>1
    <2> HIDE DEF p
    <2>3. \A c \in (1..n) \ H : c + 1 = k /\ cells[c].w = 2 => c = p
      BY <1>2, <1>6
    <2>4. \A c \in (1..n) \ H : c - 1 = k /\ cells[c].w = 0 => c = p
      BY <1>3, <2>2
    <2>5. \A c \in (1..n) \ H : c + 1 = p /\ cells[c].w = 2 => c = k
      BY <1>3, <2>2
    <2>6. \A c \in (1..n) \ H : c - 1 = p /\ cells[c].w = 0 => c = k
      BY <1>2, <2>2
    <2>7. Loose([cells EXCEPT ![p] = x], H \cup {k})
      BY <1>5, <2>2, <2>3, <2>4, <2>5, <2>6
    <2> QED
      BY <2>1, <2>7 DEF p
  <1>7. ASSUME cells[k].w = 0
        PROVE  /\ k - 1 \in 1..n /\ cells[k - 1].w = 2
               /\ Loose([cells EXCEPT ![k - 1] = x], H \cup {k})
    <2>1. k - 1 \in (1..n) \ H /\ cells[k - 1].w = 2
      BY <1>2, <1>3, <1>7
    <2> DEFINE p == k - 1
    <2>2. p \in (1..n) \ H /\ p # k /\ cells[p].w = 2 /\ p = k - 1
      BY <1>3, <2>1
    <2> HIDE DEF p
    <2>3. \A c \in (1..n) \ H : c + 1 = k /\ cells[c].w = 2 => c = p
      BY <1>3, <2>2
    <2>4. \A c \in (1..n) \ H : c - 1 = k /\ cells[c].w = 0 => c = p
      BY <1>2, <1>7
    <2>5. \A c \in (1..n) \ H : c + 1 = p /\ cells[c].w = 2 => c = k
      BY <1>2, <2>2
    <2>6. \A c \in (1..n) \ H : c - 1 = p /\ cells[c].w = 0 => c = k
      BY <1>3, <2>2
    <2>7. Loose([cells EXCEPT ![p] = x], H \cup {k})
      BY <1>5, <2>2, <2>3, <2>4, <2>5, <2>6
    <2> QED
      BY <2>1, <2>7 DEF p
  <1> QED
    BY <1>1, <1>4, <1>6, <1>7

(* The cells H filled with a narrow cell or a pair of their own.           *)
LEMMA LooseFilled ==
    ASSUME NEW cells \in Seq(Cells), NEW k \in DOMAIN cells
    PROVE  /\ Loose(cells, {k}) /\ cells[k].w = 1 => Paired(cells)
           /\ (/\ Loose(cells, {k, k + 1}) /\ k + 1 \in DOMAIN cells
               /\ cells[k].w = 2 /\ cells[k + 1].w = 0) => Paired(cells)
  <1>1. k \in Nat
    OBVIOUS
  <1>2. ASSUME Loose(cells, {k}), cells[k].w = 1 PROVE Paired(cells)
    BY <1>2 DEF Loose, Paired
  <1>3. ASSUME Loose(cells, {k, k + 1}), k + 1 \in DOMAIN cells,
               cells[k].w = 2, cells[k + 1].w = 0
        PROVE  Paired(cells)
    <2>1. (k + 1) - 1 = k
      BY <1>1
    <2>2. ASSUME NEW c \in DOMAIN cells
          PROVE  /\ cells[c].w = 2 => c + 1 \in DOMAIN cells /\ cells[c + 1].w = 0
                 /\ cells[c].w = 0 => c - 1 \in DOMAIN cells /\ cells[c - 1].w = 2
      <3>1. CASE c = k
        BY <1>3, <3>1
      <3>2. CASE c = k + 1
        BY <1>3, <2>1, <3>2
      <3>3. CASE c \notin {k, k + 1}
        BY <1>3, <3>3 DEF Loose
      <3> QED
        BY <3>1, <3>2, <3>3
    <2> QED
      BY <2>2 DEF Paired
  <1> QED
    BY <1>2, <1>3

RowCells(t, r) == t.primary.rows[r + 1].cells

(* A state on the way of a print: the row r is loose.                      *)
Holed(t, r, H) ==
    /\ Good(t) /\ t.active = "primary" /\ r \in Nat /\ r < Rows(t)
    /\ AllPaired(t.scrollback.rows)
    /\ \A i \in DOMAIN t.primary.rows : i # r + 1 => Paired(t.primary.rows[i].cells)
    /\ Loose(RowCells(t, r), H)

LEMMA RowParts2 ==
    ASSUME NEW t, Good(t), t.active = "primary", NEW r \in Nat, r < Rows(t)
    PROVE  /\ r + 1 \in DOMAIN t.primary.rows /\ t.primary.rows[r + 1] \in RowSet
           /\ RowCells(t, r) \in Seq(Cells) /\ DOMAIN RowCells(t, r) = 1..Columns(t)
           /\ Len(RowCells(t, r)) = Columns(t) /\ Columns(t) \in Nat \ {0}
           /\ t \in Terminals /\ Active(t) = t.primary /\ t.primary \in ScreenSet
           /\ ~t.panicked
  <1> DEFINE s == t.primary
             row == s.rows[r + 1]
  <1>1. /\ s \in ScreenSet /\ ScreenFits(s, t.dims) /\ Active(t) = s /\ t \in Terminals
        /\ Rows(t) \in Nat \ {0} /\ Columns(t) \in Nat \ {0} /\ ~t.panicked
    BY GoodParts DEF Good
  <1>2. s.rows \in Seq(RowSet) /\ DOMAIN s.rows = 1..Len(s.rows) /\ Len(s.rows) = Rows(t)
        /\ \A i \in DOMAIN s.rows : s.rows[i] \in RowSet /\ Len(s.rows[i].cells) = Columns(t)
    BY <1>1, ScreenParts DEF ScreenFits, Sized, Rows, Columns
  <1>3. r + 1 \in DOMAIN s.rows
    BY <1>1, <1>2
  <1>4. row \in RowSet /\ Len(row.cells) = Columns(t)
    BY <1>2, <1>3
  <1>5. row.cells \in Seq(Cells)
    BY <1>4, RowParts
  <1> HIDE DEF row
  <1>6. DOMAIN row.cells = 1..Columns(t)
    BY <1>4, <1>5
  <1> QED
    BY <1>1, <1>3, <1>4, <1>5, <1>6 DEF row, RowCells

(* u is t with the cell (r, c) written.                                    *)
PutAt(t, u, r, c, cell) ==
    /\ u.active = t.active /\ u.dims = t.dims /\ u.scrollback = t.scrollback
    /\ DOMAIN u.primary.rows = DOMAIN t.primary.rows
    /\ \A i \in DOMAIN t.primary.rows : i # r + 1 => u.primary.rows[i] = t.primary.rows[i]
    /\ RowCells(u, r) = [RowCells(t, r) EXCEPT ![c + 1] = cell]

LEMMA PutCellAt ==
    ASSUME NEW t, Good(t), t.active = "primary", NEW r \in Nat, r < Rows(t), NEW c, NEW cell
    PROVE  PutAt(t, Update(t, PutCell(Active(t), r, c, cell)), r, c, cell)
  <1> DEFINE s == t.primary
             k == r + 1
             rows == [s.rows EXCEPT ![k].cells[c + 1] = cell]
             u == Update(t, PutCell(Active(t), r, c, cell))
  <1>1. /\ k \in DOMAIN s.rows /\ s.rows[k] \in RowSet
        /\ t \in Terminals /\ Active(t) = s /\ s \in ScreenSet
    BY RowParts2
  <1>2. u = [t EXCEPT !.primary = [s EXCEPT !.rows = rows]]
    BY <1>1 DEF Update, PutCell
  <1>3. /\ DOMAIN rows = DOMAIN s.rows /\ \A i \in DOMAIN s.rows : i # k => rows[i] = s.rows[i]
        /\ rows[k].cells = [s.rows[k].cells EXCEPT ![c + 1] = cell]
    <2> DEFINE old == s.rows[k]
               row == [old EXCEPT !.cells[c + 1] = cell]
    <2>1. rows = [s.rows EXCEPT ![k] = row]
      BY <1>1
    <2>2. old \in RowSet
      BY <1>1
    <2> HIDE DEF old
    <2>3. row.cells = [old.cells EXCEPT ![c + 1] = cell]
      BY <2>2 DEF RowSet
    <2> HIDE DEF row, rows
    <2>4. DOMAIN rows = DOMAIN s.rows /\ rows[k] = row
          /\ \A i \in DOMAIN s.rows : i # k => rows[i] = s.rows[i]
      BY <1>1, <2>1
    <2> QED
      BY <2>3, <2>4 DEF old
  <1> HIDE DEF rows, u
  <1>4. /\ u.active = t.active /\ u.dims = t.dims /\ u.scrollback = t.scrollback
        /\ u.primary.rows = rows
    <2> DEFINE p == [s EXCEPT !.rows = rows]
    <2>1. p.rows = rows
      BY <1>1 DEF ScreenSet
    <2>2. u = [t EXCEPT !.primary = p]
      BY <1>2
    <2> HIDE DEF p
    <2> QED
      BY <1>1, <2>1, <2>2 DEF Terminals
  <1>5. PutAt(t, u, r, c, cell)
    BY <1>3, <1>4 DEF PutAt, RowCells
  <1> QED
    BY <1>5 DEF u

(* Writing a cell nothing depends on.                                      *)
LEMMA PutHoled ==
    ASSUME NEW t, NEW r, NEW H, Holed(t, r, H), NEW c \in Nat, c < Columns(t), c + 1 \in H,
           NEW cell \in Cells
    PROVE  LET u == put(t, r, c, cell) IN
           Holed(u, r, H) /\ PutAt(t, u, r, c, cell)
  <1> DEFINE u == put(t, r, c, cell)
  <1>1. Good(t) /\ t.active = "primary" /\ r \in Nat /\ r < Rows(t) /\ Loose(RowCells(t, r), H)
    BY DEF Holed
  <1>2. Has(Active(t), r, c)
    BY <1>1, PrimaryHas
  <1>3. u = Update(t, PutCell(Active(t), r, c, cell))
    BY <1>2 DEF put
  <1>4. PutAt(t, u, r, c, cell)
    BY <1>1, <1>3, PutCellAt
  <1>5. Good(u) /\ Rows(u) = Rows(t)
    BY <1>1, PutEdits, EditsParts
  <1>6. RowCells(t, r) \in Seq(Cells)
    BY <1>1, RowParts2
  <1> HIDE DEF u
  <1>7. Loose(RowCells(u, r), H)
    <2> DEFINE cells == RowCells(t, r)
               k == c + 1
    <2>1. cells \in Seq(Cells) /\ Loose(cells, H) /\ k \in H
      BY <1>1, <1>6
    <2>2. RowCells(u, r) = [cells EXCEPT ![k] = cell]
      BY <1>4 DEF PutAt
    <2> HIDE DEF cells, k
    <2>3. Loose([cells EXCEPT ![k] = cell], H)
      BY <2>1, LoosePut
    <2> QED
      BY <2>2, <2>3
  <1>8. Holed(u, r, H)
    BY <1>1, <1>4, <1>5, <1>7 DEF Holed, PutAt
  <1> QED
    BY <1>4, <1>8 DEF u

LEMMA HoledMark ==
    ASSUME NEW t, NEW r, NEW H, Holed(t, r, H), NEW R, Good(mark(t, R))
    PROVE  Holed(mark(t, R), r, H)
  <1> DEFINE u == mark(t, R)
  <1>1. t \in Terminals
    BY GoodParts DEF Holed
  <1>2. SameRows(t, u)
    BY <1>1, MarkSame
  <1> HIDE DEF u
  <1>3. Good(u)
    BY DEF u
  <1>4. Holed(u, r, H)
    BY <1>2, <1>3 DEF Holed, SameRows, RowCells, Rows
  <1> QED
    BY <1>4 DEF u

(* The cell (r, c) gives up its pair.                                      *)
LEMMA PartnerHoled ==
    ASSUME NEW t, NEW r, NEW H, Holed(t, r, H), NEW c \in Nat, c < Columns(t), c + 1 \notin H
    PROVE  Holed(clear_wide_partner_at(t, r, c), r, H \cup {c + 1})
  <1> DEFINE s == Active(t)
             k == c + 1
             cells == RowCells(t, r)
             w == CellAt(s, r, c).w
             partner == IF w > 1 THEN c + 1 ELSE c - 1
             pairs == IF w > 1 THEN c + 1 < Columns(t) ELSE w = 0 /\ c > 0
             other == CellAt(s, r, partner)
             blank == Cell(1, 0, other.bg)
             put1 == Update(t, PutCell(s, r, partner, blank))
             u == clear_wide_partner_at(t, r, c)
  <1>1. Good(t) /\ t.active = "primary" /\ r \in Nat /\ r < Rows(t) /\ Loose(cells, H)
    BY DEF Holed
  <1>2. /\ cells \in Seq(Cells) /\ DOMAIN cells = 1..Columns(t) /\ Columns(t) \in Nat \ {0}
        /\ s = t.primary /\ s \in ScreenSet /\ Rows(t) \in Nat \ {0}
    BY <1>1, RowParts2, GoodParts
  <1>3. Has(s, r, c) /\ k \in DOMAIN cells /\ k \notin H /\ k \in Nat
    BY <1>1, <1>2, PrimaryHas
  <1>4. w = cells[k].w /\ w \in 0..2
    <2>1. CellAt(s, r, c) = cells[k]
      BY <1>2 DEF CellAt, RowCells
    <2>2. CellAt(s, r, c).w \in 0..2
      BY <1>1, <1>2, <1>3, CellParts
    <2> QED
      BY <2>1, <2>2
  <1>5. Good(u)
    BY <1>1, PartnerEdits, EditsParts
  <1>6. ASSUME NEW p \in Nat, p < Columns(t), NEW bg,
               Loose([cells EXCEPT ![p + 1] = Cell(1, 0, bg)], H \cup {k}),
               u = mark(Update(t, PutCell(s, r, p, Cell(1, 0, bg))), {r}), bg \in BOOLEAN
        PROVE  Holed(u, r, H \cup {k})
    <2> DEFINE v == Update(t, PutCell(s, r, p, Cell(1, 0, bg)))
    <2>1. PutAt(t, v, r, p, Cell(1, 0, bg))
      BY <1>1, PutCellAt
    <2>2. Good(v) /\ Rows(v) = Rows(t)
      <3>1. Has(s, r, p)
        BY <1>1, <1>6, PrimaryHas
      <3>2. Cell(1, 0, bg) \in Cells
        BY <1>6 DEF Cell, Cells
      <3> QED
        BY <1>1, <1>6, <3>1, <3>2, PutCellEdits, EditsParts
    <2>3. u = mark(v, {r})
      BY <1>6
    <2> HIDE DEF v, u, cells, s
    <2>4. Holed(v, r, H \cup {k})
      BY <1>1, <1>6, <2>1, <2>2 DEF Holed, PutAt, cells
    <2> QED
      BY <1>5, <2>3, <2>4, HoledMark
  <1>7. CASE w = 1
    <2>1. ~pairs
      BY <1>7
    <2>2. u = t
      BY <1>1, <1>2, <1>3, <2>1 DEF clear_wide_partner_at
    <2> HIDE DEF cells, u
    <2>3. Loose(cells, H \cup {k})
      <3>1. Cell(1, 0, FALSE).w = 1
        BY DEF Cell
      <3> QED
        BY <1>1, <1>2, <1>3, <1>4, <1>7, <3>1, LooseClear
    <2> QED
      BY <2>2, <2>3 DEF Holed, cells, u
  <1>8. CASE w = 2
    <2>1. /\ k + 1 \in DOMAIN cells /\ cells[k + 1].w = 0
          /\ \A bg : Loose([cells EXCEPT ![k + 1] = Cell(1, 0, bg)], H \cup {k})
      <3>1. \A bg : Cell(1, 0, bg).w = 1
        BY DEF Cell
      <3> HIDE DEF cells
      <3> QED
        BY <1>1, <1>2, <1>3, <1>4, <1>8, <3>1, LooseClear
    <2>2. partner = k /\ k < Columns(t) /\ pairs
      BY <1>2, <1>3, <1>8, <2>1
    <2>3. other.w = 0 /\ Has(s, r, partner)
      <3>1. CellAt(s, r, k) = cells[k + 1]
        BY <1>2 DEF CellAt, RowCells
      <3>2. Has(s, r, k)
        BY <1>1, <1>3, <2>2, PrimaryHas
      <3> QED
        BY <2>1, <2>2, <3>1, <3>2
    <2>4. u = mark(put1, {r})
      BY <1>1, <1>2, <1>3, <1>8, <2>2, <2>3 DEF clear_wide_partner_at
    <2>5. other.bg \in BOOLEAN
      BY <1>1, <1>2, <1>3, <2>2, <2>3, CellParts
    <2>6. u = mark(Update(t, PutCell(s, r, k, Cell(1, 0, other.bg))), {r})
      BY <2>2, <2>4
    <2> HIDE DEF u, other, partner, w, pairs, cells
    <2> QED
      BY <1>3, <1>6, <2>1, <2>2, <2>5, <2>6 DEF u
  <1>9. CASE w = 0
    <2>1. /\ k - 1 \in DOMAIN cells /\ cells[k - 1].w = 2
          /\ \A bg : Loose([cells EXCEPT ![k - 1] = Cell(1, 0, bg)], H \cup {k})
      <3>1. ASSUME NEW bg
            PROVE  /\ k - 1 \in DOMAIN cells /\ cells[k - 1].w = 2
                   /\ Loose([cells EXCEPT ![k - 1] = Cell(1, 0, bg)], H \cup {k})
        <4> DEFINE x == Cell(1, 0, bg)
        <4>1. x.w = 1
          BY DEF Cell
        <4>2. cells[k].w = 0
          BY <1>4, <1>9
        <4> HIDE DEF cells, k, x
        <4>3. /\ k - 1 \in DOMAIN cells /\ cells[k - 1].w = 2
              /\ Loose([cells EXCEPT ![k - 1] = x], H \cup {k})
          BY <1>1, <1>2, <1>3, <4>1, <4>2, LooseClear
        <4> QED
          BY <4>3 DEF x
      <3> QED
        BY <3>1
    <2>2. partner = c - 1 /\ c - 1 \in Nat /\ c - 1 < Columns(t) /\ pairs
          /\ (c - 1) + 1 = k - 1 /\ c > 0
      BY <1>2, <1>3, <1>9, <2>1
    <2>3. other.w = 2 /\ Has(s, r, partner)
      <3>1. CellAt(s, r, c - 1) = cells[(c - 1) + 1]
        BY <1>2 DEF CellAt, RowCells
      <3>2. Has(s, r, c - 1)
        BY <1>1, <2>2, PrimaryHas
      <3> QED
        BY <2>1, <2>2, <3>1, <3>2
    <2>4. u = mark(put1, {r})
      BY <1>1, <1>2, <1>3, <1>9, <2>2, <2>3 DEF clear_wide_partner_at
    <2>5. other.bg \in BOOLEAN
      BY <1>1, <1>2, <2>2, <2>3, CellParts
    <2>6. u = mark(Update(t, PutCell(s, r, c - 1, Cell(1, 0, other.bg))), {r})
      BY <2>2, <2>4
    <2> DEFINE p == c - 1
    <2>7. p \in Nat /\ p < Columns(t) /\ p + 1 = k - 1
          /\ u = mark(Update(t, PutCell(s, r, p, Cell(1, 0, other.bg))), {r})
      BY <2>2, <2>6
    <2> HIDE DEF u, other, partner, w, pairs, cells, p
    <2> QED
      BY <1>6, <2>1, <2>5, <2>7 DEF u
  <1>10. w \in {0, 1, 2}
    <2> HIDE DEF w
    <2> QED
      BY <1>4
  <1> QED
    BY <1>7, <1>8, <1>9, <1>10

(* A loose row without holes is a paired one.                              *)
LEMMA HoledIsWide ==
    ASSUME NEW t, NEW r, NEW H, Holed(t, r, H), Paired(RowCells(t, r))
    PROVE  Wide(t)
  <1>1. \A i \in DOMAIN t.primary.rows : Paired(t.primary.rows[i].cells)
    BY DEF Holed, RowCells
  <1> QED
    BY <1>1 DEF Holed, Wide, WideRows, AllPaired

LEMMA WideIsHoled ==
    ASSUME NEW t, Wide(t), NEW r \in Nat, r < Rows(t)
    PROVE  Holed(t, r, {})
  <1>1. Good(t) /\ t.active = "primary" /\ AllPaired(t.scrollback.rows)
        /\ AllPaired(t.primary.rows)
    BY WideParts
  <1>2. r + 1 \in DOMAIN t.primary.rows
    BY <1>1, RowParts2
  <1>3. Loose(RowCells(t, r), {})
    BY <1>1, <1>2, PairedIsLoose DEF AllPaired, RowCells
  <1> QED
    BY <1>1, <1>3 DEF Holed, AllPaired

LEMMA WrapPendingWide ==
    ASSUME NEW t, Wide(t)
    PROVE  LET u == wrap_pending(t) IN
           Wide(u) /\ Active(u).col = 0
  <1> DEFINE s == Active(t)
             k == s.row + 1
             marked == mark(Update(t, Flagged(s)), {s.row})
             next == move_down_or_scroll(marked)
             last == move_to(next, Active(next).row, 0)
             u == wrap_pending(t)
  <1>1. /\ Good(t) /\ t \in Terminals /\ t.active = "primary" /\ s = t.primary
        /\ s \in ScreenSet /\ AllPaired(t.scrollback.rows) /\ AllPaired(s.rows)
    BY WideParts
  <1>2. k \in DOMAIN s.rows
    <2>1. s.row \in Nat /\ s.row < Rows(t)
      BY <1>1, CursorOnScreen
    <2> QED
      BY <1>1, <2>1, RowParts2
  <1>3. u = last
    BY <1>2 DEF wrap_pending, Flagged
  <1>4. /\ Carries(t, marked) /\ Active(marked) = Flagged(s)
        /\ DOMAIN Flagged(s).rows = DOMAIN s.rows
        /\ \A i \in DOMAIN s.rows : Flagged(s).rows[i].cells = s.rows[i].cells
    BY <1>1, <1>2, FlaggedCarries
  <1>5. Good(marked) /\ marked.active = "primary"
    BY <1>1, <1>4, CarriesParts
  <1>6. marked.scrollback = t.scrollback
    <2> DEFINE f == Flagged(s)
               v == Update(t, f)
    <2>1. v = [t EXCEPT !.primary = f]
      BY <1>1 DEF Update
    <2> HIDE DEF f
    <2>2. v.scrollback = t.scrollback /\ marked = [v EXCEPT !.damage = v.damage \cup {s.row}]
          /\ DOMAIN v = DOMAIN t
      BY <1>1, <2>1 DEF Terminals, mark, f
    <2> HIDE DEF v, marked
    <2>3. "scrollback" \in DOMAIN v
      BY <1>1, <2>2 DEF Terminals
    <2> QED
      BY <2>2, <2>3
  <1> HIDE DEF marked
  <1>7. Wide(marked)
    <2>1. AllPaired(Flagged(s).rows)
      BY <1>1, <1>4 DEF AllPaired
    <2>2. marked.primary = Flagged(s)
      BY <1>4, <1>5, GoodParts
    <2> HIDE DEF s
    <2> QED
      BY <1>1, <1>5, <1>6, <2>1, <2>2 DEF Wide, WideRows
  <1>8. Wide(next)
    BY <1>7, MoveDownWide
  <1> HIDE DEF next, s
  <1>9. Good(next) /\ next \in Terminals /\ next.active = "primary" /\ Active(next).row \in Nat
    BY <1>8, WideParts, CursorOnScreen
  <1>10. SameRows(next, last) /\ Active(last).col = 0
    <2>1. /\ SameRows(next, last)
      BY <1>9, MoveSame
    <2>2. Active(next) \in ScreenSet
      BY <1>9, ActiveType
    <2> DEFINE n == Active(next)
               moved == set_cursor(n, n.row, 0)
    <2>3. moved \in ScreenSet /\ moved.col = 0
      BY <1>9, <2>2 DEF set_cursor, ScreenSet
    <2>4. last = Update(next, moved)
      BY DEF move_to
    <2> HIDE DEF moved, n, last
    <2>5. Active(last) = moved
      BY <1>9, <2>3, <2>4, UpdateParts
    <2> QED
      BY <2>1, <2>3, <2>5
  <1>11. Good(u)
    BY <1>1, WrapPendingCarries, CarriesParts
  <1> HIDE DEF last, u
  <1>12. Wide(u) /\ Active(u).col = 0
    BY <1>3, <1>8, <1>10, <1>11, SameRowsWide
  <1> QED
    BY <1>12 DEF u

LEMMA WithWrapSame ==
    ASSUME NEW t \in Terminals, t.active = "primary", NEW w \in BOOLEAN, NEW R
    PROVE  SameRows(t, mark(WithWrap(t, w), R))
  <1> DEFINE s == [Active(t) EXCEPT !.wrap = w]
             one == WithWrap(t, w)
  <1>1. t.primary \in ScreenSet /\ Active(t) = t.primary
    BY TerminalParts DEF Active
  <1>2. s \in ScreenSet /\ s.rows = t.primary.rows
    BY <1>1 DEF ScreenSet
  <1>3. one = Update(t, s)
    BY DEF WithWrap
  <1> HIDE DEF s, one
  <1>4. SameRows(t, one) /\ one \in Terminals
    BY <1>2, <1>3, UpdateSame, UpdateParts
  <1>5. SameRows(one, mark(one, R))
    BY <1>4, MarkSame
  <1>6. SameRows(t, mark(one, R))
    BY <1>4, <1>5, SameRowsTwice
  <1> QED
    BY <1>6 DEF one

(* A cell cleared and written: a narrow one.                               *)
LEMMA NarrowWritten ==
    ASSUME NEW t, Wide(t), NEW r \in Nat, r < Rows(t), NEW c \in Nat, c < Columns(t),
           NEW cell \in Cells, cell.w = 1
    PROVE  LET cleared == clear_wide_partner_at(t, r, c) IN
           Wide(put(cleared, r, c, cell))
  <1> DEFINE cleared == clear_wide_partner_at(t, r, c)
             u == put(cleared, r, c, cell)
             k == c + 1
  <1>1. Holed(t, r, {}) /\ Good(t)
    BY WideIsHoled, WideParts
  <1>2. Holed(cleared, r, {k})
    <2>1. {} \cup {k} = {k} /\ k \notin {}
      OBVIOUS
    <2> QED
      BY <1>1, <2>1, PartnerHoled
  <1>3. Columns(cleared) = Columns(t)
    BY <1>1, PartnerEdits, EditsParts
  <1>4. Good(cleared) /\ cleared.active = "primary" /\ r < Rows(cleared)
    BY <1>2 DEF Holed
  <1>5. RowCells(cleared, r) \in Seq(Cells) /\ DOMAIN RowCells(cleared, r) = 1..Columns(t)
        /\ Columns(t) \in Nat
    BY <1>3, <1>4, RowParts2
  <1> HIDE DEF cleared
  <1>6. k \in {k} /\ k \in 1..Columns(t)
    BY <1>5
  <1>7. Holed(u, r, {k}) /\ PutAt(cleared, u, r, c, cell)
    BY <1>2, <1>3, <1>6, PutHoled
  <1> HIDE DEF u
  <1>8. RowCells(u, r)[k] = cell /\ k \in DOMAIN RowCells(u, r)
    BY <1>5, <1>6, <1>7 DEF PutAt
  <1>9. RowCells(u, r) \in Seq(Cells) /\ Loose(RowCells(u, r), {k})
    <2>1. Good(u) /\ u.active = "primary" /\ r < Rows(u) /\ Loose(RowCells(u, r), {k})
      BY <1>7 DEF Holed
    <2> QED
      BY <2>1, RowParts2
  <1>10. Paired(RowCells(u, r))
    <2> HIDE DEF k
    <2> QED
      BY <1>8, <1>9, LooseFilled
  <1>11. Wide(u)
    BY <1>7, <1>10, HoledIsWide
  <1> QED
    BY <1>11 DEF u, cleared

(* Both cells of a wide character.                                         *)
LEMMA PairWritten ==
    ASSUME NEW t, Wide(t), NEW r \in Nat, r < Rows(t), NEW c \in Nat, c + 1 < Columns(t),
           NEW cell \in Cells, cell.w = 2, NEW spacer \in Cells, spacer.w = 0
    PROVE  LET one == clear_wide_partner_at(t, r, c)
               two == clear_wide_partner_at(one, r, c + 1)
               lead == put(two, r, c, cell)
           IN
           /\ Good(one) /\ Good(two) /\ Good(lead)
           /\ one.active = "primary" /\ two.active = "primary" /\ lead.active = "primary"
           /\ Wide(put(lead, r, c + 1, spacer))
  <1> DEFINE one == clear_wide_partner_at(t, r, c)
             two == clear_wide_partner_at(one, r, c + 1)
             lead == put(two, r, c, cell)
             u == put(lead, r, c + 1, spacer)
             k == c + 1
             H == {k, k + 1}
  <1>1. Holed(t, r, {}) /\ Good(t) /\ Columns(t) \in Nat
    BY WideIsHoled, WideParts
  <1>2. Holed(one, r, {k}) /\ Good(one)
    <2>1. {} \cup {k} = {k} /\ k \notin {} /\ c < Columns(t)
      BY <1>1
    <2>2. Holed(one, r, {k})
      BY <1>1, <2>1, PartnerHoled
    <2> QED
      BY <2>2 DEF Holed
  <1>3. Columns(one) = Columns(t)
    BY <1>1, PartnerEdits, EditsParts
  <1> HIDE DEF one
  <1>4. Holed(two, r, H) /\ Good(two)
    <2>1. {k} \cup {k + 1} = H /\ (c + 1) + 1 \notin {k} /\ c + 1 \in Nat /\ (c + 1) + 1 = k + 1
      OBVIOUS
    <2>2. Holed(two, r, {k} \cup {(c + 1) + 1})
      BY <1>2, <1>3, <2>1, PartnerHoled
    <2> QED
      BY <2>1, <2>2 DEF Holed
  <1>5. Columns(two) = Columns(t)
    <2>1. c + 1 \in Nat
      OBVIOUS
    <2> QED
      BY <1>2, <1>3, <2>1, PartnerEdits, EditsParts
  <1> HIDE DEF two
  <1>6. Holed(lead, r, H) /\ PutAt(two, lead, r, c, cell)
    <2>1. c + 1 \in H /\ c < Columns(two)
      BY <1>1, <1>5
    <2> HIDE DEF H
    <2> QED
      BY <1>4, <2>1, PutHoled
  <1>7. Columns(lead) = Columns(t)
    BY <1>5, <1>6 DEF PutAt, Columns
  <1> HIDE DEF lead
  <1>8. Holed(u, r, H) /\ PutAt(lead, u, r, c + 1, spacer)
    <2>1. (c + 1) + 1 \in H /\ c + 1 < Columns(lead) /\ c + 1 \in Nat
      BY <1>7
    <2> HIDE DEF H
    <2> QED
      BY <1>6, <2>1, PutHoled
  <1> HIDE DEF u
  <1>9. /\ Good(two) /\ two.active = "primary" /\ r < Rows(two)
        /\ Good(lead) /\ lead.active = "primary" /\ r < Rows(lead)
        /\ Good(u) /\ u.active = "primary" /\ r < Rows(u) /\ Loose(RowCells(u, r), H)
        /\ one.active = "primary"
    BY <1>2, <1>4, <1>6, <1>8 DEF Holed
  <1>10. /\ DOMAIN RowCells(two, r) = 1..Columns(t)
         /\ DOMAIN RowCells(lead, r) = 1..Columns(t)
         /\ RowCells(u, r) \in Seq(Cells)
    BY <1>5, <1>7, <1>9, RowParts2
  <1>11. /\ k \in 1..Columns(t) /\ k + 1 \in 1..Columns(t) /\ k # k + 1 /\ (c + 1) + 1 = k + 1
    BY <1>1
  <1>12. RowCells(lead, r)[k] = cell
    BY <1>6, <1>10, <1>11 DEF PutAt
  <1>13. RowCells(u, r) = [RowCells(lead, r) EXCEPT ![k + 1] = spacer]
    BY <1>8, <1>11 DEF PutAt
  <1>14. /\ RowCells(u, r)[k] = cell /\ RowCells(u, r)[k + 1] = spacer
         /\ k \in DOMAIN RowCells(u, r) /\ k + 1 \in DOMAIN RowCells(u, r)
    <2> HIDE DEF k
    <2> QED
      BY <1>10, <1>11, <1>12, <1>13
  <1>15. Paired(RowCells(u, r))
    <2> HIDE DEF k
    <2> QED
      BY <1>9, <1>10, <1>14, LooseFilled
  <1>16. Wide(u)
    BY <1>8, <1>15, HoledIsWide
  <1> QED
    BY <1>2, <1>4, <1>9, <1>16 DEF u, lead, two, one

LEMMA WrapWideWide ==
    ASSUME NEW t, Wide(t), Active(t).col = Columns(t) - 1
    PROVE  LET u == wrap_wide(t) IN
           Wide(u) /\ Active(u).col = 0
  <1> DEFINE s == Active(t)
             cell == Cell(1, 0, t.shade)
             cleared == clear_wide_partner_at(t, s.row, s.col)
             spaced == put(cleared, s.row, s.col, cell)
             w == TRUE
             marked == mark(WithWrap(spaced, w), {s.row})
             u == wrap_wide(t)
  <1>1. Good(t) /\ t \in Terminals /\ t.active = "primary" /\ t.shade \in BOOLEAN
    BY WideParts, TerminalParts
  <1>2. s.row \in Nat /\ s.row < Rows(t) /\ s.col \in Nat /\ s.col < Columns(t)
    BY <1>1, CursorOnScreen
  <1>3. cell \in Cells /\ cell.w = 1
    BY <1>1 DEF Cell, Cells
  <1>4. u = IF cleared.panicked \/ spaced.panicked THEN Panicked(t) ELSE wrap_pending(marked)
    BY DEF wrap_wide, WithWrap
  <1>5. w \in BOOLEAN
    OBVIOUS
  <1> HIDE DEF w, cell, u, marked
  <1>6. Wide(spaced)
    BY <1>2, <1>3, NarrowWritten
  <1>7. Edits(t, cleared, {s.row})
    BY <1>1, <1>2, PartnerEdits
  <1>8. /\ Good(cleared) /\ cleared.active = t.active
        /\ Rows(cleared) = Rows(t) /\ Columns(cleared) = Columns(t)
    BY <1>1, <1>7, EditsParts
  <1> HIDE DEF cleared
  <1>9. Edits(cleared, spaced, {s.row})
    BY <1>2, <1>3, <1>8, PutEdits
  <1>10. /\ Good(spaced) /\ spaced.active = t.active
         /\ Columns(spaced) = Columns(t) /\ Active(spaced).col = s.col
    <2>1. Edits(t, spaced, {s.row})
      BY <1>1, <1>7, <1>9, EditsTwice
    <2> HIDE DEF spaced, s
    <2> QED
      BY <1>1, <2>1, EditsParts DEF s
  <1> HIDE DEF spaced
  <1>11. ~cleared.panicked /\ ~spaced.panicked
    BY <1>1, <1>8, <1>10 DEF Good
  <1>12. Follows(spaced, WithWrap(spaced, w), {}) /\ WithWrap(spaced, w).active = spaced.active
    BY <1>5, <1>10, WithWrapFollows
  <1>13. Good(marked)
    <2>1. {s.row} \in SUBSET Nat
      BY <1>2
    <2>2. Carries(spaced, WithWrap(spaced, w))
      BY <1>12 DEF Carries
    <2>3. Carries(spaced, marked)
      BY <2>1, <2>2, CarriesMark DEF marked
    <2> QED
      BY <1>10, <2>3, CarriesParts
  <1>14. SameRows(spaced, marked)
    BY <1>5, <1>6, WideParts, WithWrapSame DEF marked
  <1>15. Wide(marked)
    BY <1>6, <1>13, <1>14, SameRowsWide
  <1>16. u = wrap_pending(marked)
    BY <1>4, <1>11
  <1> QED
    BY <1>15, <1>16, WrapPendingWide DEF u

(* A character at a cursor where it fits.                                  *)
LEMMA PrintCellWide ==
    ASSUME NEW t, Wide(t), ~Active(t).wrap, NEW glyph, glyph.ink \in Nat, NEW w \in 1..2,
           Active(t).col + w <= Columns(t)
    PROVE  Wide(print_cell(t, glyph, w))
  <1> DEFINE s == Active(t)
             r == s.row
             c == s.col
             cell == Cell(w, glyph.ink, t.shade)
             spacer == Cell(0, 0, t.shade)
             one == clear_wide_partner_at(t, r, c)
             two == IF w > 1 THEN clear_wide_partner_at(one, r, c + 1) ELSE one
             lead == put(two, r, c, cell)
             both == IF w > 1 /\ c + 1 < Columns(t) THEN put(lead, r, c + 1, spacer) ELSE lead
             full == c + w >= Columns(t)
             to == IF full THEN Columns(t) - 1 ELSE c + w
             placed == move_to(both, r, to)
             flag == Active(placed).wrap \/ full
             u == print_cell(t, glyph, w)
  <1>1. /\ Good(t) /\ t \in Terminals /\ t.active = "primary" /\ t.shade \in BOOLEAN
        /\ Columns(t) \in Nat \ {0}
    BY WideParts, TerminalParts
  <1>2. r \in Nat /\ r < Rows(t) /\ c \in Nat /\ c < Columns(t)
    BY <1>1, CursorOnScreen
  <1>3. cell \in Cells /\ cell.w = w /\ spacer \in Cells /\ spacer.w = 0
    BY <1>1 DEF Cell, Cells
  <1>4. u = IF one.panicked \/ two.panicked \/ lead.panicked \/ both.panicked
            THEN Panicked(t) ELSE mark(WithWrap(placed, flag), {r})
    BY DEF print_cell, WithWrap
  <1>5. Good(u)
    BY <1>1, PrintCellCarries, CarriesParts
  <1>6. c + w <= Columns(t)
    OBVIOUS
  <1> HIDE DEF u, flag, placed, to, full, r, c, cell, spacer
  <1>7. Wide(both) /\ Good(one) /\ Good(two) /\ Good(lead)
        /\ one.active = "primary" /\ two.active = "primary" /\ lead.active = "primary"
    <2>1. CASE w = 1
      <3>1. two = one /\ both = lead /\ cell.w = 1
        BY <1>3, <2>1
      <3> HIDE DEF two, both
      <3>2. Wide(both)
        BY <1>2, <1>3, <3>1, NarrowWritten
      <3>3. Good(one) /\ one.active = t.active
        BY <1>1, <1>2, PartnerEdits, EditsParts
      <3>4. Good(lead) /\ lead.active = "primary"
        BY <3>1, <3>2 DEF Wide
      <3> QED
        BY <1>1, <3>1, <3>2, <3>3, <3>4
    <2>2. CASE w = 2
      <3>1. c + 1 < Columns(t) /\ cell.w = 2
        BY <1>1, <1>2, <1>3, <1>6, <2>2
      <3>2. two = clear_wide_partner_at(one, r, c + 1) /\ both = put(lead, r, c + 1, spacer)
        BY <2>2, <3>1
      <3> HIDE DEF two, both
      <3> QED
        BY <1>2, <1>3, <3>1, <3>2, PairWritten
    <2> QED
      BY <2>1, <2>2
  <1>8. both \in Terminals /\ both.active = "primary" /\ ~both.panicked
    BY <1>7, WideParts DEF Good
  <1>9. ~(one.panicked \/ two.panicked \/ lead.panicked \/ both.panicked)
    BY <1>7, <1>8 DEF Good
  <1> HIDE DEF one, two, lead, both
  <1>10. u = mark(WithWrap(placed, flag), {r})
    BY <1>4, <1>9
  <1>11. to \in Nat
    BY <1>1, <1>2 DEF to, full
  <1>12. SameRows(both, placed) /\ placed \in Terminals
    BY <1>2, <1>8, <1>11, MoveSame DEF placed
  <1>13. placed.active = "primary" /\ flag \in BOOLEAN
    <2>1. Active(placed) \in ScreenSet
      BY <1>12, ActiveType
    <2>2. Active(placed).wrap \in BOOLEAN /\ full \in BOOLEAN
      BY <2>1, ScreenParts DEF full
    <2> QED
      BY <1>8, <1>12, <2>2 DEF SameRows, flag
  <1>14. SameRows(placed, u)
    BY <1>10, <1>12, <1>13, WithWrapSame
  <1>15. SameRows(both, u)
    BY <1>12, <1>14, SameRowsTwice
  <1>16. Wide(u)
    BY <1>5, <1>7, <1>15, SameRowsWide
  <1> QED
    BY <1>16 DEF u


LEMMA PrintWide ==
    ASSUME NEW t, Wide(t), NEW glyph \in Glyphs
    PROVE  Wide(print(t, glyph))
  <1> DEFINE w == Least(glyph.w, Least(Columns(t), 2))
             start == IF Active(t).wrap THEN wrap_pending(t) ELSE t
             wide == w > 1 /\ Active(start).col + w > Columns(t)
             ready == IF wide THEN wrap_wide(start) ELSE start
             u == print(t, glyph)
  <1>1. glyph.w \in Nat /\ glyph.ink \in Nat
    BY TerminalAssumption
  <1>2. Good(t) /\ t.active = "primary" /\ Columns(t) \in Nat \ {0}
    BY WideParts
  <1>3. w \in 0..2 /\ w <= Columns(t)
    BY <1>1, <1>2 DEF Least
  <1>4. u = IF start.panicked THEN start ELSE IF w = 0 THEN start
            ELSE IF ready.panicked THEN ready ELSE print_cell(ready, glyph, w)
    BY DEF print
  <1> HIDE DEF w, u, ready, start
  <1>5. Wide(start)
    BY WrapPendingWide DEF start
  <1>6. Carries(t, start) /\ (start.panicked \/ ~Active(start).wrap)
    BY <1>2, WrapPendingCarries, CarriesSelf DEF start
  <1>7. Good(start) /\ Columns(start) = Columns(t) /\ start.active = "primary"
        /\ ~start.panicked
    BY <1>2, <1>5, <1>6, CarriesParts, WideParts DEF Good
  <1>8. Active(start).col \in Nat /\ Active(start).col < Columns(t)
    BY <1>7, CursorOnScreen
  <1>9. CASE w = 0
    BY <1>4, <1>5, <1>9 DEF u
  <1>10. CASE w # 0
    <2>1. w \in 1..2
      BY <1>3, <1>10
    <2>2. Wide(ready) /\ Columns(ready) = Columns(t) /\ ~Active(ready).wrap
          /\ Active(ready).col + w <= Columns(t)
      <3>1. CASE wide
        <4>1. Active(start).col = Columns(start) - 1 /\ ready = wrap_wide(start)
          BY <1>2, <1>3, <1>7, <1>8, <3>1 DEF ready
        <4>2. Wide(ready) /\ Active(ready).col = 0
          BY <1>5, <4>1, WrapWideWide
        <4>3. Carries(start, ready) /\ (ready.panicked \/ ~Active(ready).wrap)
          BY <1>7, <4>1, WrapWideCarries
        <4>4. Columns(ready) = Columns(t)
          BY <1>7, <4>3, CarriesParts
        <4>5. ~ready.panicked
          BY <4>2, WideParts DEF Good
        <4> QED
          BY <1>2, <1>3, <4>2, <4>3, <4>4, <4>5
      <3>2. CASE ~wide
        <4>1. ready = start
          BY <3>2 DEF ready
        <4>2. Active(start).col + w <= Columns(t)
          BY <1>2, <1>8, <2>1, <3>2
        <4> QED
          BY <1>5, <1>6, <1>7, <4>1, <4>2
      <3> QED
        BY <3>1, <3>2
    <2>3. ~ready.panicked
      BY <2>2, WideParts DEF Good
    <2>4. u = print_cell(ready, glyph, w)
      BY <1>4, <1>7, <1>10, <2>3
    <2>5. Wide(u)
      BY <1>1, <2>1, <2>2, <2>4, PrintCellWide
    <2> QED
      BY <2>5 DEF u
  <1> QED
    BY <1>9, <1>10

(* A step that leaves the rows alone.                                      *)
LEMMA MovedWide ==
    ASSUME NEW t, Wide(t), NEW u, Carries(t, u), SameRows(t, u)
    PROVE  Wide(u)
  <1>1. Good(u)
    BY WideParts, CarriesParts
  <1> QED
    BY <1>1, SameRowsWide

LEMMA ToColumnWide ==
    ASSUME NEW t, Wide(t), NEW c \in Nat, c < Columns(t)
    PROVE  Wide(to_column(t, c))
  <1> DEFINE r == Active(t).row
             u == to_column(t, c)
  <1>1. Good(t) /\ t \in Terminals /\ t.active = "primary" /\ r \in Nat
    BY WideParts, CursorOnScreen
  <1>2. u = mark(move_to(unwrapped(t), r, c), {r})
    BY DEF to_column
  <1>3. Carries(t, u)
    BY <1>1, ToColumnCarries
  <1> HIDE DEF u, r
  <1>4. SameRows(t, u)
    BY <1>1, <1>2, UnwrapAndMoveSame
  <1>5. Wide(u)
    BY <1>3, <1>4, MovedWide
  <1> QED
    BY <1>5 DEF u

LEMMA ControlWide ==
    ASSUME NEW t, Wide(t), NEW kind \in Controls
    PROVE  Wide(apply_control(t, kind))
  <1> DEFINE c == Active(t).col
             to == Least((c \div 8 + 1) * 8, Columns(t) - 1)
  <1>1. Good(t) /\ t.active = "primary"
    BY WideParts
  <1>2. c \in Nat /\ Columns(t) \in Nat \ {0} /\ c < Columns(t)
    BY <1>1, CursorOnScreen
  <1>3. kind \in {"BS", "HT", "LF", "CR"}
    BY TerminalAssumption DEF ControlKinds
  <1> HIDE DEF c
  <1>4. CASE kind = "BS"
    <2>1. Monus(c, 1) \in Nat /\ Monus(c, 1) < Columns(t)
      BY <1>2 DEF Monus, Greatest
    <2>2. Wide(to_column(t, Monus(c, 1)))
      BY <2>1, ToColumnWide
    <2> QED
      BY <1>4, <2>2 DEF apply_control, backspace, c
  <1>5. CASE kind = "HT"
    <2>1. c \div 8 \in Nat
      BY <1>2
    <2>2. (c \div 8 + 1) * 8 \in Nat
      BY <2>1
    <2>3. \A x \in Nat : Least(x, Columns(t) - 1) \in Nat
                          /\ Least(x, Columns(t) - 1) < Columns(t)
      BY <1>2 DEF Least
    <2>4. to \in Nat /\ to < Columns(t)
      BY <2>2, <2>3
    <2> HIDE DEF to
    <2>5. Wide(to_column(t, to))
      BY <2>4, ToColumnWide
    <2> QED
      BY <1>5, <2>5 DEF apply_control, horizontal_tab, c, to
  <1>6. CASE kind = "LF"
    BY <1>6, LineFeedWide DEF apply_control
  <1>7. CASE kind = "CR"
    <2>1. Wide(to_column(t, 0))
      BY <1>2, ToColumnWide
    <2> QED
      BY <1>7, <2>1 DEF apply_control, carriage_return
  <1> QED
    BY <1>3, <1>4, <1>5, <1>6, <1>7

LEMMA MoveWide ==
    ASSUME NEW t, Wide(t), NEW m \in Moves
    PROVE  Wide(apply_move(t, m))
  <1> DEFINE u == apply_move(t, m)
             s == Active(t)
             down == Least(s.row + Param(m.n), Rows(t) - 1)
             up == Monus(s.row, Param(m.n))
             right == Least(s.col + Param(m.n), Columns(t) - 1)
             left == Monus(s.col, Param(m.n))
  <1>1. Good(t) /\ t \in Terminals /\ t.active = "primary"
    BY WideParts
  <1>2. /\ s.row \in Nat /\ s.col \in Nat
        /\ Rows(t) \in Nat \ {0} /\ Columns(t) \in Nat \ {0}
    BY <1>1, CursorOnScreen
  <1>3. m.final \in {"A", "B", "C", "D", "E", "F", "G", "H", "d"} /\ m.n \in Nat /\ m.m \in Nat
    BY TerminalAssumption DEF MoveFinals
  <1>4. \A n \in Nat : Param(n) \in Nat \ {0}
    BY DEF Param, Greatest
  <1>5. down \in Nat /\ up \in Nat /\ right \in Nat /\ left \in Nat
    BY <1>2, <1>3, <1>4 DEF Least, Monus, Greatest
  <1>6. \A n \in Nat : Index(n, Rows(t)) \in Nat /\ Index(n, Columns(t)) \in Nat
    BY <1>2, <1>4 DEF Index, Least
  <1>7. \A r, c \in Nat : SameRows(t, set_cursor_position(t, r, c))
    BY <1>1, UnwrapAndMoveSame DEF set_cursor_position
  <1>8. \/ u = set_cursor_position(t, up, s.col)
        \/ u = set_cursor_position(t, down, s.col)
        \/ u = set_cursor_position(t, s.row, right)
        \/ u = set_cursor_position(t, s.row, left)
        \/ u = set_cursor_position(t, down, 0)
        \/ u = set_cursor_position(t, up, 0)
        \/ u = set_cursor_position(t, s.row, Index(m.n, Columns(t)))
        \/ u = set_cursor_position(t, Index(m.n, Rows(t)), s.col)
        \/ u = set_cursor_position(t, Index(m.n, Rows(t)), Index(m.m, Columns(t)))
    BY <1>3 DEF apply_move
  <1>9. Carries(t, u)
    BY <1>1, MoveCarries
  <1> HIDE DEF s, down, up, right, left, u
  <1>10. 0 \in Nat
    OBVIOUS
  <1>11. SameRows(t, u)
    BY <1>2, <1>3, <1>5, <1>6, <1>7, <1>8, <1>10
  <1>12. Wide(u)
    BY <1>9, <1>11, MovedWide
  <1> QED
    BY <1>12 DEF u

LEMMA VisibleWide ==
    ASSUME NEW t, Wide(t), NEW visible \in BOOLEAN
    PROVE  Wide(set_cursor_visible(t, visible))
  <1> DEFINE v == [t EXCEPT !.primary.visible = visible, !.alternate.visible = visible]
             u == set_cursor_visible(t, visible)
             p == [t.primary EXCEPT !.visible = visible]
             a == [t.alternate EXCEPT !.visible = visible]
  <1>1. Good(t) /\ t \in Terminals /\ t.primary \in ScreenSet /\ t.alternate \in ScreenSet
    BY WideParts, TerminalParts
  <1>2. p \in ScreenSet /\ a \in ScreenSet /\ p.rows = t.primary.rows
    BY <1>1 DEF ScreenSet
  <1>3. v = [t EXCEPT !.primary = p, !.alternate = a]
    BY <1>1 DEF Terminals
  <1>4. u = mark(v, {Active(t).row})
    BY DEF set_cursor_visible
  <1>5. Carries(t, u)
    BY <1>1, VisibleCarries
  <1> HIDE DEF p, a, v, u
  <1>6. v \in Terminals /\ SameRows(t, v)
    BY <1>1, <1>2, <1>3 DEF Terminals, SameRows
  <1>7. SameRows(v, u)
    BY <1>4, <1>6, MarkSame
  <1>8. Wide(u)
    BY <1>5, <1>6, <1>7, SameRowsTwice, MovedWide
  <1> QED
    BY <1>8 DEF u

(* The modes that keep the primary screen.                                 *)
LEMMA ModeWide ==
    ASSUME NEW t, Wide(t), NEW mode, mode \notin {47, 1047, 1049}, NEW enabled \in BOOLEAN
    PROVE  Wide(apply_dec_private_mode(t, mode, enabled))
  <1> DEFINE visible == set_cursor_visible(t, enabled)
             save == save_cursor(t)
             restore == restore_cursor(t)
             u == apply_dec_private_mode(t, mode, enabled)
  <1>1. Good(t) /\ t \in Terminals /\ t.active = "primary"
    BY WideParts
  <1>2. Wide(visible)
    BY VisibleWide
  <1>3. Wide(save)
    <2> DEFINE saved == [screen |-> t.active, row |-> Active(t).row, col |-> Active(t).col]
    <2>1. SameRows(t, [t EXCEPT !.saved = saved])
      <3> HIDE DEF saved
      <3> QED
        BY <1>1 DEF Terminals, SameRows
    <2>2. SameRows(t, save_cursor(t)) /\ Carries(t, save_cursor(t))
      BY <1>1, <2>1, SaveCarries DEF save_cursor
    <2> QED
      BY <2>2, MovedWide
  <1>4. Wide(restore)
    <2> DEFINE r == Least(t.saved.row, Rows(t) - 1)
               c == Least(t.saved.col, Columns(t) - 1)
               m == mark(move_to(unwrapped(t), r, c), {r})
    <2>1. t.saved.row \in Nat /\ t.saved.col \in Nat
          /\ Rows(t) \in Nat \ {0} /\ Columns(t) \in Nat \ {0}
      BY <1>1, TerminalParts, CursorOnScreen
    <2>2. r \in Nat /\ c \in Nat
      BY <2>1 DEF Least
    <2>3. restore = IF t.saved.screen # t.active THEN t ELSE m
      BY DEF restore_cursor
    <2>4. Carries(t, restore)
      BY <1>1, RestoreCarries
    <2> HIDE DEF r, c, restore
    <2>5. SameRows(t, m)
      BY <1>1, <2>2, UnwrapAndMoveSame
    <2> HIDE DEF m
    <2> QED
      BY <2>3, <2>4, <2>5, MovedWide
  <1>5. ASSUME mode = 25 PROVE u = visible
    BY <1>5 DEF apply_dec_private_mode
  <1>6. ASSUME mode = 1048, enabled PROVE u = save
    BY <1>6 DEF apply_dec_private_mode
  <1>7. ASSUME mode = 1048, ~enabled PROVE u = restore
    BY <1>7 DEF apply_dec_private_mode
  <1>8. ASSUME mode # 25, mode # 1048 PROVE u = t
    <2>1. mode # 47 /\ mode # 1047 /\ mode # 1049
      OBVIOUS
    <2> QED
      BY <1>8, <2>1 DEF apply_dec_private_mode
  <1> HIDE DEF visible, save, restore, u
  <1>9. Wide(u)
    BY <1>2, <1>3, <1>4, <1>5, <1>6, <1>7, <1>8
  <1> QED
    BY <1>9 DEF u

LEMMA ShadeWide ==
    ASSUME NEW t, Wide(t), NEW bg \in Backgrounds
    PROVE  Wide([t EXCEPT !.shade = bg])
  <1> DEFINE u == [t EXCEPT !.shade = bg]
  <1>1. Good(t) /\ t \in Terminals
    BY WideParts
  <1>2. Carries(t, u)
    BY <1>1, ShadeCarries
  <1>3. SameRows(t, u)
    BY <1>1 DEF Terminals, SameRows
  <1> QED
    BY <1>2, <1>3, MovedWide

-----------------------------------------------------------------------------
(* Wide characters: resizing.                                              *)

LEMMA AmongPaired ==
    ASSUME NEW a, NEW b, Among(a, b), AllPaired(b)
    PROVE  AllPaired(a)
  BY DEF Among, AllPaired

LEMMA ShrinkPaired ==
    ASSUME NEW t, Wide(t), NEW rows \in Nat \ {0}, rows < Len(t.primary.rows)
    PROVE  WideRows(shrink_primary(t, rows))
  <1> DEFINE s == t.primary
             n == Monus(s.row + 1, rows)
             gone == SubSeq(s.rows, 1, n)
             left == SubSeq(s.rows, n + 1, n + rows)
             sb == Pushed(t.scrollback, gone)
             r == Least(Monus(s.row, n), rows - 1)
             m == shrink_primary(t, rows)
  <1>1. /\ t \in Terminals /\ s \in ScreenSet /\ s.rows \in Seq(RowSet)
        /\ t.scrollback \in Scrollbacks /\ Bounded(t.scrollback) /\ Distinct(t)
        /\ s.row < Len(s.rows) /\ AllPaired(t.scrollback.rows) /\ AllPaired(s.rows)
    <2>1. Good(t)
      BY WideParts
    <2> QED
      BY <2>1, WideParts, GoodRows DEF ScreenFits, Good
  <1>2. s.row \in Nat /\ Len(s.rows) \in Nat
    BY <1>1, ScreenParts
  <1>3. n \in Nat /\ n + rows <= Len(s.rows) /\ n <= Len(s.rows) /\ 0 + n = n
    BY <1>1, <1>2 DEF Monus, Greatest
  <1>4. m = [t EXCEPT !.scrollback = sb, !.primary.rows = left, !.primary.row = r]
    BY <1>1 DEF shrink_primary, Pushed, Terminals
  <1>5. m.scrollback = sb /\ m.primary.rows = left
    <2> HIDE DEF sb, left, r, m
    <2> QED
      BY <1>1, <1>4 DEF Terminals, ScreenSet
  <1> HIDE DEF n, sb, left, s, r, m
  <1>6. Among(left, s.rows)
    <2>1. CutOf(left, s.rows, n, rows)
      BY <1>1, <1>3, CutRows DEF left
    <2> QED
      BY <1>1, <1>3, <2>1, CutAmong
  <1>7. gone \in Seq(RowSet) /\ Inj(gone) /\ Among(gone, s.rows) /\ Apart(t.scrollback.rows, gone)
    <2>1. CutOf(gone, s.rows, 0, n)
      <3>1. 0 \in Nat /\ 0 + n <= Len(s.rows) /\ gone = SubSeq(s.rows, 0 + 1, 0 + n)
        BY <1>3
      <3> HIDE DEF gone
      <3> QED
        BY <1>1, <1>3, <3>1, CutRows
    <2>2. Inj(s.rows) /\ Apart(t.scrollback.rows, s.rows) /\ 0 \in Nat
      BY <1>1 DEF Distinct, s
    <2> HIDE DEF gone
    <2>3. Inj(gone) /\ Among(gone, s.rows)
      BY <1>1, <1>3, <2>1, <2>2, CutInj, CutAmong
    <2>4. Apart(t.scrollback.rows, gone)
      BY <2>2, <2>3, AmongApart
    <2> QED
      BY <2>1, <2>3, <2>4 DEF CutOf
  <1> HIDE DEF gone
  <1>8. PushedTo(sb, t.scrollback, gone, Len(gone))
    BY <1>1, <1>7, PushedType DEF sb, Distinct
  <1>9. AllPaired(left) /\ AllPaired(gone)
    BY <1>1, <1>6, <1>7, AmongPaired
  <1>10. AllPaired(sb.rows)
    <2>1. DOMAIN gone = 1..Len(gone)
      BY <1>7
    <2> QED
      BY <1>1, <1>8, <1>9, <2>1 DEF PushedTo, AllPaired
  <1>11. WideRows(m)
    BY <1>5, <1>9, <1>10 DEF WideRows
  <1> QED
    BY <1>11 DEF m

LEMMA GrowPaired ==
    ASSUME NEW t, Wide(t), NEW rows \in Nat \ {0}, Len(t.primary.rows) < rows
    PROVE  WideRows(grow_primary(t, rows))
  <1> DEFINE s == t.primary
             old == t.scrollback.rows
             k == Len(s.rows)
             l == Len(old)
             n == Least(rows - k, l)
             more == rows - k - n
             back == SubSeq(old, l - n + 1, l)
             fresh == BlankRows(more, Columns(t), t.nextId)
             above == back \o s.rows
             all == above \o fresh
             sb == pop_back(t.scrollback, n)
             r == Least(s.row + n, rows - 1)
             id == t.nextId + more
             m == grow_primary(t, rows)
  <1>1. /\ t \in Terminals /\ s \in ScreenSet /\ s.rows \in Seq(RowSet) /\ old \in Seq(RowSet)
        /\ t.scrollback \in Scrollbacks /\ Bounded(t.scrollback) /\ t.nextId \in Nat \ {0}
        /\ AllPaired(old) /\ AllPaired(s.rows) /\ Columns(t) \in Nat \ {0}
    <2>1. Good(t)
      BY WideParts
    <2> QED
      BY <2>1, WideParts, GoodRows
  <1>2. k \in Nat /\ l \in Nat /\ k < rows
    BY <1>1
  <1>3. n \in 0..l /\ more \in Nat /\ l - n + 1 \in Nat \ {0} /\ l - n \in Nat /\ l - n <= l
        /\ 1 \in Nat \ {0} /\ l <= Len(old)
    <2>0. l <= Len(old)
      BY <1>2
    <2> HIDE DEF s, old, k, l
    <2> QED
      BY <1>2, <2>0 DEF Least
  <1>4. m = [t EXCEPT !.scrollback = sb, !.primary.rows = all, !.primary.row = r,
                      !.nextId = id]
    BY <1>1 DEF grow_primary, Terminals, ScreenSet
  <1>5. m.scrollback = sb /\ m.primary.rows = all
    <2> HIDE DEF sb, all, r, id, m
    <2> QED
      BY <1>1, <1>4 DEF Terminals, ScreenSet
  <1>6. sb.rows = SubSeq(old, 1, l - n)
    BY <1>1, <1>3, PopBackKeepsPrefix
  <1> HIDE DEF n, more, sb, m, r, id, k
  <1>7. AllPaired(sb.rows) /\ AllPaired(back) /\ back \in Seq(RowSet)
    <2> HIDE DEF old, l
    <2>1. AllPaired(SubSeq(old, 1, l - n)) /\ AllPaired(back)
      BY <1>1, <1>2, <1>3, SubSeqPaired DEF l
    <2>2. back \in Seq(RowSet)
      BY <1>1, <1>2, <1>3, SuffixRows DEF l
    <2> QED
      BY <1>6, <2>1, <2>2
  <1>8. fresh \in Seq(RowSet) /\ AllPaired(fresh)
    BY <1>1, <1>3, BlankRowsType, BlankRowsPaired
  <1> HIDE DEF back, fresh, s, old
  <1>9. above \in Seq(RowSet) /\ AllPaired(above)
    BY <1>1, <1>7, ConcatPaired
  <1> HIDE DEF above
  <1>10. AllPaired(all)
    BY <1>8, <1>9, ConcatPaired
  <1>11. WideRows(m)
    BY <1>5, <1>7, <1>10 DEF WideRows
  <1> QED
    BY <1>11 DEF m

LEMMA HeightPaired ==
    ASSUME NEW t, Wide(t), NEW rows \in Nat \ {0}
    PROVE  WideRows(resize_primary_height(t, rows))
  <1>1. Len(t.primary.rows) \in Nat /\ WideRows(t)
    BY WideParts, ScreenParts DEF Wide
  <1>2. CASE rows < Len(t.primary.rows)
    BY <1>2, ShrinkPaired DEF resize_primary_height
  <1>3. CASE Len(t.primary.rows) < rows
    BY <1>1, <1>3, GrowPaired DEF resize_primary_height
  <1>4. CASE rows = Len(t.primary.rows)
    BY <1>1, <1>4 DEF resize_primary_height
  <1> QED
    BY <1>1, <1>2, <1>3, <1>4

LEMMA PrimaryResizeWide ==
    ASSUME NEW t, Wide(t), NEW dims \in Sizes, ValidSize(dims), dims.cols >= 2,
           NEW u, Good(u), u.active = "primary",
           u = [resize_active_primary(t, dims) EXCEPT !.dims = dims,
                                                !.damage = 0..dims.rows - 1]
    PROVE  Wide(u)
  <1> DEFINE m == resize_primary_height(t, dims.rows)
             rows == m.scrollback.rows \o m.primary.rows
             r == Len(m.scrollback.rows) + m.primary.row
             flow == reflow_rows(rows, r, m.primary.col, m.primary.wrap, dims.cols, m.nextId)
             sb == SplitHistory(flow, dims)
             s == SplitScreen(flow, dims)
             id == flow.nextId + SplitMore(flow, dims)
             split == SplitAt(flow, dims)
             seen == SplitSeen(flow, dims)
             more == SplitMore(flow, dims)
             top == SubSeq(flow.rows, 1, split)
             body == SubSeq(flow.rows, split + 1, split + seen)
             fresh == BlankRows(more, dims.cols, flow.nextId)
  <1>1. dims.rows \in Nat \ {0} /\ dims.cols \in Nat \ {0}
    BY SizeParts
  <1>2. Good(t)
    BY WideParts
  <1>3. Moved(t, m) /\ WideRows(m)
    BY <1>1, <1>2, HeightMoved, HeightPaired
  <1>4. u = [split_rows(m, flow, dims) EXCEPT !.dims = dims, !.damage = 0..dims.rows - 1]
    BY DEF resize_active_primary, reflow_primary
  <1> HIDE DEF m
  <1>5. /\ m.scrollback.rows \in Seq(RowSet) /\ m.primary.rows \in Seq(RowSet)
        /\ m.primary.row \in Nat /\ m.primary.col \in Nat /\ m.primary.wrap \in BOOLEAN
        /\ m.nextId \in Nat \ {0} /\ m \in Terminals
    BY <1>3, TerminalParts, ScreenParts DEF Moved, Scrollbacks
  <1>6. r \in Nat
    BY <1>5
  <1>7. rows \in Seq(RowSet) /\ Inj(rows) /\ Below(rows, m.nextId)
    BY <1>3, <1>5, ConcatInj, ConcatApart DEF Moved
  <1>8. AllPaired(rows)
    BY <1>3, <1>5, ConcatPaired DEF WideRows
  <1> HIDE DEF rows, r
  <1>9. Reflowed(flow, rows, dims.cols, m.nextId)
    BY <1>1, <1>5, <1>6, <1>7, ReflowRowsType
  <1>10. AllPaired(flow.rows)
    <2>1. logical_lines(rows, r, m.primary.col, m.primary.wrap, dims.cols) \in Seq(Lines)
      BY <1>1, <1>5, <1>6, <1>7, LogicalLinesType
    <2> QED
      BY <1>1, <1>5, <1>6, <1>7, <1>8, <2>1, ReflowPaired
  <1> HIDE DEF flow
  <1>11. flow.rows \in Seq(RowSet) /\ flow.row \in Nat /\ flow.nextId \in Nat \ {0}
         /\ Len(flow.rows) \in Nat
    BY <1>9 DEF Reflowed, Flows
  <1>12. /\ split \in Nat /\ seen \in Nat /\ more \in Nat /\ split + seen <= Len(flow.rows)
    <2> DEFINE n == Len(flow.rows)
    <2>1. split = Least(Monus(n, dims.rows), flow.row)
          /\ seen = Least(dims.rows, n - split) /\ more = dims.rows - seen
      BY DEF SplitAt, SplitSeen, SplitMore
    <2>2. n \in Nat
      BY <1>11
    <2> HIDE DEF split, seen, more, n
    <2>3. split \in Nat /\ split <= n
      BY <1>1, <1>11, <2>1, <2>2 DEF Least, Monus, Greatest
    <2>4. seen \in Nat /\ more \in Nat /\ split + seen <= n
      BY <1>1, <2>1, <2>2, <2>3 DEF Least
    <2> QED
      BY <2>3, <2>4 DEF n
  <1>13. s.rows = body \o fresh /\ sb = replace_rows(top)
    BY DEF SplitScreen, SplitRows, SplitHistory
  <1>14. u.scrollback = sb /\ u.primary = s
    <2>1. split_rows(m, flow, dims) = [m EXCEPT !.scrollback = sb, !.primary = s, !.nextId = id]
      BY DEF split_rows, SplitHistory, SplitScreen, SplitRows, SplitMore, SplitSeen, SplitAt
    <2> DEFINE damage == 0..dims.rows - 1
               v == [m EXCEPT !.scrollback = sb, !.primary = s, !.nextId = id]
    <2>2. u = [v EXCEPT !.dims = dims, !.damage = damage]
      BY <1>4, <2>1
    <2> HIDE DEF sb, s, id, damage
    <2>3. v.scrollback = sb /\ v.primary = s
      BY <1>5 DEF Terminals
    <2>4. DOMAIN v = DOMAIN m
      OBVIOUS
    <2>5. "scrollback" \in DOMAIN m /\ "primary" \in DOMAIN m
      BY <1>5 DEF Terminals
    <2> HIDE DEF v
    <2> QED
      BY <2>2, <2>3, <2>4, <2>5
  <1> HIDE DEF split, seen, more, sb, s
  <1>15. top \in Seq(RowSet) /\ AllPaired(top) /\ body \in Seq(RowSet) /\ AllPaired(body)
    <2>1. split + 1 \in Nat \ {0} /\ split + seen \in Nat /\ split <= Len(flow.rows)
          /\ 1 \in Nat \ {0} /\ 0 + split = split /\ 0 + 1 = 1 /\ 0 \in Nat
      BY <1>11, <1>12
    <2>2. AllPaired(top) /\ AllPaired(body)
      BY <1>10, <1>11, <1>12, <2>1, SubSeqPaired
    <2>3. CutOf(body, flow.rows, split, seen)
      BY <1>11, <1>12, CutRows
    <2>4. CutOf(top, flow.rows, 0, split)
      <3>1. top = SubSeq(flow.rows, 0 + 1, 0 + split) /\ 0 + split <= Len(flow.rows)
        BY <2>1
      <3> HIDE DEF top
      <3> QED
        BY <1>11, <1>12, <2>1, <3>1, CutRows
    <2> QED
      BY <2>2, <2>3, <2>4 DEF CutOf
  <1>16. fresh \in Seq(RowSet) /\ AllPaired(fresh)
    BY <1>1, <1>11, <1>12, BlankRowsType, BlankRowsPaired
  <1> HIDE DEF top, body, fresh
  <1>17. AllPaired(s.rows)
    BY <1>13, <1>15, <1>16, ConcatPaired
  <1>18. AllPaired(sb.rows)
    <2>1. PICK k \in 0..Len(top) : sb.rows = SubSeq(top, k + 1, Len(top))
      BY <1>13, <1>15, ReplaceKeepsSuffix
    <2>2. k + 1 \in Nat \ {0} /\ Len(top) \in Nat /\ Len(top) <= Len(top)
      BY <1>15
    <2> QED
      BY <1>15, <2>1, <2>2, SubSeqPaired
  <1> QED
    BY <1>14, <1>17, <1>18 DEF Wide, WideRows

LEMMA ResizeWide ==
    ASSUME NEW t, Wide(t), NEW dims \in Sizes, ValidSize(dims) => dims.cols >= 2
    PROVE  Wide(resize(t, dims))
  <1> DEFINE u == resize(t, dims)
             x == resize_active_primary(t, dims)
  <1>1. Good(t) /\ t.active = "primary" /\ ~t.panicked
    BY WideParts DEF Good
  <1>2. CASE ~ValidSize(dims) \/ dims = t.dims
    BY <1>2 DEF resize
  <1>3. CASE ValidSize(dims) /\ dims # t.dims
    <2>1. u = [x EXCEPT !.dims = dims, !.damage = 0..dims.rows - 1]
      BY <1>1, <1>3 DEF resize
    <2> HIDE DEF u
    <2>2. Good(u)
      BY <1>1, <1>3, <2>1, PrimaryResizeGood DEF ResizedTo
    <2>3. u.active = "primary"
      <3>1. dims.rows \in Nat \ {0}
        BY <1>3, SizeParts
      <3> DEFINE m == resize_primary_height(t, dims.rows)
      <3>2. m \in Terminals /\ m.active = t.active
        BY <1>1, <3>1, HeightMoved DEF Moved
      <3>3. x.active = m.active /\ DOMAIN x = DOMAIN m
        <4> HIDE DEF m
        <4>1. x = reflow_primary(m, dims)
          BY DEF resize_active_primary, m
        <4> HIDE DEF x
        <4> QED
          BY <3>2, <4>1 DEF reflow_primary, split_rows, Terminals
      <3>4. "active" \in DOMAIN m
        BY <3>2 DEF Terminals
      <3> HIDE DEF x, m
      <3> QED
        BY <1>1, <2>1, <3>2, <3>3, <3>4
    <2> HIDE DEF x
    <2>4. Wide(u)
      BY <1>3, <2>1, <2>2, <2>3, PrimaryResizeWide DEF x
    <2> QED
      BY <2>4 DEF u
  <1> QED
    BY <1>2, <1>3

-----------------------------------------------------------------------------
(* Wide characters: the state itself.                                      *)

(* Nothing is erased, only the primary screen is used and every size has   *)
(* room for a wide character.                                              *)
NothingErased ==
    /\ Erasures = {} /\ Modes \cap {47, 1047, 1049} = {}
    /\ \A dims \in Sizes : ValidSize(dims) => dims.cols >= 2

LEMMA InitWide ==
    ASSUME Init
    PROVE  Wide(term)
  <1>1. Good(term)
    BY InitGood
  <1>2. term.active = "primary" /\ term.scrollback = NoScrollback
        /\ term.primary = NewScreen(InitialSize, 1)
    BY DEF Init
  <1>3. NoScrollback.rows = <<>>
    BY DEF NoScrollback
  <1>4. AllPaired(BlankRows(InitialSize.rows, InitialSize.cols, 1))
    BY TerminalAssumption, SizeParts, BlankRowsPaired
  <1>5. NewScreen(InitialSize, 1).rows = BlankRows(InitialSize.rows, InitialSize.cols, 1)
    BY DEF NewScreen
  <1> QED
    BY <1>1, <1>2, <1>3, <1>4, <1>5, NothingPaired DEF Wide, WideRows

LEMMA WideStep ==
    ASSUME NothingErased, Wide(term), [Next]_vars
    PROVE  Wide(term')
  <1>1. CASE PrintGlyph
    BY <1>1, PrintWide DEF PrintGlyph, Step
  <1>2. CASE Control
    BY <1>2, ControlWide DEF Control, Step
  <1>3. CASE Move
    BY <1>3, MoveWide DEF Move, Step
  <1>4. CASE Erase
    BY <1>4 DEF Erase, NothingErased
  <1>5. CASE DecPrivateMode
    <2>1. PICK mode \in Modes, enabled \in BOOLEAN :
            term' = apply_dec_private_mode(term, mode, enabled)
      BY <1>5 DEF DecPrivateMode, Step
    <2>2. mode \notin {47, 1047, 1049}
      BY DEF NothingErased
    <2> QED
      BY <2>1, <2>2, ModeWide
  <1>6. CASE SelectRendition
    BY <1>6, ShadeWide DEF SelectRendition, Step
  <1>7. CASE Resize
    <2>1. PICK dims \in Sizes : term' = resize(term, dims)
      BY <1>7 DEF Resize, Step
    <2>2. Wide(resize(term, dims))
      BY ResizeWide DEF NothingErased
    <2> QED
      BY <2>1, <2>2
  <1>8. CASE RenderSnapshot
    <2>1. term' = [term EXCEPT !.damage = {}] /\ Good(term)
      BY <1>8, WideParts DEF RenderSnapshot, Step
    <2>2. /\ Good(term') /\ term'.dims = term.dims /\ term'.primary = term.primary
          /\ term'.scrollback = term.scrollback /\ term'.active = term.active
      BY <2>1, SnapshotParts
    <2> QED
      BY <2>2 DEF Wide, WideRows
  <1>9. CASE UNCHANGED vars
    BY <1>9 DEF vars
  <1> QED
    BY <1>1, <1>2, <1>3, <1>4, <1>5, <1>6, <1>7, <1>8, <1>9 DEF Next

LEMMA WideIsPaired ==
    ASSUME Wide(term)
    PROVE  WidePairs
  <1>1. /\ term.scrollback.rows \in Seq(RowSet) /\ term.primary.rows \in Seq(RowSet)
        /\ AllPaired(term.scrollback.rows) /\ AllPaired(term.primary.rows)
    BY WideParts
  <1>2. AllPaired(History(term))
    BY <1>1, ConcatPaired DEF History
  <1> QED
    BY <1>2 DEF AllPaired, Paired, WidePairs

(* As long as nothing is erased and only the primary screen is used, at    *)
(* least two columns wide, a wide character keeps its spacer beside it     *)
(* through every overwrite, wrap, scroll, shrink, growth and reflow.       *)
THEOREM WideAlwaysPaired ==
    ASSUME NothingErased
    PROVE  Spec => []WidePairs
  <1>1. Init => Wide(term)
    BY InitWide
  <1>2. Wide(term) /\ [Next]_vars => Wide(term)'
    BY WideStep
  <1>3. Wide(term) => WidePairs
    BY WideIsPaired
  <1> QED
    BY <1>1, <1>2, <1>3, PTL DEF Spec

=============================================================================
