----------------------------- MODULE FoldProofs -----------------------------
(***************************************************************************)
(* Induction over natural numbers and what FoldLeft computes, for modules  *)
(* whose operators fold over sequences.                                    *)
(*                                                                         *)
(* Induction is by least elements of sets of numbers: to prove something   *)
(* of every k, collect the k of which it holds in a set.                   *)
(***************************************************************************)
EXTENDS Integers, SequencesExt, SequenceTheorems, WellFoundedInduction, TLAPS

(* Every set of numbers that is not empty has a least element.             *)
LEMMA LeastElement ==
    ASSUME NEW T, T \subseteq Nat, T # {}
    PROVE  \E x \in T : \A y \in T : x <= y
  <1> DEFINE R == OpToRel(<, Nat)
  <1>1. IsWellFoundedOn(R, Nat)
    BY NatLessThanWellFounded
  <1>2. \A x, y \in Nat : x < y => <<x, y>> \in R
    BY DEF OpToRel
  <1> HIDE DEF R
  <1>3. PICK x \in T : \A y \in T : ~ (<<y, x>> \in R)
    BY <1>1, WFMin
  <1>4. \A y \in T : ~ (y < x)
    BY <1>2, <1>3, Zenon
  <1> QED
    BY <1>3, <1>4

(* Induction up to n: T holds the numbers the claim is true of.            *)
LEMMA UpTo ==
    ASSUME NEW n \in Nat, NEW T, 0 \in T, \A k \in 1..n : k - 1 \in T => k \in T
    PROVE  \A k \in 0..n : k \in T
  <1> SUFFICES ASSUME (0..n) \ T # {} PROVE FALSE
    OBVIOUS
  <1> DEFINE U == (0..n) \ T
  <1>1. PICK x \in U : \A y \in U : x <= y
    <2>1. U \subseteq Nat /\ U # {}
      OBVIOUS
    <2> HIDE DEF U
    <2> QED
      BY <2>1, LeastElement
  <1>2. x \in 1..n /\ x - 1 \in 0..n
    BY <1>1
  <1>3. x - 1 \in T
    BY <1>1, <1>2
  <1> QED
    BY <1>1, <1>2, <1>3

LEMMA MaxOfInterval ==
    ASSUME NEW k \in Nat \ {0}
    PROVE  /\ 1..k # {} /\ Max(1..k) = k /\ (1..k) \ {Max(1..k)} = 1..(k - 1)
  <1>1. \A x \in 1..k : (\A y \in 1..k : x >= y) <=> x = k
    OBVIOUS
  <1>2. Max(1..k) = k
    BY <1>1, k \in 1..k DEF Max
  <1> QED
    BY <1>2

(* Max of a set of positions is one of them.                               *)
LEMMA MaxIn ==
    ASSUME NEW n \in Nat, NEW s \in SUBSET (1..n), s # {}
    PROVE  Max(s) \in s /\ (\A y \in s : Max(s) >= y)
  <1> DEFINE U == {m \in 0..n : \A y \in s : y <= m}
  <1>1. PICK m \in U : \A y \in U : m <= y
    <2>1. U \subseteq Nat /\ n \in U
      OBVIOUS
    <2> HIDE DEF U
    <2> QED
      BY <2>1, LeastElement
  <1>2. m \in s
    <2>1. CASE m = 0
      <3>1. PICK y \in s : TRUE
        OBVIOUS
      <3>2. y <= m /\ y \in 1..n
        BY <1>1, <3>1
      <3> QED
        BY <2>1, <3>2
    <2>2. CASE m # 0 /\ m \notin s
      <3>1. m - 1 \in U
        BY <2>2, <1>1
      <3> QED
        BY <3>1, <1>1
    <2> QED
      BY <2>1, <2>2
  <1>3. \E x \in s : \A y \in s : x >= y
    BY <1>1, <1>2
  <1> QED
    BY <1>3 DEF Max

(* A step function on A that takes elements of E, iterated as FoldLeft     *)
(* does it: the function that FoldLeft chooses exists.                     *)
Iterates(g, op, base, seq) ==
    g = [s \in SUBSET (DOMAIN seq) |->
           IF s = {} THEN base ELSE op[<<g[s \ {Max(s)}], seq[Max(s)]>>]]

LEMMA IterationExists ==
    ASSUME NEW A, NEW E, NEW op \in [A \X E -> A], NEW base \in A, NEW seq \in Seq(E)
    PROVE  \E g \in [SUBSET (DOMAIN seq) -> A] : Iterates(g, op, base, seq)
  <1> DEFINE n == Len(seq)
             Good(g, k) == \A s \in SUBSET (1..k) :
                g[s] = IF s = {} THEN base ELSE op[<<g[s \ {Max(s)}], seq[Max(s)]>>]
             T == {k \in 0..n : \E g \in [SUBSET (1..k) -> A] : Good(g, k)}
  <1>0. n \in Nat /\ DOMAIN seq = 1..n /\ \A i \in 1..n : seq[i] \in E
    OBVIOUS
  <1>1. 0 \in T
    <2> DEFINE g == [s \in SUBSET (1..0) |-> base]
    <2>1. \A s \in SUBSET (1..0) : s = {}
      OBVIOUS
    <2>2. g \in [SUBSET (1..0) -> A]
      OBVIOUS
    <2>3. Good(g, 0)
      BY <2>1
    <2>4. \E f \in [SUBSET (1..0) -> A] : Good(f, 0)
      BY <2>2, <2>3
    <2>5. 0 \in 0..n
      BY <1>0
    <2> HIDE DEF Good, n
    <2> QED
      BY <2>4, <2>5
  <1>2. ASSUME NEW k \in 1..n, k - 1 \in T
        PROVE  k \in T
    <2>1. PICK g \in [SUBSET (1..(k - 1)) -> A] : Good(g, k - 1)
      BY <1>2
    <2> DEFINE f == [s \in SUBSET (1..k) |->
                       IF k \in s THEN op[<<g[s \ {k}], seq[k]>>] ELSE g[s]]
    <2>2. ASSUME NEW s \in SUBSET (1..k)
          PROVE  /\ k \in s => s \ {k} \in SUBSET (1..(k - 1)) /\ Max(s) = k
                 /\ k \notin s => s \in SUBSET (1..(k - 1))
                 /\ s # {} => Max(s) \in s
                 /\ s # {} => Max(s) \in 1..k
      <3>1. k \in Nat
        BY <1>0
      <3>2. s # {} => Max(s) \in s /\ \A y \in s : Max(s) >= y
        BY <3>1, MaxIn
      <3>3. \A y \in s : y \in 1..k
        OBVIOUS
      <3>4. s # {} => Max(s) \in 1..k
        BY <3>2, <3>3
      <3>5. ASSUME k \in s PROVE Max(s) = k
        BY <3>1, <3>2, <3>4, <3>5
      <3>6. k \notin s => s \in SUBSET (1..(k - 1))
        BY <3>1, <3>3
      <3>7. s \ {k} \in SUBSET (1..(k - 1))
        BY <3>1, <3>3
      <3> QED
        BY <3>2, <3>4, <3>5, <3>6, <3>7
    <2>3. f \in [SUBSET (1..k) -> A]
      <3>1. ASSUME NEW s \in SUBSET (1..k) PROVE f[s] \in A
        <4>1. CASE k \in s
          <5>1. g[s \ {k}] \in A
            BY <4>1, <2>2
          <5>2. seq[k] \in E
            BY <1>0
          <5>3. f[s] = op[<<g[s \ {k}], seq[k]>>]
            BY <4>1
          <5>4. <<g[s \ {k}], seq[k]>> \in A \X E
            BY <5>1, <5>2
          <5> QED
            BY <5>3, <5>4
        <4>2. CASE k \notin s
          BY <4>2, <2>2
        <4> QED
          BY <4>1, <4>2
      <3> QED
        BY <3>1
    <2>4. Good(f, k)
      <3> SUFFICES ASSUME NEW s \in SUBSET (1..k)
                   PROVE  f[s] = IF s = {} THEN base ELSE op[<<f[s \ {Max(s)}], seq[Max(s)]>>]
        OBVIOUS
      <3>1. CASE k \in s
        <4>1. Max(s) = k /\ s # {} /\ s \ {k} \in SUBSET (1..(k - 1)) /\ k \notin s \ {k}
          BY <3>1, <2>2
        <4>2. f[s \ {k}] = g[s \ {k}]
          BY <4>1
        <4> QED
          BY <3>1, <4>1, <4>2
      <3>2. CASE k \notin s
        <4>1. s \in SUBSET (1..(k - 1)) /\ f[s] = g[s]
          BY <3>2, <2>2
        <4>2. g[s] = IF s = {} THEN base ELSE op[<<g[s \ {Max(s)}], seq[Max(s)]>>]
          BY <4>1, <2>1
        <4>3. f[s \ {Max(s)}] = g[s \ {Max(s)}]
          BY <3>2
        <4> QED
          BY <4>1, <4>2, <4>3
      <3> QED
        BY <3>1, <3>2
    <2>5. \E h \in [SUBSET (1..k) -> A] : Good(h, k)
      BY <2>3, <2>4
    <2> HIDE DEF Good
    <2> QED
      BY <1>0, <2>5
  <1>3. n \in T
    <2> HIDE DEF T, n
    <2>1. \A k \in 0..n : k \in T
      BY <1>0, <1>1, <1>2, UpTo
    <2> QED
      BY <1>0, <2>1
  <1>4. PICK g \in [SUBSET (1..n) -> A] : Good(g, n)
    BY <1>3
  <1>5. Iterates(g, op, base, seq)
    BY <1>0, <1>4 DEF Iterates
  <1> QED
    BY <1>0, <1>4, <1>5

(* A function that behaves as one that FoldLeft chooses, as long as it     *)
(* stays in A, and the chain of results it goes through.                   *)
Foldable(A, E, op, base, seq) ==
    op \in [A \X E -> A] /\ base \in A /\ seq \in Seq(E)

Folds(f, A, E, op, base, seq) ==
    /\ Foldable(A, E, op, base, seq)
    /\ f[{}] = base
    /\ \A s \in SUBSET (DOMAIN seq) : s # {} /\ f[s \ {Max(s)}] \in A =>
          f[s] = op[<<f[s \ {Max(s)}], seq[Max(s)]>>]

Chain(h, A, op, base, seq, result) ==
    /\ h \in [0..Len(seq) -> A]
    /\ h[0] = base /\ h[Len(seq)] = result
    /\ \A k \in 1..Len(seq) : h[k] = op[<<h[k - 1], seq[k]>>]

LEMMA ChainOfFold ==
    ASSUME NEW A, NEW E, NEW op, NEW base, NEW seq, NEW f, Folds(f, A, E, op, base, seq)
    PROVE  \E h : Chain(h, A, op, base, seq, f[DOMAIN seq])
  <1> DEFINE n == Len(seq)
             T == {k \in 0..n : f[1..k] \in A}
             h == [k \in 0..n |-> f[1..k]]
  <1>0. n \in Nat /\ DOMAIN seq = 1..n /\ \A i \in 1..n : seq[i] \in E
    BY DEF Folds, Foldable
  <1>1. ASSUME NEW k \in 1..n, f[1..(k - 1)] \in A
        PROVE  f[1..k] = op[<<f[1..(k - 1)], seq[k]>>] /\ f[1..k] \in A
    <2>1. k \in Nat \ {0}
      BY <1>0
    <2>2. 1..k # {} /\ Max(1..k) = k /\ (1..k) \ {Max(1..k)} = 1..(k - 1)
      BY <2>1, MaxOfInterval
    <2>3. 1..k \in SUBSET (DOMAIN seq)
      BY <1>0
    <2>4. f[1..k] = op[<<f[1..(k - 1)], seq[k]>>]
      BY <2>2, <2>3, <1>1 DEF Folds, Foldable
    <2>5. <<f[1..(k - 1)], seq[k]>> \in A \X E
      BY <1>0, <1>1
    <2> QED
      BY <2>4, <2>5 DEF Folds, Foldable
  <1>2. 1..0 = {} /\ f[1..0] = base /\ f[1..0] \in A /\ 0 \in 0..n
    <2>1. 1..0 = {}
      OBVIOUS
    <2> QED
      BY <1>0, <2>1 DEF Folds, Foldable
  <1>3. \A k \in 0..n : k \in T
    <2>1. 0 \in T
      BY <1>2
    <2>2. ASSUME NEW k \in 1..n, k - 1 \in T PROVE k \in T
      <3>1. k \in 0..n /\ f[1..(k - 1)] \in A
        BY <1>0, <2>2
      <3>2. f[1..k] \in A
        BY <1>1, <3>1
      <3> QED
        BY <3>1, <3>2
    <2> HIDE DEF T, n
    <2> QED
      BY <1>0, <2>1, <2>2, UpTo
  <1>4. h \in [0..n -> A]
    BY <1>3
  <1>5. \A k \in 1..n : k \in 0..n /\ k - 1 \in 0..n
    BY <1>0
  <1>6. \A k \in 1..n : h[k] = op[<<h[k - 1], seq[k]>>]
    BY <1>1, <1>4, <1>5
  <1>7. h[0] = base /\ h[n] = f[DOMAIN seq]
    BY <1>0, <1>2
  <1>8. Chain(h, A, op, base, seq, f[DOMAIN seq])
    BY <1>4, <1>6, <1>7 DEF Chain
  <1> QED
    BY <1>8

(* An iteration on A is what FoldLeft chooses among.                       *)
IterationOnA(g, A, E, op, base, seq) ==
    /\ g \in [SUBSET (DOMAIN seq) -> A]
    /\ g[{}] = base
    /\ \A s \in SUBSET (DOMAIN seq) : s # {} =>
         /\ g[s \ {Max(s)}] \in A /\ seq[Max(s)] \in E
         /\ g[s] = op[<<g[s \ {Max(s)}], seq[Max(s)]>>]

LEMMA IterationOnAExists ==
    ASSUME NEW A, NEW E, NEW op, NEW base, NEW seq, Foldable(A, E, op, base, seq)
    PROVE  \E g : IterationOnA(g, A, E, op, base, seq)
  <1>0. op \in [A \X E -> A] /\ base \in A /\ seq \in Seq(E)
    BY DEF Foldable
  <1>1. PICK g \in [SUBSET (DOMAIN seq) -> A] : Iterates(g, op, base, seq)
    BY <1>0, IterationExists
  <1>2. Len(seq) \in Nat /\ DOMAIN seq = 1..Len(seq) /\ \A i \in DOMAIN seq : seq[i] \in E
    BY <1>0
  <1>3. \A s \in SUBSET (DOMAIN seq) : s # {} => Max(s) \in DOMAIN seq
    BY <1>2, MaxIn
  <1>4. g[{}] = base
    BY <1>1 DEF Iterates
  <1>5. ASSUME NEW s \in SUBSET (DOMAIN seq), s # {}
        PROVE  /\ g[s \ {Max(s)}] \in A /\ seq[Max(s)] \in E
               /\ g[s] = op[<<g[s \ {Max(s)}], seq[Max(s)]>>]
    BY <1>1, <1>2, <1>3, <1>5 DEF Iterates
  <1> QED
    BY <1>1, <1>4, <1>5 DEF IterationOnA

-----------------------------------------------------------------------------
(* Folds, split and extended.                                              *)

(* Folding seq from base, step by step in A, ends in result.               *)
FoldsTo(A, E, op, base, seq, result) ==
    /\ Foldable(A, E, op, base, seq)
    /\ \E h : Chain(h, A, op, base, seq, result)

LEMMA FoldOfEmpty ==
    ASSUME NEW A, NEW E, NEW op \in [A \X E -> A], NEW base \in A
    PROVE  FoldsTo(A, E, op, base, <<>>, base)
  <1> DEFINE h == [k \in 0..0 |-> base]
  <1>1. Len(<<>>) = 0 /\ <<>> \in Seq(E) /\ 1..0 = {}
    OBVIOUS
  <1>2. Chain(h, A, op, base, <<>>, base)
    BY <1>1 DEF Chain
  <1> HIDE DEF h
  <1> QED
    BY <1>1, <1>2 DEF FoldsTo, Foldable

LEMMA FoldResult ==
    ASSUME NEW A, NEW E, NEW op, NEW base, NEW seq, NEW result,
           FoldsTo(A, E, op, base, seq, result)
    PROVE  result \in A
  <1>1. PICK h : Chain(h, A, op, base, seq, result)
    BY DEF FoldsTo
  <1>2. Len(seq) \in Nat
    BY DEF FoldsTo, Foldable
  <1> QED
    BY <1>1, <1>2 DEF Chain

LEMMA FoldUnique ==
    ASSUME NEW A, NEW E, NEW op, NEW base, NEW seq, NEW r1, NEW r2,
           FoldsTo(A, E, op, base, seq, r1), FoldsTo(A, E, op, base, seq, r2)
    PROVE  r1 = r2
  <1>1. PICK f : Chain(f, A, op, base, seq, r1)
    BY DEF FoldsTo
  <1>2. PICK g : Chain(g, A, op, base, seq, r2)
    BY DEF FoldsTo
  <1> DEFINE n == Len(seq)
             T == {k \in 0..n : f[k] = g[k]}
  <1>3. n \in Nat
    BY DEF FoldsTo, Foldable
  <1>4. 0 \in T
    BY <1>1, <1>2, <1>3 DEF Chain
  <1>5. ASSUME NEW k \in 1..n, k - 1 \in T PROVE k \in T
    <2>1. f[k] = op[<<f[k - 1], seq[k]>>] /\ g[k] = op[<<g[k - 1], seq[k]>>]
      BY <1>1, <1>2 DEF Chain
    <2> QED
      BY <1>3, <1>5, <2>1
  <1>6. \A k \in 0..n : k \in T
    <2> HIDE DEF T, n
    <2> QED
      BY <1>3, <1>4, <1>5, UpTo
  <1>7. f[n] = g[n]
    BY <1>3, <1>6
  <1> QED
    BY <1>1, <1>2, <1>7 DEF Chain

(* One more element is one more step.                                      *)
LEMMA FoldOfAppend ==
    ASSUME NEW A, NEW E, NEW op, NEW base, NEW seq, NEW result,
           FoldsTo(A, E, op, base, seq, result), NEW e \in E
    PROVE  FoldsTo(A, E, op, base, Append(seq, e), op[<<result, e>>])
  <1>1. PICK f : Chain(f, A, op, base, seq, result)
    BY DEF FoldsTo
  <1>2. op \in [A \X E -> A] /\ base \in A /\ seq \in Seq(E)
    BY DEF FoldsTo, Foldable
  <1> DEFINE n == Len(seq)
             more == Append(seq, e)
             last == op[<<result, e>>]
             h == [k \in 0..(n + 1) |-> IF k = n + 1 THEN last ELSE f[k]]
  <1>3. /\ n \in Nat /\ more \in Seq(E) /\ Len(more) = n + 1 /\ more[n + 1] = e
        /\ \A k \in 1..n : more[k] = seq[k]
    BY <1>2
  <1>4. /\ f \in [0..n -> A] /\ f[0] = base /\ f[n] = result
        /\ \A k \in 1..n : f[k] = op[<<f[k - 1], seq[k]>>]
    BY <1>1 DEF Chain
  <1>5. result \in A /\ last \in A
    <2>1. result \in A
      BY <1>3, <1>4
    <2>2. <<result, e>> \in A \X E
      BY <2>1
    <2> QED
      BY <1>2, <2>1, <2>2
  <1> HIDE DEF n, more, last
  <1>6. h \in [0..(n + 1) -> A]
    BY <1>3, <1>4, <1>5
  <1>7. h[0] = base /\ h[n + 1] = last
    BY <1>3, <1>4
  <1>8. ASSUME NEW k \in 1..(n + 1) PROVE h[k] = op[<<h[k - 1], more[k]>>]
    <2>1. CASE k = n + 1
      <3>1. k - 1 = n /\ n \in 0..(n + 1) /\ n # n + 1
        BY <1>3, <2>1
      <3>2. h[k] = last /\ h[k - 1] = result
        BY <1>3, <1>4, <2>1, <3>1
      <3> QED
        BY <1>3, <2>1, <3>2 DEF last
    <2>2. CASE k # n + 1
      <3>1. k \in 1..n /\ k - 1 \in 0..(n + 1) /\ k - 1 # n + 1 /\ k \in 0..(n + 1)
        BY <1>3, <2>2
      <3>2. h[k] = f[k] /\ h[k - 1] = f[k - 1]
        BY <2>2, <3>1
      <3> QED
        BY <1>3, <1>4, <3>1, <3>2
    <2> QED
      BY <2>1, <2>2
  <1> HIDE DEF h
  <1>9. Chain(h, A, op, base, more, last)
    BY <1>3, <1>6, <1>7, <1>8 DEF Chain
  <1>10. FoldsTo(A, E, op, base, more, last)
    BY <1>2, <1>3, <1>9 DEF FoldsTo, Foldable
  <1> QED
    BY <1>10 DEF more, last

(* A fold over two pieces is the fold over the second from the result of   *)
(* the first.                                                              *)
LEMMA FoldOfConcat ==
    ASSUME NEW A, NEW E, NEW op, NEW base, NEW a, NEW b, NEW r1, NEW r2,
           FoldsTo(A, E, op, base, a, r1), FoldsTo(A, E, op, r1, b, r2)
    PROVE  FoldsTo(A, E, op, base, a \o b, r2)
  <1>1. PICK f : Chain(f, A, op, base, a, r1)
    BY DEF FoldsTo
  <1>2. PICK g : Chain(g, A, op, r1, b, r2)
    BY DEF FoldsTo
  <1>3. op \in [A \X E -> A] /\ base \in A /\ a \in Seq(E) /\ b \in Seq(E)
    BY DEF FoldsTo, Foldable
  <1> DEFINE n == Len(a)  m == Len(b)  c == a \o b
             h == [k \in 0..(n + m) |-> IF k <= n THEN f[k] ELSE g[k - n]]
  <1>4. /\ n \in Nat /\ m \in Nat /\ c \in Seq(E) /\ Len(c) = n + m
        /\ \A k \in 1..n : c[k] = a[k]
        /\ \A k \in 1..(n + m) : k > n => c[k] = b[k - n]
    BY <1>3
  <1>5. /\ f \in [0..n -> A] /\ f[0] = base /\ f[n] = r1
        /\ \A k \in 1..n : f[k] = op[<<f[k - 1], a[k]>>]
    BY <1>1 DEF Chain
  <1>6. /\ g \in [0..m -> A] /\ g[0] = r1 /\ g[m] = r2
        /\ \A k \in 1..m : g[k] = op[<<g[k - 1], b[k]>>]
    BY <1>2 DEF Chain
  <1> HIDE DEF n, m, c
  <1>7. h \in [0..(n + m) -> A]
    BY <1>4, <1>5, <1>6
  <1>8. h[0] = base
    BY <1>4, <1>5
  <1>9. h[n + m] = r2
    <2>1. CASE m = 0
      BY <1>4, <1>5, <1>6, <2>1
    <2>2. CASE m # 0
      BY <1>4, <1>6, <2>2
    <2> QED
      BY <2>1, <2>2
  <1>10. ASSUME NEW k \in 1..(n + m) PROVE h[k] = op[<<h[k - 1], c[k]>>]
    <2>1. CASE k <= n
      <3>1. k \in 1..n /\ k - 1 \in 0..(n + m) /\ k - 1 <= n /\ k \in 0..(n + m)
        BY <1>4, <2>1
      <3>2. h[k] = f[k] /\ h[k - 1] = f[k - 1]
        BY <2>1, <3>1
      <3> QED
        BY <1>4, <1>5, <3>1, <3>2
    <2>2. CASE k > n
      <3>1. /\ k - n \in 1..m /\ k - 1 \in 0..(n + m) /\ k \in 0..(n + m)
            /\ (k - n) - 1 = (k - 1) - n
        BY <1>4, <2>2
      <3>2. h[k] = g[k - n]
        BY <1>4, <2>2, <3>1
      <3>3. h[k - 1] = g[(k - n) - 1]
        <4>1. CASE k - 1 <= n
          <5>1. k - 1 = n /\ (k - n) - 1 = 0
            BY <1>4, <2>2, <4>1
          <5>2. h[k - 1] = f[n]
            BY <3>1, <5>1, <4>1
          <5> QED
            BY <1>5, <1>6, <5>1, <5>2
        <4>2. CASE ~ (k - 1 <= n)
          BY <3>1, <4>2
        <4> QED
          BY <4>1, <4>2
      <3>4. g[k - n] = op[<<g[(k - n) - 1], b[k - n]>>]
        BY <1>6, <3>1
      <3> QED
        BY <1>4, <2>2, <3>2, <3>3, <3>4
    <2> QED
      BY <1>4, <2>1, <2>2
  <1> HIDE DEF h
  <1>11. Chain(h, A, op, base, c, r2)
    BY <1>4, <1>7, <1>8, <1>9, <1>10 DEF Chain
  <1>12. FoldsTo(A, E, op, base, c, r2)
    BY <1>3, <1>4, <1>11 DEF FoldsTo, Foldable
  <1> QED
    BY <1>12 DEF c

(* The function that FoldLeft chooses leads to the result of the fold.     *)
LEMMA FoldsToResult ==
    ASSUME NEW A, NEW E, NEW op, NEW base, NEW seq, NEW f, Folds(f, A, E, op, base, seq)
    PROVE  FoldsTo(A, E, op, base, seq, f[DOMAIN seq])
  <1>1. PICK h : Chain(h, A, op, base, seq, f[DOMAIN seq])
    BY ChainOfFold
  <1> QED
    BY <1>1 DEF FoldsTo, Folds

-----------------------------------------------------------------------------
(* Flattened sequences.                                                    *)

LEMMA FlattenChain ==
    ASSUME NEW S, NEW seqs \in Seq(Seq(S)), seqs # <<>>
    PROVE  \E f \in [1..Len(seqs) -> Seq(S)] :
              /\ f[1] = seqs[1] /\ f[Len(seqs)] = FlattenSeq(seqs)
              /\ \A i \in 2..Len(seqs) : f[i] = f[i - 1] \o seqs[i]
  <1> DEFINE n == Len(seqs)
             F(g) == [i \in 1..n |-> IF i = 1 THEN seqs[i] ELSE g[i - 1] \o seqs[i]]
             it == CHOOSE g : g = F(g)
             Good(g, k) == g[1] = seqs[1] /\ \A i \in 2..k : g[i] = g[i - 1] \o seqs[i]
             T == {k \in 0..n : k = 0 \/ \E g \in [1..k -> Seq(S)] : Good(g, k)}
  <1>0. n \in Nat /\ n # 0 /\ DOMAIN seqs = 1..n /\ \A i \in 1..n : seqs[i] \in Seq(S)
    OBVIOUS
  <1>1. FlattenSeq(seqs) = it[n]
    BY <1>0 DEF FlattenSeq
  <1> HIDE DEF n
  <1>2. 0 \in T
    BY <1>0
  <1>3. ASSUME NEW k \in 1..n, k - 1 \in T PROVE k \in T
    <2>1. CASE k = 1
      <3> DEFINE g == [i \in 1..1 |-> seqs[1]]
      <3>1. g \in [1..1 -> Seq(S)] /\ Good(g, 1)
        BY <1>0
      <3>2. \E h \in [1..k -> Seq(S)] : Good(h, k)
        BY <2>1, <3>1
      <3> HIDE DEF Good
      <3> QED
        BY <1>0, <2>1, <3>2
    <2>2. CASE k # 1
      <3>0. k \in Nat /\ k - 1 \in Nat \ {0} /\ k - 1 # 0 /\ k \in 0..n
        BY <1>0, <2>2
      <3>1. PICK g \in [1..(k - 1) -> Seq(S)] : Good(g, k - 1)
        BY <1>3, <3>0
      <3> DEFINE f == [i \in 1..k |-> IF i = k THEN g[k - 1] \o seqs[k] ELSE g[i]]
      <3>2. f \in [1..k -> Seq(S)]
        <4>1. k - 1 \in 1..(k - 1) /\ g[k - 1] \in Seq(S) /\ seqs[k] \in Seq(S)
          BY <1>0, <3>0
        <4>2. g[k - 1] \o seqs[k] \in Seq(S)
          BY <4>1
        <4>3. \A i \in 1..k : i # k => i \in 1..(k - 1)
          BY <3>0
        <4> QED
          BY <4>2, <4>3
      <3>3. f[1] = seqs[1]
        BY <3>0, <3>1, <2>2
      <3>4. ASSUME NEW i \in 2..k PROVE f[i] = f[i - 1] \o seqs[i]
        <4>1. i \in 1..k /\ i - 1 \in 1..k /\ i - 1 # k
          BY <3>0
        <4>2. CASE i = k
          BY <4>1, <4>2
        <4>3. CASE i # k
          <5>1. i \in 2..(k - 1)
            BY <3>0, <4>3
          <5> QED
            BY <3>1, <4>1, <4>3, <5>1
        <4> QED
          BY <4>2, <4>3
      <3>5. \E h \in [1..k -> Seq(S)] : Good(h, k)
        BY <3>2, <3>3, <3>4
      <3> HIDE DEF Good
      <3> QED
        BY <3>0, <3>5
    <2> QED
      BY <2>1, <2>2
  <1>4. n \in T
    <2> HIDE DEF T
    <2>1. \A k \in 0..n : k \in T
      BY <1>0, <1>2, <1>3, UpTo
    <2> QED
      BY <1>0, <2>1
  <1>5. PICK g \in [1..n -> Seq(S)] : Good(g, n)
    BY <1>0, <1>4
  <1>6. g = F(g)
    <2>1. ASSUME NEW i \in 1..n PROVE g[i] = IF i = 1 THEN seqs[i] ELSE g[i - 1] \o seqs[i]
      <3>1. i # 1 => i \in 2..n
        BY <1>0
      <3> QED
        BY <1>5, <3>1
    <2> QED
      BY <2>1
  <1>7. it = F(it)
    BY <1>6
  <1> HIDE DEF it
  <1>8. it[1] = seqs[1]
    BY <1>0, <1>7
  <1>9. ASSUME NEW i \in 2..n PROVE it[i] = it[i - 1] \o seqs[i]
    <2>1. i \in 1..n /\ i # 1
      BY <1>0
    <2> QED
      BY <1>7, <2>1
  <1>10. \A k \in 0..n : k \in 1..n => it[k] = g[k]
    <2> DEFINE U == {k \in 0..n : k \in 1..n => it[k] = g[k]}
    <2>1. 0 \in U
      BY <1>0
    <2>2. ASSUME NEW k \in 1..n, k - 1 \in U PROVE k \in U
      <3>1. CASE k = 1
        BY <1>0, <1>5, <1>8, <3>1
      <3>2. CASE k # 1
        <4>1. k \in 2..n /\ k - 1 \in 1..n
          BY <1>0, <3>2
        <4>2. it[k] = g[k]
          BY <1>5, <1>9, <2>2, <4>1
        <4> QED
          BY <1>0, <4>2
      <3> QED
        BY <3>1, <3>2
    <2> HIDE DEF U
    <2>3. \A k \in 0..n : k \in U
      BY <1>0, <2>1, <2>2, UpTo
    <2> USE DEF U
    <2> QED
      BY <2>3
  <1>11. g[n] = FlattenSeq(seqs)
    BY <1>0, <1>1, <1>10
  <1> QED
    BY <1>5, <1>11 DEF n

LEMMA FlattenOne ==
    ASSUME NEW S, NEW c \in Seq(S)
    PROVE  FlattenSeq(<<c>>) = c
  <1>1. <<c>> \in Seq(Seq(S)) /\ <<c>> # <<>> /\ Len(<<c>>) = 1 /\ <<c>>[1] = c
    OBVIOUS
  <1> QED
    BY <1>1, FlattenChain

LEMMA FlattenType ==
    ASSUME NEW S, NEW seqs \in Seq(Seq(S))
    PROVE  FlattenSeq(seqs) \in Seq(S) /\ (seqs = <<>> => FlattenSeq(seqs) = <<>>)
  <1>1. CASE seqs = <<>>
    BY <1>1 DEF FlattenSeq
  <1>2. CASE seqs # <<>>
    <2>1. Len(seqs) \in 1..Len(seqs)
      BY <1>2
    <2>2. PICK f \in [1..Len(seqs) -> Seq(S)] : f[Len(seqs)] = FlattenSeq(seqs)
      BY <1>2, FlattenChain
    <2> QED
      BY <1>2, <2>1, <2>2
  <1> QED
    BY <1>1, <1>2

(* What is put behind the sequences comes behind what they flatten to.     *)
LEMMA FlattenAppend ==
    ASSUME NEW S, NEW seqs \in Seq(Seq(S)), NEW c \in Seq(S)
    PROVE  FlattenSeq(Append(seqs, c)) = FlattenSeq(seqs) \o c
  <1> DEFINE n == Len(seqs)
             more == Append(seqs, c)
  <1>0. /\ n \in Nat /\ more \in Seq(Seq(S)) /\ more # <<>> /\ Len(more) = n + 1
        /\ more[n + 1] = c /\ \A i \in 1..n : more[i] = seqs[i] /\ seqs[i] \in Seq(S)
    OBVIOUS
  <1>1. CASE seqs = <<>>
    <2>1. more = <<c>>
      BY <1>1
    <2>2. FlattenSeq(seqs) = <<>>
      BY <1>1, FlattenType
    <2> QED
      BY <2>1, <2>2, FlattenOne
  <1>2. CASE seqs # <<>>
    <2>1. PICK f \in [1..n -> Seq(S)] :
                 /\ f[1] = seqs[1] /\ f[n] = FlattenSeq(seqs)
                 /\ \A i \in 2..n : f[i] = f[i - 1] \o seqs[i]
      BY <1>2, FlattenChain
    <2>2. n # 0
      BY <1>2
    <2>2a. more \in Seq(Seq(S)) /\ more # <<>>
      BY <1>0
    <2> HIDE DEF more
    <2>2b. \E g \in [1..Len(more) -> Seq(S)] :
             /\ g[1] = more[1] /\ g[Len(more)] = FlattenSeq(more)
             /\ \A i \in 2..Len(more) : g[i] = g[i - 1] \o more[i]
      BY <2>2a, FlattenChain, Zenon
    <2> HIDE DEF n
    <2>3. PICK g \in [1..Len(more) -> Seq(S)] :
                 /\ g[1] = more[1] /\ g[Len(more)] = FlattenSeq(more)
                 /\ \A i \in 2..Len(more) : g[i] = g[i - 1] \o more[i]
      BY <2>2b
    <2>4. \A k \in 0..n : k \in 1..n => g[k] = f[k]
      <3> DEFINE U == {k \in 0..n : k \in 1..n => g[k] = f[k]}
      <3>1. 0 \in U
        BY <1>0
      <3>2. ASSUME NEW k \in 1..n, k - 1 \in U PROVE k \in U
        <4>1. CASE k = 1
          BY <1>0, <2>1, <2>3, <4>1
        <4>2. CASE k # 1
          <5>1. k \in 2..n /\ k - 1 \in 1..n /\ k \in 2..Len(more)
            BY <1>0, <4>2
          <5>2. g[k] = f[k]
            BY <1>0, <2>1, <2>3, <3>2, <5>1
          <5> QED
            BY <1>0, <5>2
        <4> QED
          BY <4>1, <4>2
      <3> HIDE DEF U
      <3>3. \A k \in 0..n : k \in U
        BY <1>0, <3>1, <3>2, UpTo
      <3> USE DEF U
      <3> QED
        BY <3>3
    <2>5. n + 1 \in 2..Len(more) /\ (n + 1) - 1 = n /\ n \in 0..n /\ n \in 1..n
      BY <1>0, <2>2
    <2>6. g[n + 1] = g[(n + 1) - 1] \o more[n + 1]
      BY <2>3, <2>5
    <2>7. g[n] = f[n]
      BY <2>4, <2>5
    <2>8. FlattenSeq(more) = FlattenSeq(seqs) \o c
      BY <1>0, <2>1, <2>3, <2>5, <2>6, <2>7
    <2> QED
      BY <2>8 DEF more
  <1> QED
    BY <1>1, <1>2

(* What one of the sequences holds, all of them together hold.             *)
LEMMA FlattenHolds ==
    ASSUME NEW S, NEW seqs \in Seq(Seq(S)), NEW i \in 1..Len(seqs), NEW j \in 1..Len(seqs[i])
    PROVE  \E k \in DOMAIN FlattenSeq(seqs) : FlattenSeq(seqs)[k] = seqs[i][j]
  <1> DEFINE n == Len(seqs)
  <1>0. n \in Nat /\ seqs # <<>> /\ \A m \in 1..n : seqs[m] \in Seq(S)
    OBVIOUS
  <1>1. PICK f \in [1..n -> Seq(S)] :
          /\ f[1] = seqs[1] /\ f[n] = FlattenSeq(seqs)
          /\ \A m \in 2..n : f[m] = f[m - 1] \o seqs[m]
    BY <1>0, FlattenChain
  <1> HIDE DEF n
  <1> DEFINE x == seqs[i][j]
             Has(q) == \E k \in 1..Len(q) : q[k] = x
             T == {d \in 0..(n - i) : Has(f[i + d])}
  <1>2. i \in 1..n /\ i \in Nat
    BY <1>0 DEF n
  <1>3. 0 \in T
    <2>1. i = 1 \/ i \in 2..n
      BY <1>0, <1>2
    <2>2. CASE i = 1
      <3>1. Has(f[1])
        BY <1>1, <2>2
      <3> QED
        BY <1>0, <1>2, <2>2, <3>1
    <2>3. CASE i \in 2..n
      <3> DEFINE p == f[i - 1]
                 s == seqs[i]
      <3>0. i - 1 \in 1..n
        BY <1>0, <1>2, <2>3
      <3>1. p \in Seq(S) /\ s \in Seq(S) /\ f[i] = p \o s
        BY <1>0, <1>1, <1>2, <2>3, <3>0
      <3>1a. j \in 1..Len(s) /\ s[j] = x
        OBVIOUS
      <3> HIDE DEF p, s, x
      <3>2. Len(p) + j \in 1..Len(p \o s) /\ (p \o s)[Len(p) + j] = x
        BY <3>1, <3>1a
      <3>3. Has(f[i])
        BY <3>1, <3>2
      <3> QED
        BY <1>0, <1>2, <3>3
    <2> QED
      BY <2>1, <2>2, <2>3
  <1>4. ASSUME NEW d \in 1..(n - i), d - 1 \in T
        PROVE  d \in T
    <2> DEFINE p == f[i + (d - 1)]
               m == i + d
    <2>1. m \in 2..n /\ m - 1 = i + (d - 1) /\ m - 1 \in 1..n
      BY <1>0, <1>2
    <2>2. Has(p)
      BY <1>4
    <2> HIDE DEF x
    <2>2a. p = f[m - 1]
      BY <2>1
    <2>2b. d \in 0..(n - i) /\ m = i + d
      BY <1>0, <1>2
    <2> HIDE DEF p, m
    <2>2c. f[m] = f[m - 1] \o seqs[m]
      BY <1>1, <2>1
    <2>2d. m \in 1..n
      BY <1>0, <2>1
    <2>2e. f[m - 1] \in Seq(S) /\ seqs[m] \in Seq(S)
      BY <1>0, <1>1, <2>1, <2>2d
    <2>3. p \in Seq(S) /\ seqs[m] \in Seq(S) /\ f[m] = p \o seqs[m]
      BY <2>2a, <2>2c, <2>2e
    <2>4. PICK k \in 1..Len(p) : p[k] = x
      BY <2>2
    <2>5. k \in 1..Len(p \o seqs[m]) /\ (p \o seqs[m])[k] = x
      BY <2>3, <2>4
    <2>6. Has(f[m])
      BY <2>3, <2>5
    <2> QED
      BY <2>2b, <2>6
  <1>5. n - i \in 0..(n - i) /\ n - i \in Nat /\ i + (n - i) = n
    BY <1>0, <1>2
  <1>6. n - i \in T
    <2> HIDE DEF T
    <2> QED
      BY <1>3, <1>4, <1>5, UpTo
  <1>7. Has(f[n])
    BY <1>5, <1>6
  <1>8. f[n] \in Seq(S)
    BY <1>0, <1>1, <1>2
  <1> QED
    BY <1>1, <1>7, <1>8

(* Sequences of at most one element together are no longer than they are   *)
(* many.                                                                   *)
LEMMA FlattenShort ==
    ASSUME NEW S, NEW seqs \in Seq(Seq(S)), \A i \in 1..Len(seqs) : Len(seqs[i]) <= 1
    PROVE  Len(FlattenSeq(seqs)) <= Len(seqs)
  <1>1. CASE seqs = <<>>
    <2>1. FlattenSeq(seqs) = <<>>
      BY <1>1, FlattenType
    <2> QED
      BY <1>1, <2>1
  <1>2. CASE seqs # <<>>
    <2> DEFINE n == Len(seqs)
    <2>0. n \in Nat /\ n >= 1 /\ \A m \in 1..n : seqs[m] \in Seq(S) /\ Len(seqs[m]) <= 1
      BY <1>2
    <2>1. PICK f \in [1..n -> Seq(S)] :
            /\ f[1] = seqs[1] /\ f[n] = FlattenSeq(seqs)
            /\ \A m \in 2..n : f[m] = f[m - 1] \o seqs[m]
      BY <1>2, FlattenChain
    <2> HIDE DEF n
    <2> DEFINE T == {d \in 0..(n - 1) : Len(f[d + 1]) <= d + 1}
    <2>2. 0 \in T
      BY <2>0, <2>1
    <2>3. ASSUME NEW d \in 1..(n - 1), d - 1 \in T
          PROVE  d \in T
      <3> DEFINE p == f[d]
                 s == seqs[d + 1]
      <3>1. d \in 1..n /\ d + 1 \in 2..n /\ (d - 1) + 1 = d /\ (d + 1) - 1 = d
        BY <2>0
      <3>1a. Len(f[(d - 1) + 1]) <= (d - 1) + 1
        BY <2>3
      <3>1b. Len(p) <= d
        BY <3>1, <3>1a
      <3>1c. f[d + 1] = f[(d + 1) - 1] \o s
        BY <2>1, <3>1
      <3>1d. p \in Seq(S) /\ s \in Seq(S) /\ Len(s) <= 1
        BY <2>0, <2>1, <3>1
      <3>2. p \in Seq(S) /\ s \in Seq(S) /\ Len(s) <= 1 /\ f[d + 1] = p \o s /\ Len(p) <= d
        BY <3>1, <3>1b, <3>1c, <3>1d
      <3> HIDE DEF p, s
      <3>3. Len(p \o s) <= d + 1
        BY <3>1, <3>2
      <3> QED
        BY <2>0, <3>2, <3>3
    <2>4. n - 1 \in 0..(n - 1) /\ n - 1 \in Nat /\ (n - 1) + 1 = n
      BY <2>0
    <2>5. n - 1 \in T
      <3> HIDE DEF T
      <3> QED
        BY <2>2, <2>3, <2>4, UpTo
    <2> QED
      BY <2>1, <2>4, <2>5 DEF n
  <1> QED
    BY <1>1, <1>2

=============================================================================
