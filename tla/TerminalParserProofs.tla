------------------------ MODULE TerminalParserProofs ------------------------
(***************************************************************************)
(* What the adapter and the parser of TerminalParser do to a terminal, for *)
(* any bytes and limits: its types are kept, every action is accounted     *)
(* for, and the actions do not depend on how the bytes are split.          *)
(***************************************************************************)
EXTENDS TerminalParser, FoldProofs, FiniteSetTheorems

-----------------------------------------------------------------------------
(* The types.                                                              *)

Payloads == [bytes : Seq(Byte), status : {"Truncated", "Complete"}, length : Nat]
Builders == [about : Byte \cup {"none"}, bytes : Seq(Byte), length : Nat, escape : BOOLEAN]

Kinds == {"Print", "Control", "Escape", "Csi", "Osc", "Dcs", "Apc", "Unsupported", "Resize"}
VteStates == {"ground", "escape", "csi", "csi_ignore", "dcs_entry", "dcs_ignore", "dcs_passthrough",
              "osc", "sos_pm_apc"}

(* The actions of the parsers, and with them those that resize to a size   *)
(* of Z.                                                                   *)
Dispatched == [kind : Kinds \ {"Resize"}, final : Byte \cup {"none"}, params : Seq(Byte),
               payload : Payloads]
Resizes(Z) == [kind : {"Resize"}, final : Z, params : Seq(Byte), payload : Payloads]
Applied(Z) == Dispatched \cup Resizes(Z)

Terminals(Z) ==
    [pending_escape : BOOLEAN, string_control : Builders, dcs : Builders,
     suppress : BOOLEAN, vte : VteStates, params : Seq(Byte), osc : Builders,
     actions : Seq(Dispatched), dropped : Nat, applied : Seq(Applied(Z))]

(* The size of the last resize is size.                                    *)
LastResize(w, size) ==
    \E i \in DOMAIN w.applied :
        /\ w.applied[i].kind = "Resize" /\ w.applied[i].final = size
        /\ \A j \in DOMAIN w.applied : w.applied[j].kind = "Resize" => j <= i

Handled(w)  == {i \in DOMAIN w.applied : w.applied[i].kind # "Resize"}
Answered(w) == {i \in Handled(w) : Generates(w.applied[i])}

(* The action buffer keeps its limit and counts what it does not keep.     *)
Accounted(w) ==
    /\ Len(w.actions) <= ActionLimit
    /\ Len(w.actions) + w.dropped = Cardinality(Handled(w)) + Cardinality(Answered(w))

(* A terminal that was last resized to size and holds no escape byte back. *)
Open(w, Z, size) == w \in Terminals(Z) /\ LastResize(w, size) /\ Accounted(w)

Parsers(Z, size) == {w \in Terminals(Z) : Open(w, Z, size) /\ ~w.pending_escape}

(* u comes of w without a change to the string the adapter collects.       *)
Continues(w, u, Z, size) ==
    u \in Parsers(Z, size) /\ u.string_control = w.string_control

LEMMA BytesAre ==
    /\ Esc \in Byte /\ Bel \in Byte /\ Can \in Byte /\ Backslash \in Byte
    /\ Digit \in Byte /\ Erase \in Byte /\ "none" \notin Byte
    /\ Esc # Bel /\ Esc # Can /\ Esc # Backslash /\ Bel # Can /\ ~IsTarget(Esc)
  BY DEF Byte, Finals, Digits, Private, Esc, Bel, Can, Backslash, Digit, Erase, IsTarget

LEMMA TerminalParts ==
    ASSUME NEW Z, NEW w \in Terminals(Z)
    PROVE  /\ w.pending_escape \in BOOLEAN /\ w.string_control \in Builders
           /\ w.dcs \in Builders /\ w.suppress \in BOOLEAN /\ w.vte \in VteStates
           /\ w.params \in Seq(Byte) /\ w.osc \in Builders
           /\ w.actions \in Seq(Dispatched) /\ w.dropped \in Nat
           /\ w.applied \in Seq(Applied(Z))
  BY DEF Terminals

LEMMA BuilderTypes ==
    /\ NoBuilder \in Builders
    /\ \A about \in Byte : Builder(about) \in Builders
    /\ \A b \in Builders, byte \in Byte :
          PushByte(b, byte) \in Builders /\ PushByte(b, byte).about = b.about
    /\ \A b \in Builders : Payload(b) \in Payloads
  <1>1. NoBuilder \in Builders
    <2> DEFINE no == FALSE
    <2>1. no \in BOOLEAN /\ <<>> \in Seq(Byte) /\ NoBuilder = [about |-> "none", bytes |-> <<>>, length |-> 0, escape |-> no]
      BY DEF NoBuilder
    <2> HIDE DEF no
    <2> QED
      BY <2>1 DEF Builders
  <1>2. ASSUME NEW about \in Byte PROVE Builder(about) \in Builders
    BY <1>1 DEF Builder, Builders
  <1>3. ASSUME NEW b \in Builders, NEW byte \in Byte
        PROVE  PushByte(b, byte) \in Builders /\ PushByte(b, byte).about = b.about
    <2> DEFINE bytes == IF Len(b.bytes) < PayloadLimit THEN Append(b.bytes, byte) ELSE b.bytes
               n == b.length + 1
    <2>1. bytes \in Seq(Byte) /\ n \in Nat
      BY DEF Builders
    <2>2. PushByte(b, byte) = [b EXCEPT !.length = n, !.bytes = bytes]
      BY DEF PushByte
    <2> HIDE DEF bytes, n
    <2> QED
      BY <2>1, <2>2 DEF Builders
  <1>4. ASSUME NEW b \in Builders PROVE Payload(b) \in Payloads
    BY DEF Payload, Builders, Payloads
  <1> QED
    BY <1>1, <1>2, <1>3, <1>4

LEMMA DispatchTypes ==
    /\ \A kind \in Kinds \ {"Resize"}, final \in Byte \cup {"none"}, params \in Seq(Byte),
         payload \in Payloads : Dispatch(kind, final, params, payload) \in Dispatched
    /\ \A kind \in Kinds \ {"Resize"}, byte \in Byte : Plain(kind, byte) \in Dispatched
    /\ Unsupported \in Dispatched
  <1>1. \A kind \in Kinds \ {"Resize"}, final \in Byte \cup {"none"}, params \in Seq(Byte),
         payload \in Payloads : Dispatch(kind, final, params, payload) \in Dispatched
    BY DEF Dispatch, Dispatched
  <1>2. Payload(NoBuilder) \in Payloads /\ <<>> \in Seq(Byte)
    BY BuilderTypes
  <1>3. \A kind \in Kinds \ {"Resize"}, byte \in Byte : Plain(kind, byte) \in Dispatched
    BY <1>1, <1>2 DEF Plain
  <1> QED
    BY <1>1, <1>3, BytesAre DEF Unsupported, Kinds

-----------------------------------------------------------------------------
(* Actions.                                                                *)

(* Only the actions differ.                                                *)
SameParser(w, u) ==
    /\ u.pending_escape = w.pending_escape /\ u.string_control = w.string_control
    /\ u.dcs = w.dcs /\ u.suppress = w.suppress /\ u.vte = w.vte
    /\ u.params = w.params /\ u.osc = w.osc

LEMMA Recorded ==
    ASSUME NEW Z, NEW w \in Terminals(Z), NEW a \in Dispatched, Len(w.actions) <= ActionLimit,
           NEW u, u = RecordAction(w, a)
    PROVE  /\ u \in Terminals(Z) /\ SameParser(w, u) /\ u.applied = w.applied
           /\ Len(u.actions) <= ActionLimit
           /\ Len(u.actions) + u.dropped = Len(w.actions) + w.dropped + 1
  <1>0. w.actions \in Seq(Dispatched) /\ w.dropped \in Nat /\ ActionLimit \in Nat
        /\ Len(w.actions) \in Nat
    BY TerminalParts, ParserAssumption
  <1>1. CASE Len(w.actions) < ActionLimit
    <2> DEFINE more == Append(w.actions, a)
    <2>1. more \in Seq(Dispatched) /\ Len(more) = Len(w.actions) + 1
      BY <1>0
    <2>2. u = [w EXCEPT !.actions = more]
      BY <1>1 DEF RecordAction
    <2> HIDE DEF more
    <2>3. u \in Terminals(Z) /\ SameParser(w, u) /\ u.applied = w.applied
          /\ u.actions = more /\ u.dropped = w.dropped
      BY <2>1, <2>2 DEF Terminals, SameParser
    <2>4. Len(u.actions) = Len(w.actions) + 1
      BY <2>1, <2>3
    <2> QED
      BY <1>0, <1>1, <2>3, <2>4
  <1>2. CASE ~ (Len(w.actions) < ActionLimit)
    <2> DEFINE d == w.dropped + 1
    <2>1. d \in Nat
      BY <1>0
    <2>2. u = [w EXCEPT !.dropped = d]
      BY <1>2 DEF RecordAction
    <2> HIDE DEF d
    <2>3. u \in Terminals(Z) /\ SameParser(w, u) /\ u.applied = w.applied
          /\ u.actions = w.actions /\ u.dropped = d
      BY <2>1, <2>2 DEF Terminals, SameParser
    <2> QED
      BY <1>0, <1>2, <2>3 DEF d
  <1> QED
    BY <1>1, <1>2

LEMMA CountMore ==
    ASSUME NEW n \in Nat, NEW P \in SUBSET (1..n)
    PROVE  /\ IsFiniteSet(P) /\ Cardinality(P) \in Nat
           /\ Cardinality(P \cup {n + 1}) = Cardinality(P) + 1
  <1>1. IsFiniteSet(1..n)
    BY FS_Interval
  <1>2. IsFiniteSet(P)
    BY <1>1, FS_Subset
  <1>3. n + 1 \notin P
    OBVIOUS
  <1> QED
    BY <1>2, <1>3, FS_AddElement, FS_CardinalityType

(* What applying one more action adds to the counts.                       *)
LEMMA AppliedMore ==
    ASSUME NEW Z, NEW w \in Terminals(Z), NEW a \in Applied(Z),
           NEW u, u.applied = Append(w.applied, a)
    PROVE  /\ Cardinality(Handled(w)) \in Nat /\ Cardinality(Answered(w)) \in Nat
           /\ Cardinality(Handled(u))
                = Cardinality(Handled(w)) + (IF a.kind # "Resize" THEN 1 ELSE 0)
           /\ Cardinality(Answered(u))
                = Cardinality(Answered(w)) + (IF Generates(a) THEN 1 ELSE 0)
           /\ a.kind = "Resize" => LastResize(u, a.final)
           /\ \A size : a.kind # "Resize" /\ LastResize(w, size) => LastResize(u, size)
  <1> DEFINE n == Len(w.applied)
  <1>0. /\ w.applied \in Seq(Applied(Z)) /\ n \in Nat /\ DOMAIN w.applied = 1..n
        /\ DOMAIN u.applied = 1..(n + 1) /\ u.applied[n + 1] = a
        /\ \A i \in 1..n : u.applied[i] = w.applied[i]
    BY TerminalParts
  <1>1. Generates(a) => a.kind # "Resize"
    BY DEF Generates
  <1>2. Handled(u) = IF a.kind # "Resize" THEN Handled(w) \cup {n + 1} ELSE Handled(w)
    BY <1>0 DEF Handled
  <1>3. Answered(u) = IF Generates(a) THEN Answered(w) \cup {n + 1} ELSE Answered(w)
    BY <1>0, <1>1 DEF Answered, Handled
  <1>4. Handled(w) \in SUBSET (1..n) /\ Answered(w) \in SUBSET (1..n)
    BY <1>0 DEF Answered, Handled
  <1>5. /\ Cardinality(Handled(w)) \in Nat /\ Cardinality(Answered(w)) \in Nat
        /\ Cardinality(Handled(w) \cup {n + 1}) = Cardinality(Handled(w)) + 1
        /\ Cardinality(Answered(w) \cup {n + 1}) = Cardinality(Answered(w)) + 1
    BY <1>0, <1>4, CountMore
  <1> HIDE DEF n
  <1>6. ASSUME a.kind = "Resize" PROVE LastResize(u, a.final)
    <2>1. n + 1 \in DOMAIN u.applied /\ \A j \in DOMAIN u.applied : j <= n + 1
      BY <1>0
    <2> QED
      BY <1>0, <1>6, <2>1 DEF LastResize
  <1>7. ASSUME NEW size, a.kind # "Resize", LastResize(w, size) PROVE LastResize(u, size)
    <2>1. PICK i \in DOMAIN w.applied :
             /\ w.applied[i].kind = "Resize" /\ w.applied[i].final = size
             /\ \A j \in DOMAIN w.applied : w.applied[j].kind = "Resize" => j <= i
      BY <1>7 DEF LastResize
    <2>2. i \in DOMAIN u.applied /\ u.applied[i] = w.applied[i]
      BY <1>0
    <2>3. \A j \in DOMAIN u.applied : u.applied[j].kind = "Resize" => j <= i
      BY <1>0, <1>7, <2>1
    <2> QED
      BY <2>1, <2>2, <2>3 DEF LastResize
  <1> QED
    BY <1>2, <1>3, <1>5, <1>6, <1>7

LEMMA PushedOn ==
    ASSUME NEW Z, NEW size, NEW w \in Terminals(Z), Open(w, Z, size), NEW a \in Dispatched,
           NEW u, u = PushAction(w, a)
    PROVE  Open(u, Z, size) /\ SameParser(w, u)
  <1> DEFINE more == Append(w.applied, a)
             v == [w EXCEPT !.applied = more]
             x == RecordAction(v, a)
             y == RecordAction(x, Unsupported)
  <1>0. /\ w.applied \in Seq(Applied(Z)) /\ a \in Applied(Z) /\ a.kind # "Resize"
        /\ w.actions \in Seq(Dispatched) /\ Len(w.actions) \in Nat /\ w.dropped \in Nat
        /\ Len(w.actions) <= ActionLimit /\ ActionLimit \in Nat
    <2>1. a \in Applied(Z) /\ a.kind # "Resize"
      BY DEF Applied, Dispatched
    <2> QED
      BY <2>1, TerminalParts, ParserAssumption DEF Open, Accounted
  <1>1. more \in Seq(Applied(Z))
    BY <1>0
  <1> HIDE DEF more
  <1>2. v \in Terminals(Z) /\ SameParser(w, v) /\ v.applied = more
        /\ v.actions = w.actions /\ v.dropped = w.dropped
    BY <1>1 DEF Terminals, SameParser
  <1> HIDE DEF v
  <1>3. /\ x \in Terminals(Z) /\ SameParser(v, x) /\ x.applied = more
        /\ Len(x.actions) <= ActionLimit
        /\ Len(x.actions) + x.dropped = Len(w.actions) + w.dropped + 1
    BY <1>0, <1>2, Recorded
  <1> HIDE DEF x
  <1>4. /\ y \in Terminals(Z) /\ SameParser(x, y) /\ y.applied = more
        /\ Len(y.actions) <= ActionLimit
        /\ Len(y.actions) + y.dropped = Len(x.actions) + x.dropped + 1
    BY <1>3, Recorded, DispatchTypes
  <1> HIDE DEF y
  <1>5. u = IF Generates(a) THEN y ELSE x
    BY DEF PushAction, x, y, v, more
  <1>6. u \in Terminals(Z) /\ u.applied = Append(w.applied, a)
    BY <1>3, <1>4, <1>5 DEF more
  <1>7. SameParser(w, u)
    BY <1>2, <1>3, <1>4, <1>5 DEF SameParser
  <1>8. /\ Cardinality(Handled(w)) \in Nat /\ Cardinality(Answered(w)) \in Nat
        /\ Cardinality(Handled(u)) = Cardinality(Handled(w)) + 1
        /\ Cardinality(Answered(u))
             = Cardinality(Answered(w)) + (IF Generates(a) THEN 1 ELSE 0)
        /\ \A z : LastResize(w, z) => LastResize(u, z)
    BY <1>0, <1>6, AppliedMore
  <1>9. Len(w.actions) + w.dropped = Cardinality(Handled(w)) + Cardinality(Answered(w))
        /\ LastResize(w, size)
    BY DEF Open, Accounted
  <1>10. Accounted(u)
    <2>1. Len(u.actions) <= ActionLimit
      BY <1>3, <1>4, <1>5
    <2>2. Len(u.actions) + u.dropped = Cardinality(Handled(u)) + Cardinality(Answered(u))
      <3>1. CASE Generates(a)
        BY <1>0, <1>3, <1>4, <1>5, <1>8, <1>9, <3>1
      <3>2. CASE ~Generates(a)
        BY <1>0, <1>3, <1>5, <1>8, <1>9, <3>2
      <3> QED
        BY <3>1, <3>2
    <2> QED
      BY <2>1, <2>2 DEF Accounted
  <1> QED
    BY <1>6, <1>7, <1>8, <1>9, <1>10 DEF Open

(* A terminal of which only the parser's fields changed.                   *)
SameActions(w, u) == u.actions = w.actions /\ u.dropped = w.dropped /\ u.applied = w.applied

LEMMA ActionsKept ==
    ASSUME NEW Z, NEW size, NEW w, Open(w, Z, size), NEW u \in Terminals(Z), SameActions(w, u)
    PROVE  Open(u, Z, size)
  BY DEF Open, SameActions, LastResize, Accounted, Handled, Answered

-----------------------------------------------------------------------------
(* The recorder and the library's parser.                                  *)

LEMMA KeptParser ==
    ASSUME NEW Z, NEW size, NEW w \in Parsers(Z, size), NEW u \in Terminals(Z),
           SameActions(w, u), u.pending_escape = w.pending_escape
    PROVE  u \in Parsers(Z, size)
  BY ActionsKept DEF Parsers

LEMMA Pushed ==
    ASSUME NEW Z, NEW size, NEW w \in Parsers(Z, size), NEW a \in Dispatched
    PROVE  PushAction(w, a) \in Parsers(Z, size) /\ SameParser(w, PushAction(w, a))
  <1>1. w \in Terminals(Z) /\ Open(w, Z, size) /\ ~w.pending_escape
    BY DEF Parsers
  <1>2. Open(PushAction(w, a), Z, size) /\ SameParser(w, PushAction(w, a))
    BY <1>1, PushedOn
  <1> QED
    BY <1>1, <1>2 DEF Parsers, Open, SameParser

LEMMA PushContinues ==
    ASSUME NEW Z, NEW size, NEW w \in Parsers(Z, size), NEW a \in Dispatched
    PROVE  Continues(w, PushAction(w, a), Z, size)
  BY Pushed DEF Continues, SameParser

LEMMA ContinuesOn ==
    ASSUME NEW Z, NEW size, NEW w, NEW v, NEW u,
           Continues(w, v, Z, size), Continues(v, u, Z, size)
    PROVE  Continues(w, u, Z, size)
  BY DEF Continues

(* Setting one field of the parser.                                        *)
LEMMA Changed ==
    ASSUME NEW Z, NEW size, NEW w \in Parsers(Z, size)
    PROVE  /\ Continues(w, w, Z, size)
           /\ \A b \in Builders : Continues(w, [w EXCEPT !.dcs = b], Z, size)
           /\ \A b \in Builders : Continues(w, [w EXCEPT !.osc = b], Z, size)
           /\ \A x \in BOOLEAN : Continues(w, [w EXCEPT !.suppress = x], Z, size)
           /\ \A x \in Seq(Byte) : Continues(w, [w EXCEPT !.params = x], Z, size)
           /\ \A x \in VteStates : Continues(w, [w EXCEPT !.vte = x], Z, size)
           /\ \A b \in Builders : [w EXCEPT !.string_control = b] \in Parsers(Z, size)
  <1>1. w \in Terminals(Z)
    BY DEF Parsers
  <1>2. Continues(w, w, Z, size)
    BY DEF Continues
  <1>3. ASSUME NEW b \in Builders PROVE Continues(w, [w EXCEPT !.dcs = b], Z, size)
    <2>1. [w EXCEPT !.dcs = b] \in Terminals(Z)
      BY <1>1 DEF Terminals
    <2> QED
      BY <1>1, <2>1, KeptParser DEF Continues, SameActions, Terminals
  <1>4. ASSUME NEW b \in Builders PROVE Continues(w, [w EXCEPT !.osc = b], Z, size)
    <2>1. [w EXCEPT !.osc = b] \in Terminals(Z)
      BY <1>1 DEF Terminals
    <2> QED
      BY <1>1, <2>1, KeptParser DEF Continues, SameActions, Terminals
  <1>5. ASSUME NEW x \in BOOLEAN PROVE Continues(w, [w EXCEPT !.suppress = x], Z, size)
    <2>1. [w EXCEPT !.suppress = x] \in Terminals(Z)
      BY <1>1 DEF Terminals
    <2> QED
      BY <1>1, <2>1, KeptParser DEF Continues, SameActions, Terminals
  <1>6. ASSUME NEW x \in Seq(Byte) PROVE Continues(w, [w EXCEPT !.params = x], Z, size)
    <2>1. [w EXCEPT !.params = x] \in Terminals(Z)
      BY <1>1 DEF Terminals
    <2> QED
      BY <1>1, <2>1, KeptParser DEF Continues, SameActions, Terminals
  <1>7. ASSUME NEW x \in VteStates PROVE Continues(w, [w EXCEPT !.vte = x], Z, size)
    <2>1. [w EXCEPT !.vte = x] \in Terminals(Z)
      BY <1>1 DEF Terminals
    <2> QED
      BY <1>1, <2>1, KeptParser DEF Continues, SameActions, Terminals
  <1>8. ASSUME NEW b \in Builders PROVE [w EXCEPT !.string_control = b] \in Parsers(Z, size)
    <2>1. [w EXCEPT !.string_control = b] \in Terminals(Z)
      BY <1>1 DEF Terminals
    <2> QED
      BY <1>1, <2>1, KeptParser DEF SameActions, Terminals
  <1> QED
    BY <1>2, <1>3, <1>4, <1>5, <1>6, <1>7, <1>8

(* Going to another state of the library's parser.                         *)
LEMMA GotoContinues ==
    ASSUME NEW Z, NEW size, NEW w \in Parsers(Z, size), NEW state \in VteStates
    PROVE  Continues(w, Goto(w, state), Z, size)
  <1> DEFINE v == [w EXCEPT !.vte = state]
             none == <<>>
             u == [v EXCEPT !.params = none]
  <1>1. Continues(w, v, Z, size)
    BY Changed
  <1>2. v \in Parsers(Z, size)
    BY <1>1 DEF Continues
  <1>3. Goto(w, state) = u
    BY DEF Goto
  <1>4. none \in Seq(Byte)
    OBVIOUS
  <1> HIDE DEF v, none
  <1>5. Continues(v, u, Z, size)
    BY <1>2, <1>4, Changed
  <1> HIDE DEF u
  <1> QED
    BY <1>1, <1>3, <1>5, ContinuesOn

LEMMA ExecuteContinues ==
    ASSUME NEW Z, NEW size, NEW w \in Parsers(Z, size), NEW byte \in Byte
    PROVE  Continues(w, Execute(w, byte), Z, size)
  BY PushContinues, DispatchTypes DEF Execute, Kinds

LEMMA HookContinues ==
    ASSUME NEW Z, NEW size, NEW w \in Parsers(Z, size), NEW byte \in Byte
    PROVE  Continues(w, Hook(w, byte), Z, size)
  <1> DEFINE b == Builder(byte)
             state == "dcs_passthrough"
             v == [w EXCEPT !.dcs = b]
             u == [v EXCEPT !.vte = state]
  <1>0. b \in Builders /\ state \in VteStates
    BY BuilderTypes DEF VteStates
  <1>1. Hook(w, byte) = u
    BY DEF Hook
  <1> HIDE DEF b, state
  <1>2. Continues(w, v, Z, size)
    BY <1>0, Changed
  <1>3. v \in Parsers(Z, size)
    BY <1>2 DEF Continues
  <1> HIDE DEF v
  <1>4. Continues(v, u, Z, size)
    BY <1>0, <1>3, Changed
  <1> HIDE DEF u
  <1> QED
    BY <1>1, <1>2, <1>4, ContinuesOn

LEMMA PutContinues ==
    ASSUME NEW Z, NEW size, NEW w \in Parsers(Z, size), NEW byte \in Byte
    PROVE  Continues(w, Put(w, byte), Z, size)
  <1>1. CASE InsideDcs(w)
    <2> DEFINE b == PushByte(w.dcs, byte)
    <2>1. w.dcs \in Builders
      BY TerminalParts DEF Parsers
    <2>2. b \in Builders
      BY <2>1, BuilderTypes
    <2>3. Put(w, byte) = [w EXCEPT !.dcs = b]
      BY <1>1 DEF Put
    <2> HIDE DEF b
    <2> QED
      BY <2>2, <2>3, Changed
  <1>2. CASE ~InsideDcs(w)
    BY <1>2, Changed DEF Put
  <1> QED
    BY <1>1, <1>2

LEMMA UnhookContinues ==
    ASSUME NEW Z, NEW size, NEW w \in Parsers(Z, size)
    PROVE  Continues(w, Unhook(w), Z, size)
  <1>1. CASE InsideDcs(w)
    <2> DEFINE yes == TRUE
               v == [w EXCEPT !.dcs = NoBuilder]
               x == [v EXCEPT !.suppress = yes]
               a == Dispatch("Dcs", w.dcs.about, w.params, Payload(w.dcs))
    <2>1. w.dcs \in Builders /\ w.params \in Seq(Byte)
      BY TerminalParts DEF Parsers
    <2>2. a \in Dispatched
      <3>1. w.dcs.about \in Byte \cup {"none"} /\ Payload(w.dcs) \in Payloads
        BY <2>1, BuilderTypes DEF Builders
      <3> QED
        BY <2>1, <3>1, DispatchTypes DEF Kinds
    <2>3. Unhook(w) = PushAction(x, a)
      BY <1>1 DEF Unhook
    <2> HIDE DEF a
    <2>4. NoBuilder \in Builders /\ yes \in BOOLEAN
      BY BuilderTypes
    <2> HIDE DEF yes
    <2>5. Continues(w, v, Z, size)
      BY <2>4, Changed
    <2>6. v \in Parsers(Z, size)
      BY <2>5 DEF Continues
    <2> HIDE DEF v
    <2>7. Continues(v, x, Z, size)
      BY <2>4, <2>6, Changed
    <2>8. x \in Parsers(Z, size)
      BY <2>7 DEF Continues
    <2> HIDE DEF x
    <2>9. Continues(x, Unhook(w), Z, size)
      BY <2>2, <2>3, <2>8, PushContinues
    <2> QED
      BY <2>5, <2>7, <2>9, ContinuesOn
  <1>2. CASE ~InsideDcs(w)
    BY <1>2, Changed DEF Unhook
  <1> QED
    BY <1>1, <1>2

LEMMA OscDispatchContinues ==
    ASSUME NEW Z, NEW size, NEW w \in Parsers(Z, size), NEW bell \in BOOLEAN
    PROVE  Continues(w, OscDispatch(w, bell), Z, size)
  <1> DEFINE told == w.suppress \/ ~bell
             v == [w EXCEPT !.osc = NoBuilder]
             x == [v EXCEPT !.suppress = told]
             a == Dispatch("Osc", IF bell THEN Bel ELSE Backslash, <<>>, Payload(w.osc))
  <1>1. w.osc \in Builders /\ told \in BOOLEAN
    BY TerminalParts DEF Parsers
  <1>2. a \in Dispatched
    <2>1. Payload(w.osc) \in Payloads /\ <<>> \in Seq(Byte) /\ "Osc" \in Kinds \ {"Resize"}
      BY <1>1, BuilderTypes DEF Kinds
    <2>2. (IF bell THEN Bel ELSE Backslash) \in Byte \cup {"none"}
      <3>1. CASE bell
        BY <3>1, BytesAre
      <3>2. CASE ~bell
        BY <3>2, BytesAre
      <3> QED
        BY <3>1, <3>2
    <2> QED
      BY <2>1, <2>2, DispatchTypes
  <1>3. OscDispatch(w, bell) = PushAction(x, a)
    BY DEF OscDispatch
  <1> HIDE DEF a, told
  <1>4. NoBuilder \in Builders
    BY BuilderTypes
  <1>5. Continues(w, v, Z, size)
    BY <1>4, Changed
  <1>6. v \in Parsers(Z, size)
    BY <1>5 DEF Continues
  <1> HIDE DEF v
  <1>7. Continues(v, x, Z, size)
    BY <1>1, <1>6, Changed
  <1>8. x \in Parsers(Z, size)
    BY <1>7 DEF Continues
  <1> HIDE DEF x
  <1>9. Continues(x, OscDispatch(w, bell), Z, size)
    BY <1>2, <1>3, <1>8, PushContinues
  <1> QED
    BY <1>5, <1>7, <1>9, ContinuesOn

LEMMA EscDispatchContinues ==
    ASSUME NEW Z, NEW size, NEW w \in Parsers(Z, size), NEW byte \in Byte
    PROVE  Continues(w, EscDispatch(w, byte), Z, size)
  <1> DEFINE no == FALSE
             told == [w EXCEPT !.suppress = no]
             a == Plain("Escape", byte)
  <1>1. EscDispatch(w, byte) = told \/ EscDispatch(w, byte) = PushAction(told, a)
    BY DEF EscDispatch
  <1>2. no \in BOOLEAN /\ a \in Dispatched
    BY DispatchTypes DEF Kinds
  <1> HIDE DEF no, a
  <1>3. Continues(w, told, Z, size)
    BY <1>2, Changed
  <1>4. told \in Parsers(Z, size)
    BY <1>3 DEF Continues
  <1> HIDE DEF told
  <1>5. Continues(told, PushAction(told, a), Z, size)
    BY <1>2, <1>4, PushContinues
  <1> QED
    BY <1>1, <1>3, <1>5, ContinuesOn

(* One byte in each state of the library's parser.                         *)
LEMMA GroundContinues ==
    ASSUME NEW Z, NEW size, NEW w \in Parsers(Z, size), NEW byte \in Byte
    PROVE  Continues(w, Ground(w, byte), Z, size)
  <1>1. Continues(w, Execute(w, byte), Z, size)
    BY ExecuteContinues
  <1>2. Continues(w, PushAction(w, Plain("Print", byte)), Z, size)
    BY PushContinues, DispatchTypes DEF Kinds
  <1> QED
    BY <1>1, <1>2 DEF Ground

LEMMA EscapeContinues ==
    ASSUME NEW Z, NEW size, NEW w \in Parsers(Z, size), NEW byte \in Byte
    PROVE  Continues(w, Escape(w, byte), Z, size)
  <1>1. \A state \in VteStates : Continues(w, Goto(w, state), Z, size)
    BY GotoContinues
  <1>2. Continues(w, Execute(w, byte), Z, size)
    BY ExecuteContinues
  <1>3. Continues(w, EscDispatch(Goto(w, "ground"), byte), Z, size)
    <2>1. Continues(w, Goto(w, "ground"), Z, size)
      BY <1>1 DEF VteStates
    <2>2. Goto(w, "ground") \in Parsers(Z, size)
      BY <2>1 DEF Continues
    <2>3. Continues(Goto(w, "ground"), EscDispatch(Goto(w, "ground"), byte), Z, size)
      BY <2>2, EscDispatchContinues
    <2> QED
      BY <2>1, <2>3, ContinuesOn
  <1>4. /\ Continues(w, Goto(w, "csi"), Z, size) /\ Continues(w, Goto(w, "dcs_entry"), Z, size)
        /\ Continues(w, Goto(w, "osc"), Z, size) /\ Continues(w, Goto(w, "sos_pm_apc"), Z, size)
    BY <1>1 DEF VteStates
  <1> QED
    BY <1>2, <1>3, <1>4 DEF Escape

(* A parameter byte is kept.                                               *)
LEMMA ParamContinues ==
    ASSUME NEW Z, NEW size, NEW w \in Parsers(Z, size), NEW byte \in Byte
    PROVE  Continues(w, [w EXCEPT !.params = Append(@, byte)], Z, size)
  <1> DEFINE more == Append(w.params, byte)
  <1>1. w.params \in Seq(Byte)
    BY TerminalParts DEF Parsers
  <1>2. more \in Seq(Byte)
    BY <1>1
  <1>3. Continues(w, [w EXCEPT !.params = more], Z, size)
    <2> HIDE DEF more
    <2> QED
      BY <1>2, Changed
  <1> QED
    BY <1>3

LEMMA CsiContinues ==
    ASSUME NEW Z, NEW size, NEW w \in Parsers(Z, size), NEW byte \in Byte
    PROVE  Continues(w, Csi(w, byte), Z, size)
  <1> DEFINE a == Dispatch("Csi", byte, w.params, Payload(NoBuilder))
             v == PushAction(w, a)
  <1>1. w.params \in Seq(Byte)
    BY TerminalParts DEF Parsers
  <1>2. a \in Dispatched
    BY <1>1, BuilderTypes, DispatchTypes DEF Kinds
  <1>3. Csi(w, byte) = IF IsParam(w, byte) THEN [w EXCEPT !.params = Append(@, byte)]
                       ELSE IF byte = Private THEN Goto(w, "csi_ignore")
                       ELSE IF byte = Bel THEN Execute(w, byte) ELSE Goto(v, "ground")
    BY DEF Csi, IsParam, Digits, Digit, Private, Bel
  <1> HIDE DEF a
  <1>4. Continues(w, v, Z, size)
    BY <1>2, PushContinues
  <1>5. v \in Parsers(Z, size)
    BY <1>4 DEF Continues
  <1> HIDE DEF v
  <1>6. Continues(v, Goto(v, "ground"), Z, size)
    BY <1>5, GotoContinues DEF VteStates
  <1>7. Continues(w, Goto(v, "ground"), Z, size)
    BY <1>4, <1>6, ContinuesOn
  <1>8. Continues(w, Goto(w, "csi_ignore"), Z, size)
    BY GotoContinues DEF VteStates
  <1> QED
    BY <1>3, <1>7, <1>8, ExecuteContinues, ParamContinues

LEMMA CsiIgnoreContinues ==
    ASSUME NEW Z, NEW size, NEW w \in Parsers(Z, size), NEW byte \in Byte
    PROVE  Continues(w, CsiIgnore(w, byte), Z, size)
  <1>1. CsiIgnore(w, byte) = IF byte = Bel THEN Execute(w, byte)
                             ELSE IF byte \in Digits \cup {Private} THEN w ELSE Goto(w, "ground")
    BY DEF CsiIgnore, Digits, Digit, Private, Bel
  <1>2. Continues(w, Goto(w, "ground"), Z, size)
    BY GotoContinues DEF VteStates
  <1> QED
    BY <1>1, <1>2, ExecuteContinues, Changed

LEMMA DcsEntryContinues ==
    ASSUME NEW Z, NEW size, NEW w \in Parsers(Z, size), NEW byte \in Byte
    PROVE  Continues(w, DcsEntry(w, byte), Z, size)
  <1>1. DcsEntry(w, byte) = IF IsParam(w, byte) THEN [w EXCEPT !.params = Append(@, byte)]
                            ELSE IF byte = Private THEN Goto(w, "dcs_ignore")
                            ELSE IF byte = Bel THEN w ELSE Hook(w, byte)
    BY DEF DcsEntry, IsParam, Digits, Digit, Private, Bel
  <1>2. Continues(w, Goto(w, "dcs_ignore"), Z, size)
    BY GotoContinues DEF VteStates
  <1> QED
    BY <1>1, <1>2, ParamContinues, HookContinues, Changed

LEMMA OscContinues ==
    ASSUME NEW Z, NEW size, NEW w \in Parsers(Z, size), NEW byte \in Byte
    PROVE  Continues(w, Osc(w, byte), Z, size)
  <1>1. CASE byte = Bel
    <2> DEFINE bell == TRUE
               v == OscDispatch(w, bell)
    <2>1. bell \in BOOLEAN
      OBVIOUS
    <2>2. Osc(w, byte) = Goto(v, "ground")
      BY <1>1 DEF Osc
    <2> HIDE DEF bell
    <2>3. Continues(w, v, Z, size)
      BY <2>1, OscDispatchContinues
    <2>4. v \in Parsers(Z, size)
      BY <2>3 DEF Continues
    <2> HIDE DEF v
    <2>5. Continues(v, Goto(v, "ground"), Z, size)
      BY <2>4, GotoContinues DEF VteStates
    <2> QED
      BY <2>2, <2>3, <2>5, ContinuesOn
  <1>2. CASE byte # Bel
    <2> DEFINE b == PushByte(w.osc, byte)
    <2>1. w.osc \in Builders
      BY TerminalParts DEF Parsers
    <2>2. b \in Builders
      BY <2>1, BuilderTypes
    <2>3. Osc(w, byte) = [w EXCEPT !.osc = b]
      BY <1>2 DEF Osc
    <2> HIDE DEF b
    <2> QED
      BY <2>2, <2>3, Changed
  <1> QED
    BY <1>1, <1>2

LEMMA InterruptedContinues ==
    ASSUME NEW Z, NEW size, NEW w \in Parsers(Z, size)
    PROVE  Continues(w, Interrupted(w), Z, size)
  <1> DEFINE bell == FALSE
  <1>1. bell \in BOOLEAN
    OBVIOUS
  <1>2. Interrupted(w) = IF w.vte = "dcs_passthrough" THEN Unhook(w)
                         ELSE IF w.vte = "osc" THEN OscDispatch(w, bell) ELSE w
    BY DEF Interrupted
  <1> HIDE DEF bell
  <1>3. Continues(w, OscDispatch(w, bell), Z, size)
    BY <1>1, OscDispatchContinues
  <1> QED
    BY <1>2, <1>3, UnhookContinues, Changed

(* Whatever the library's parser makes of a byte, the types are kept, its  *)
(* actions are accounted for, and a string of the adapter is not touched.  *)
LEMMA VteContinues ==
    ASSUME NEW Z, NEW size, NEW w \in Parsers(Z, size), NEW byte \in Byte
    PROVE  Continues(w, Vte(w, byte), Z, size)
  <1> DEFINE v == Interrupted(w)
  <1>1. Continues(w, v, Z, size)
    BY InterruptedContinues
  <1>2. v \in Parsers(Z, size)
    BY <1>1 DEF Continues
  <1>3. CASE byte = Esc
    <2>1. Vte(w, byte) = Goto(v, "escape")
      BY <1>3 DEF Vte
    <2> HIDE DEF v
    <2>2. Continues(v, Goto(v, "escape"), Z, size)
      BY <1>2, GotoContinues DEF VteStates
    <2> QED
      BY <1>1, <2>1, <2>2, ContinuesOn
  <1>4. CASE byte = Can
    <2> DEFINE x == Execute(v, byte)
    <2>1. Vte(w, byte) = Goto(x, "ground")
      BY <1>4, BytesAre DEF Vte
    <2> HIDE DEF v
    <2>2. Continues(v, x, Z, size)
      BY <1>2, ExecuteContinues
    <2>3. x \in Parsers(Z, size)
      BY <2>2 DEF Continues
    <2> HIDE DEF x
    <2>4. Continues(x, Goto(x, "ground"), Z, size)
      BY <2>3, GotoContinues DEF VteStates
    <2> QED
      BY <1>1, <2>1, <2>2, <2>4, ContinuesOn
  <1>5. CASE byte # Esc /\ byte # Can
    <2>1. Vte(w, byte) = IF w.vte = "ground" THEN Ground(w, byte)
                         ELSE IF w.vte = "escape" THEN Escape(w, byte)
                         ELSE IF w.vte = "csi" THEN Csi(w, byte)
                         ELSE IF w.vte = "csi_ignore" THEN CsiIgnore(w, byte)
                         ELSE IF w.vte = "dcs_entry" THEN DcsEntry(w, byte)
                         ELSE IF w.vte = "dcs_passthrough" THEN Put(w, byte)
                         ELSE IF w.vte = "osc" THEN Osc(w, byte) ELSE w
      BY <1>5 DEF Vte
    <2> QED
      BY <2>1, GroundContinues, EscapeContinues, CsiContinues, CsiIgnoreContinues,
         DcsEntryContinues, PutContinues, OscContinues, Changed
  <1> QED
    BY <1>3, <1>4, <1>5

-----------------------------------------------------------------------------
(* The adapter.                                                            *)

LEMMA StartContinues ==
    ASSUME NEW Z, NEW size, NEW w \in Parsers(Z, size), NEW byte \in Byte
    PROVE  Start(w, byte) \in Parsers(Z, size)
  <1> DEFINE b == Builder(byte)
  <1>1. b \in Builders /\ Start(w, byte) = [w EXCEPT !.string_control = b]
    BY BuilderTypes DEF Start
  <1> HIDE DEF b
  <1> QED
    BY <1>1, Changed

LEMMA FinishKeeps ==
    ASSUME NEW Z, NEW size, NEW w \in Parsers(Z, size), NEW byte \in Byte
    PROVE  Finish(w, byte) \in Parsers(Z, size)
  <1> DEFINE p == Payload(w.string_control)
             osc == Dispatch("Osc", byte, <<>>, p)
             apc == Dispatch("Apc", Backslash, <<>>, p)
             a == IF w.string_control.about = "]" THEN osc ELSE apc
             v == [w EXCEPT !.string_control = NoBuilder]
  <1>1. p \in Payloads
    BY TerminalParts, BuilderTypes DEF Parsers
  <1> HIDE DEF p
  <1>2. osc \in Dispatched /\ apc \in Dispatched
    <2>1. /\ <<>> \in Seq(Byte) /\ Backslash \in Byte \cup {"none"}
          /\ byte \in Byte \cup {"none"}
          /\ "Osc" \in Kinds \ {"Resize"} /\ "Apc" \in Kinds \ {"Resize"}
      BY BytesAre DEF Kinds
    <2> QED
      BY <1>1, <2>1, DispatchTypes
  <1>3. Finish(w, byte) = PushAction(v, a)
    BY DEF Finish, p
  <1> HIDE DEF osc, apc
  <1>4. a \in Dispatched
    BY <1>2
  <1>5. v \in Parsers(Z, size)
    BY BuilderTypes, Changed
  <1> HIDE DEF a, v
  <1> QED
    BY <1>3, <1>4, <1>5, Pushed

LEMMA ConsumeKeeps ==
    ASSUME NEW Z, NEW size, NEW w \in Parsers(Z, size), NEW byte \in Byte
    PROVE  Consume(w, byte) \in Parsers(Z, size)
  <1> DEFINE control == w.string_control
             no == FALSE
             yes == TRUE
             closed == [control EXCEPT !.escape = no]
             opened == [control EXCEPT !.escape = yes]
             one == PushByte(closed, Esc)
             two == PushByte(one, byte)
             more == PushByte(control, byte)
  <1>1. control \in Builders
    BY TerminalParts DEF Parsers
  <1>2. no \in BOOLEAN /\ yes \in BOOLEAN
    OBVIOUS
  <1>3. Consume(w, byte)
          \in {Finish(w, Backslash), Finish(w, Bel), [w EXCEPT !.string_control = two],
               [w EXCEPT !.string_control = opened], [w EXCEPT !.string_control = more]}
    BY DEF Consume
  <1> HIDE DEF control, no, yes
  <1>4. closed \in Builders /\ opened \in Builders
    BY <1>1, <1>2 DEF Builders
  <1> HIDE DEF closed, opened
  <1>5. two \in Builders /\ more \in Builders
    BY <1>1, <1>4, BuilderTypes, BytesAre
  <1> HIDE DEF two, more
  <1> QED
    BY <1>3, <1>4, <1>5, Changed, FinishKeeps, BytesAre

(* What the loop over the bytes of a chunk goes through: an escape byte is *)
(* held only outside the strings the adapter collects.                     *)
Scans(Z, size) ==
    {s \in [terminal : Parsers(Z, size), held : BOOLEAN] :
        s.held => ~InsideControl(s.terminal)}

LEMMA ScanKeeps ==
    ASSUME NEW Z, NEW size, NEW s \in Scans(Z, size), NEW byte \in Byte
    PROVE  /\ Scan(s, byte) \in Scans(Z, size)
           /\ Scan(s, byte).held => byte = Esc \/ InsideControl(s.terminal)
           /\ ~(Scan(s, byte).held /\ InsideControl(s.terminal))
  <1> DEFINE w == s.terminal
             v == IF s.held THEN Vte(w, Esc) ELSE w
             starts == s.held /\ ~InsideDcs(w) /\ IsTarget(byte)
  <1>1. w \in Parsers(Z, size) /\ s.held \in BOOLEAN /\ (s.held => ~InsideControl(w))
        /\ s = [terminal |-> w, held |-> s.held]
    BY DEF Scans
  <1>2. Continues(w, v, Z, size)
    BY <1>1, VteContinues, Changed, BytesAre
  <1>3. v \in Parsers(Z, size) /\ v.string_control = w.string_control
    BY <1>2 DEF Continues
  <1>4. Scan(s, byte) = IF InsideControl(w) THEN [s EXCEPT !.terminal = Consume(w, byte)]
                        ELSE IF starts THEN [terminal |-> Start(w, byte), held |-> FALSE]
                        ELSE IF byte = Esc THEN [terminal |-> v, held |-> TRUE]
                        ELSE [terminal |-> Vte(v, byte), held |-> FALSE]
    BY DEF Scan
  <1>5. CASE InsideControl(w)
    <2>1. ~s.held
      BY <1>1, <1>5
    <2>2. Scan(s, byte) = [terminal |-> Consume(w, byte), held |-> s.held]
      BY <1>1, <1>4, <1>5
    <2>3. Consume(w, byte) \in Parsers(Z, size)
      BY <1>1, ConsumeKeeps
    <2> QED
      BY <1>1, <2>1, <2>2, <2>3 DEF Scans
  <1>6. CASE ~InsideControl(w) /\ starts
    <2>1. Scan(s, byte) = [terminal |-> Start(w, byte), held |-> FALSE]
      BY <1>4, <1>6
    <2>2. Start(w, byte) \in Parsers(Z, size)
      BY <1>1, StartContinues
    <2> QED
      BY <2>1, <2>2 DEF Scans
  <1>7. CASE ~InsideControl(w) /\ ~starts /\ byte = Esc
    <2>1. Scan(s, byte) = [terminal |-> v, held |-> TRUE]
      BY <1>4, <1>7
    <2>2. ~InsideControl(v)
      BY <1>3, <1>7 DEF InsideControl
    <2> QED
      BY <1>3, <1>7, <2>1, <2>2 DEF Scans
  <1>8. CASE ~InsideControl(w) /\ ~starts /\ byte # Esc
    <2>1. Scan(s, byte) = [terminal |-> Vte(v, byte), held |-> FALSE]
      BY <1>4, <1>8
    <2>2. Vte(v, byte) \in Parsers(Z, size)
      BY <1>3, VteContinues DEF Continues
    <2> QED
      BY <2>1, <2>2 DEF Scans
  <1> QED
    BY <1>5, <1>6, <1>7, <1>8

(* The state of the loop after it has seen the bytes.                      *)
Scanned(s, bytes) == FoldLeft(Scan, s, bytes)
ScanOp(Z, size) == [p \in Scans(Z, size) \X Byte |-> Scan(p[1], p[2])]

LEMMA ScanOpType ==
    ASSUME NEW Z, NEW size
    PROVE  /\ ScanOp(Z, size) \in [Scans(Z, size) \X Byte -> Scans(Z, size)]
           /\ \A s \in Scans(Z, size), byte \in Byte :
                 ScanOp(Z, size)[<<s, byte>>] = Scan(s, byte)
  BY ScanKeeps DEF ScanOp

LEMMA ScanFold ==
    ASSUME NEW Z, NEW size, NEW s \in Scans(Z, size), NEW bytes \in Seq(Byte)
    PROVE  FoldsTo(Scans(Z, size), Byte, ScanOp(Z, size), s, bytes, Scanned(s, bytes))
  <1> DEFINE A == Scans(Z, size)
             op == ScanOp(Z, size)
             F(g) == [r \in SUBSET (DOMAIN bytes) |->
                        IF r = {} THEN s ELSE Scan(g[r \ {Max(r)}], bytes[Max(r)])]
             it == CHOOSE g : g = F(g)
  <1>1. op \in [A \X Byte -> A] /\ \A a \in A, e \in Byte : op[<<a, e>>] = Scan(a, e)
    BY ScanOpType
  <1>2. Scanned(s, bytes) = it[DOMAIN bytes]
    BY DEF Scanned, FoldLeft, MapThenFoldSet
  <1> HIDE DEF A, op
  <1>3. Foldable(A, Byte, op, s, bytes)
    BY <1>1 DEF Foldable, A
  <1>4. PICK g : IterationOnA(g, A, Byte, op, s, bytes)
    BY <1>3, IterationOnAExists
  <1>5. g = F(g)
    BY <1>1, <1>4 DEF IterationOnA
  <1>6. it = F(it)
    BY <1>5
  <1> HIDE DEF it
  <1>7. Folds(it, A, Byte, op, s, bytes)
    BY <1>1, <1>3, <1>4, <1>6 DEF Folds, IterationOnA
  <1>8. FoldsTo(A, Byte, op, s, bytes, it[DOMAIN bytes])
    BY <1>7, FoldsToResult
  <1> QED
    BY <1>2, <1>8 DEF A, op

LEMMA ScannedParts ==
    ASSUME NEW Z, NEW size, NEW s \in Scans(Z, size)
    PROVE  /\ Scanned(s, <<>>) = s
           /\ \A bytes \in Seq(Byte) : Scanned(s, bytes) \in Scans(Z, size)
           /\ \A bytes \in Seq(Byte), byte \in Byte :
                 Scanned(s, Append(bytes, byte)) = Scan(Scanned(s, bytes), byte)
           /\ \A a, b \in Seq(Byte) : Scanned(s, a \o b) = Scanned(Scanned(s, a), b)
  <1> DEFINE A == Scans(Z, size)
             op == ScanOp(Z, size)
             To(r, bytes, q) == FoldsTo(A, Byte, op, r, bytes, q)
  <1>1. op \in [A \X Byte -> A] /\ \A x \in A, e \in Byte : op[<<x, e>>] = Scan(x, e)
    BY ScanOpType
  <1>2. \A r \in A, bytes \in Seq(Byte) : To(r, bytes, Scanned(r, bytes))
    BY ScanFold
  <1>3. \A r, bytes, p, q : To(r, bytes, p) /\ To(r, bytes, q) => p = q
    BY FoldUnique
  <1>4. To(s, <<>>, s)
    BY <1>1, FoldOfEmpty
  <1>5. \A r, bytes, q : To(r, bytes, q) => q \in A
    BY FoldResult
  <1>6. \A r, bytes, q : \A e \in Byte : To(r, bytes, q) => To(r, Append(bytes, e), op[<<q, e>>])
    BY FoldOfAppend
  <1>7. \A r, a, b, p, q : To(r, a, p) /\ To(p, b, q) => To(r, a \o b, q)
    BY FoldOfConcat
  <1>8. s \in A /\ <<>> \in Seq(Byte)
    OBVIOUS
  <1> HIDE DEF A, op, To
  <1>9. Scanned(s, <<>>) = s
    BY <1>2, <1>3, <1>4, <1>8
  <1>10. \A bytes \in Seq(Byte) : Scanned(s, bytes) \in A
    BY <1>2, <1>5, <1>8
  <1>11. ASSUME NEW bytes \in Seq(Byte), NEW e \in Byte
         PROVE  Scanned(s, Append(bytes, e)) = Scan(Scanned(s, bytes), e)
    <2>1. Append(bytes, e) \in Seq(Byte)
      OBVIOUS
    <2>2. To(s, Append(bytes, e), op[<<Scanned(s, bytes), e>>])
      BY <1>2, <1>6, <1>8
    <2>3. To(s, Append(bytes, e), Scanned(s, Append(bytes, e)))
      BY <1>2, <1>8, <2>1
    <2> QED
      BY <1>1, <1>3, <1>10, <2>2, <2>3
  <1>12. ASSUME NEW a \in Seq(Byte), NEW b \in Seq(Byte)
         PROVE  Scanned(s, a \o b) = Scanned(Scanned(s, a), b)
    <2>1. a \o b \in Seq(Byte)
      OBVIOUS
    <2>2. To(s, a, Scanned(s, a)) /\ To(Scanned(s, a), b, Scanned(Scanned(s, a), b))
      BY <1>2, <1>8, <1>10
    <2>3. To(s, a \o b, Scanned(Scanned(s, a), b))
      BY <1>7, <2>2
    <2>4. To(s, a \o b, Scanned(s, a \o b))
      BY <1>2, <1>8, <2>1
    <2> QED
      BY <1>3, <2>3, <2>4
  <1> QED
    BY <1>9, <1>10, <1>11, <1>12 DEF A

-----------------------------------------------------------------------------
(* Advancing, whole and in pieces.                                         *)

(* A terminal between two chunks: it holds an escape byte back only when   *)
(* it is outside the strings the adapter collects.                         *)
Ready(Z, size) ==
    {w \in Terminals(Z) : Open(w, Z, size) /\ (w.pending_escape => ~InsideControl(w))}

(* Between two chunks the held byte is a field of the terminal, inside the *)
(* loop over a chunk it is not.                                            *)
StateOf(w) == [terminal |-> [w EXCEPT !.pending_escape = FALSE], held |-> w.pending_escape]
TermOf(s)  == [s.terminal EXCEPT !.pending_escape = s.held]

LEMMA Carrying ==
    ASSUME NEW Z, NEW size
    PROVE  /\ \A w \in Ready(Z, size) : StateOf(w) \in Scans(Z, size) /\ TermOf(StateOf(w)) = w
           /\ \A s \in Scans(Z, size) : TermOf(s) \in Ready(Z, size) /\ StateOf(TermOf(s)) = s
  <1>1. ASSUME NEW w \in Ready(Z, size)
        PROVE  StateOf(w) \in Scans(Z, size) /\ TermOf(StateOf(w)) = w
    <2> DEFINE no == FALSE
               v == [w EXCEPT !.pending_escape = no]
    <2>1. w \in Terminals(Z) /\ Open(w, Z, size) /\ w.pending_escape \in BOOLEAN
          /\ (w.pending_escape => ~InsideControl(w)) /\ no \in BOOLEAN /\ ~no
      BY TerminalParts DEF Ready
    <2>2. StateOf(w) = [terminal |-> v, held |-> w.pending_escape]
      BY DEF StateOf
    <2> HIDE DEF no
    <2>3. /\ v \in Terminals(Z) /\ SameActions(w, v) /\ v.pending_escape = no
          /\ v.string_control = w.string_control
          /\ [v EXCEPT !.pending_escape = w.pending_escape] = w
      BY <2>1 DEF Terminals, SameActions
    <2> HIDE DEF v
    <2>4. v \in Parsers(Z, size)
      BY <2>1, <2>3, ActionsKept DEF Parsers
    <2>5. w.pending_escape => ~InsideControl(v)
      BY <2>1, <2>3 DEF InsideControl
    <2> QED
      BY <2>1, <2>2, <2>3, <2>4, <2>5 DEF Scans, TermOf
  <1>2. ASSUME NEW s \in Scans(Z, size)
        PROVE  TermOf(s) \in Ready(Z, size) /\ StateOf(TermOf(s)) = s
    <2> DEFINE no == FALSE
               v == s.terminal
               w == [v EXCEPT !.pending_escape = s.held]
    <2>1. /\ v \in Terminals(Z) /\ Open(v, Z, size) /\ v.pending_escape = no
          /\ s.held \in BOOLEAN /\ (s.held => ~InsideControl(v))
          /\ s = [terminal |-> v, held |-> s.held]
      <3>1. v \in Parsers(Z, size) /\ s.held \in BOOLEAN /\ (s.held => ~InsideControl(v))
            /\ s = [terminal |-> v, held |-> s.held]
        BY DEF Scans
      <3>2. v.pending_escape \in BOOLEAN
        BY <3>1, TerminalParts DEF Parsers
      <3> QED
        BY <3>1, <3>2 DEF Parsers
    <2>2. TermOf(s) = w
      BY DEF TermOf
    <2>3. StateOf(w) = [terminal |-> [w EXCEPT !.pending_escape = no],
                        held |-> w.pending_escape]
      BY DEF StateOf
    <2> HIDE DEF v, no
    <2>4. /\ w \in Terminals(Z) /\ SameActions(v, w) /\ w.pending_escape = s.held
          /\ w.string_control = v.string_control
          /\ [w EXCEPT !.pending_escape = no] = v
      BY <2>1 DEF Terminals, SameActions
    <2> HIDE DEF w
    <2>5. Open(w, Z, size) /\ (w.pending_escape => ~InsideControl(w))
      BY <2>1, <2>4, ActionsKept DEF InsideControl
    <2> QED
      BY <2>1, <2>2, <2>3, <2>4, <2>5 DEF Ready
  <1> QED
    BY <1>1, <1>2

(* One byte after a held escape byte is the same in the next chunk as in   *)
(* this one, unless it is an escape byte itself.                           *)
LEMMA JoinIsScan ==
    ASSUME NEW Z, NEW size, NEW w \in Ready(Z, size), w.pending_escape, NEW byte \in Byte
    PROVE  /\ [terminal |-> JoinEscape(w, byte), held |-> FALSE] \in Scans(Z, size)
           /\ byte # Esc => Scan(StateOf(w), byte)
                              = [terminal |-> JoinEscape(w, byte), held |-> FALSE]
  <1> DEFINE v == [w EXCEPT !.pending_escape = FALSE]
             x == Vte(v, Esc)
  <1>1. StateOf(w) = [terminal |-> v, held |-> w.pending_escape]
    BY DEF StateOf
  <1>2. StateOf(w) \in Scans(Z, size) /\ w \in Terminals(Z) /\ ~InsideControl(w)
    BY Carrying DEF Ready
  <1>3. v.dcs = w.dcs /\ v.string_control = w.string_control
    BY <1>2 DEF Terminals
  <1>4. JoinEscape(w, byte) = IF ~InsideDcs(w) /\ IsTarget(byte) THEN Start(v, byte)
                              ELSE Vte(x, byte)
    BY DEF JoinEscape
  <1>5. v \in Parsers(Z, size)
    <2>1. StateOf(w).terminal = v
      BY <1>1
    <2> HIDE DEF v
    <2> QED
      BY <1>2, <2>1 DEF Scans
  <1> HIDE DEF v
  <1>6. x \in Parsers(Z, size)
    BY <1>5, VteContinues, BytesAre DEF Continues
  <1>7. JoinEscape(w, byte) \in Parsers(Z, size)
    BY <1>4, <1>5, <1>6, StartContinues, VteContinues DEF Continues
  <1>8. ~InsideControl(v) /\ (InsideDcs(v) <=> InsideDcs(w))
    BY <1>2, <1>3 DEF InsideControl, InsideDcs
  <1>9. ASSUME byte # Esc
        PROVE  Scan(StateOf(w), byte) = [terminal |-> JoinEscape(w, byte), held |-> FALSE]
    <2>1. StateOf(w).terminal = v /\ StateOf(w).held
      BY <1>1
    <2> HIDE DEF x
    <2> DEFINE s == StateOf(w)
    <2>2. Scan(s, byte) = IF InsideControl(v) THEN [s EXCEPT !.terminal = Consume(v, byte)]
                          ELSE IF ~InsideDcs(v) /\ IsTarget(byte)
                               THEN [terminal |-> Start(v, byte), held |-> FALSE]
                          ELSE IF byte = Esc THEN [terminal |-> x, held |-> TRUE]
                          ELSE [terminal |-> Vte(x, byte), held |-> FALSE]
      BY <2>1 DEF Scan, x
    <2> HIDE DEF s
    <2> QED
      BY <1>4, <1>8, <1>9, <2>2 DEF s
  <1> QED
    BY <1>7, <1>9 DEF Scans

LEMMA AdvanceScans ==
    ASSUME NEW Z, NEW size, NEW w \in Ready(Z, size), NEW bytes \in Seq(Byte)
    PROVE  /\ Advance(w, bytes) \in Ready(Z, size)
           /\ ~(w.pending_escape /\ bytes # <<>> /\ Head(bytes) = Esc) =>
                 Advance(w, bytes) = TermOf(Scanned(StateOf(w), bytes))
  <1>0. StateOf(w) \in Scans(Z, size) /\ TermOf(StateOf(w)) = w /\ w.pending_escape \in BOOLEAN
    BY Carrying, TerminalParts DEF Ready
  <1>1. \A v : AdvanceWithoutPendingEscape(v, bytes)
                 = TermOf(Scanned([terminal |-> v, held |-> FALSE], bytes))
    BY DEF AdvanceWithoutPendingEscape, Scanned, TermOf
  <1>2. CASE ~w.pending_escape
    <2>1. Advance(w, bytes) = AdvanceWithoutPendingEscape(w, bytes)
      BY <1>2 DEF Advance
    <2>2. [terminal |-> w, held |-> FALSE] = StateOf(w)
      <3>1. [w EXCEPT !.pending_escape = FALSE] = w
        BY <1>0, <1>2 DEF Ready, Terminals
      <3> QED
        BY <1>0, <1>2, <3>1 DEF StateOf
    <2>3. Advance(w, bytes) = TermOf(Scanned(StateOf(w), bytes))
      BY <1>1, <2>1, <2>2
    <2>4. Scanned(StateOf(w), bytes) \in Scans(Z, size)
      BY <1>0, ScannedParts
    <2> QED
      BY <2>3, <2>4, Carrying
  <1>3. CASE w.pending_escape /\ bytes = <<>>
    <2>1. Advance(w, bytes) = w
      BY <1>3 DEF Advance
    <2>2. Scanned(StateOf(w), bytes) = StateOf(w)
      BY <1>0, <1>3, ScannedParts
    <2> QED
      BY <1>0, <2>1, <2>2
  <1>4. CASE w.pending_escape /\ bytes # <<>>
    <2> DEFINE x == Head(bytes)
               rest == Tail(bytes)
               s == [terminal |-> JoinEscape(w, x), held |-> FALSE]
    <2>1. x \in Byte /\ rest \in Seq(Byte) /\ bytes = Append(<<>>, x) \o rest
          /\ <<>> \in Seq(Byte) /\ Append(<<>>, x) \in Seq(Byte)
      BY <1>4
    <2>2. Advance(w, bytes) = TermOf(Scanned(s, rest))
      BY <1>4 DEF Advance, AdvanceWithoutPendingEscape, Scanned, TermOf
    <2> HIDE DEF x, rest
    <2>3. s \in Scans(Z, size) /\ (x # Esc => Scan(StateOf(w), x) = s)
      BY <1>4, <2>1, JoinIsScan
    <2> HIDE DEF s
    <2>4. Scanned(s, rest) \in Scans(Z, size)
      BY <2>1, <2>3, ScannedParts
    <2>5. Scanned(StateOf(w), bytes) = Scanned(Scan(StateOf(w), x), rest)
      <3> DEFINE z == StateOf(w)
                 one == Append(<<>>, x)
      <3>1. z \in Scans(Z, size)
        BY <1>0
      <3>2. one \in Seq(Byte) /\ bytes = one \o rest /\ rest \in Seq(Byte)
        BY <2>1
      <3>3. Scanned(z, one) = Scan(Scanned(z, <<>>), x) /\ Scanned(z, <<>>) = z
        <4> HIDE DEF z
        <4>1. \A c \in Seq(Byte), byte \in Byte :
                 Scanned(z, Append(c, byte)) = Scan(Scanned(z, c), byte)
          BY <3>1, ScannedParts
        <4>2. Scanned(z, <<>>) = z
          BY <3>1, ScannedParts
        <4> QED
          BY <2>1, <4>1, <4>2
      <3> HIDE DEF z, one
      <3>4. \A c, d \in Seq(Byte) : Scanned(z, c \o d) = Scanned(Scanned(z, c), d)
        BY <3>1, ScannedParts
      <3>5. Scanned(z, bytes) = Scanned(Scan(z, x), rest)
        BY <3>2, <3>3, <3>4
      <3> QED
        BY <3>5 DEF z
    <2>6. TermOf(Scanned(s, rest)) \in Ready(Z, size)
      BY <2>4, Carrying
    <2>7. ASSUME x # Esc
          PROVE  Advance(w, bytes) = TermOf(Scanned(StateOf(w), bytes))
      BY <2>2, <2>3, <2>5, <2>7
    <2>8. Head(bytes) = x
      BY DEF x
    <2>9. Advance(w, bytes) \in Ready(Z, size)
      BY <2>2, <2>6
    <2> QED
      BY <1>4, <2>7, <2>8, <2>9
  <1> QED
    BY <1>0, <1>2, <1>3, <1>4

(* An escape byte is held back only if it was the last one.                *)
LEMMA HeldIsLast ==
    ASSUME NEW Z, NEW size, NEW s \in Scans(Z, size), NEW bytes \in Seq(Byte), bytes # <<>>,
           Scanned(s, bytes).held
    PROVE  bytes[Len(bytes)] = Esc
  <1>1. PICK front \in Seq(Byte), last \in Byte : bytes = Append(front, last)
    BY SequenceEmptyOrAppend
  <1>2. bytes[Len(bytes)] = last
    BY <1>1
  <1>3. Scanned(s, front) \in Scans(Z, size)
        /\ Scanned(s, bytes) = Scan(Scanned(s, front), last)
    BY <1>1, ScannedParts
  <1>4. Scan(Scanned(s, front), last).held
          => last = Esc \/ InsideControl(Scanned(s, front).terminal)
    BY <1>3, ScanKeeps
  <1>5. ~(Scan(Scanned(s, front), last).held /\ InsideControl(Scanned(s, front).terminal))
    BY <1>3, ScanKeeps
  <1> QED
    BY <1>2, <1>3, <1>4, <1>5

(* Two chunks leave the terminal as one does, unless the first ends in an  *)
(* escape byte and the second begins with one (VteAdapter::advance).       *)
THEOREM SplitAdvance ==
    ASSUME NEW Z, NEW size, NEW w \in Ready(Z, size),
           NEW a \in Seq(Byte), a # <<>>, NEW b \in Seq(Byte), b # <<>>,
           ~w.pending_escape \/ Head(a) # Esc,
           a[Len(a)] # Esc \/ Head(b) # Esc
    PROVE  Advance(Advance(w, a), b) = Advance(w, a \o b)
  <1> DEFINE s == StateOf(w)
             u == Advance(w, a)
             c == a \o b
  <1>1. s \in Scans(Z, size)
    BY Carrying
  <1>2. u = TermOf(Scanned(s, a)) /\ u \in Ready(Z, size)
    BY AdvanceScans
  <1>3. Scanned(s, a) \in Scans(Z, size) /\ Scanned(s, c) = Scanned(Scanned(s, a), b)
    BY <1>1, ScannedParts
  <1>4. StateOf(u) = Scanned(s, a)
    BY <1>2, <1>3, Carrying
  <1>5. u.pending_escape => Scanned(s, a).held
    BY <1>4 DEF StateOf
  <1>6. ~(u.pending_escape /\ Head(b) = Esc)
    BY <1>1, <1>5, HeldIsLast
  <1>7. c \in Seq(Byte) /\ c # <<>> /\ Head(c) = Head(a)
    OBVIOUS
  <1> HIDE DEF s, u, c
  <1>8. Advance(u, b) = TermOf(Scanned(StateOf(u), b))
    BY <1>2, <1>6, AdvanceScans
  <1>9. Advance(w, c) = TermOf(Scanned(StateOf(w), c))
    BY <1>7, AdvanceScans
  <1> QED
    BY <1>3, <1>4, <1>8, <1>9 DEF s, u, c

=============================================================================
