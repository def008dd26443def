--------------------------- MODULE TerminalParser ---------------------------
(***************************************************************************)
(* How crates/terminal-core turns bytes into actions: the VTE adapter of   *)
(* vte_adapter.rs around the parser of the vte library, the action buffer  *)
(* of lib.rs and the bounded payloads of crates/terminal-protocol.         *)
(*                                                                         *)
(* This module has no variables.  A terminal is a record; Advance is       *)
(* Terminal::advance_bytes.                                                *)
(* Bytes are the classes the parsers tell apart, named by one byte of each.*)
(* The terminal state an action changes is kept as the sequence of actions *)
(* applied to it: two terminals with the same one are the same terminal.   *)
(***************************************************************************)
EXTENDS SequencesExt

CONSTANTS
    PayloadLimit, \* M1_PAYLOAD_LIMIT_BYTES
    ActionLimit   \* M1_ACTION_BUFFER_LIMIT

ASSUME ParserAssumption == PayloadLimit \in Nat /\ ActionLimit \in Nat

Esc       == "esc"
Bel       == "bel"
Can       == "can" \* CAN and SUB
Backslash == "\\"
Digit     == "6"   \* a parameter byte
Digits    == {"0", "1", "4", Digit, "7", "9"}
Private   == "?"   \* marks the parameters of a private sequence
Erase     == "J"   \* a final byte whose parameter may be unsupported
Finals    == {"[", "]", "_", "P", "n", "x", "h", "l", Erase, Backslash}
Byte      == Finals \cup Digits \cup {Private, Esc, Bel, Can}

(* The number digits stand for, and what a sequence's parameters say.      *)
ValueOf(digit) ==
    CASE digit = "0" -> 0 [] digit = "1" -> 1 [] digit = "4" -> 4
      [] digit = Digit -> 6 [] digit = "7" -> 7 [] digit = "9" -> 9
Number(digits)    == FoldLeft(LAMBDA n, digit : 10 * n + ValueOf(digit), 0, digits)
IsPrivate(params) == params # <<>> /\ Head(params) = Private

-----------------------------------------------------------------------------
(* Payload::from_limited_bytes: a payload keeps its first bytes and says   *)
(* how many there were.                                                    *)
Payload(builder) ==
    [bytes  |-> builder.bytes,
     status |-> IF builder.length > Len(builder.bytes) THEN "Truncated" ELSE "Complete",
     length |-> builder.length]

(* A StringControlBuilder or DcsBuilder with nothing in it yet; `about` is *)
(* the control's target or the sequence's introducer.                      *)
NoBuilder      == [about |-> "none", bytes |-> <<>>, length |-> 0, escape |-> FALSE]
Builder(about) == [NoBuilder EXCEPT !.about = about]

(* push_payload_byte and DcsBuilder::push.                                 *)
PushByte(builder, byte) ==
    [builder EXCEPT !.length = @ + 1,
                    !.bytes = IF Len(@) < PayloadLimit THEN Append(@, byte) ELSE @]

Dispatch(kind, final, params, payload) ==
    [kind |-> kind, final |-> final, params |-> params, payload |-> payload]
Plain(kind, byte) == Dispatch(kind, byte, <<>>, Payload(NoBuilder))
Unsupported       == Plain("Unsupported", Digit)

-----------------------------------------------------------------------------
(* The terminal: the adapter, the library's parser, the action buffer.     *)

NewTerminal ==
    [pending_escape |-> FALSE,           \* the last chunk ended in an escape byte
     string_control |-> NoBuilder,       \* OSC or APC the adapter collects itself
     dcs            |-> NoBuilder,
     suppress       |-> FALSE,           \* suppress_next_st_terminator
     vte            |-> "ground",        \* the library's state
     params         |-> <<>>,            \* of the CSI or DCS being parsed
     osc            |-> NoBuilder,       \* of an OSC the library parses
     actions        |-> <<>>,            \* Terminal.actions
     dropped        |-> 0,               \* Terminal.dropped_actions
     applied        |-> <<>>]            \* what reached the TerminalState

InsideControl(t) == t.string_control.about # "none"
InsideDcs(t)     == t.dcs.about # "none"

(* Mutant: a full buffer drops actions without a trace.                    *)
RecordActionSilently(t, action) ==
    IF Len(t.actions) < ActionLimit THEN [t EXCEPT !.actions = Append(@, action)] ELSE t

(* record_action: a full buffer counts what it does not keep.              *)
RecordAction(t, action) ==
    IF Len(t.actions) < ActionLimit THEN [t EXCEPT !.actions = Append(@, action)]
    ELSE [t EXCEPT !.dropped = @ + 1]

(* An erase sequence with a parameter over 2 is reported again, as         *)
(* unsupported: its last digit is over 2, or another one is over 0.        *)
OverTwo(digits) ==
    \E i \in DOMAIN digits : ValueOf(digits[i]) > IF i = Len(digits) THEN 2 ELSE 0

Generates(action) ==
    /\ action.kind = "Csi" /\ action.final = Erase
    /\ ~IsPrivate(action.params) /\ OverTwo(action.params)

(* push_action: the action and what applying it generates are recorded,    *)
(* and the state is changed whatever the buffer does.                      *)
PushAction(t, action) ==
    LET recorded == RecordAction([t EXCEPT !.applied = Append(@, action)], action)
    IN  IF Generates(action) THEN RecordAction(recorded, Unsupported) ELSE recorded

-----------------------------------------------------------------------------
(* The recorder: what the adapter does at the library's calls.             *)

Hook(t, action) ==
    [t EXCEPT !.dcs = Builder(action), !.vte = "dcs_passthrough"]

Put(t, byte) ==
    IF InsideDcs(t) THEN [t EXCEPT !.dcs = PushByte(@, byte)] ELSE t

Unhook(t) ==
    IF InsideDcs(t)
    THEN PushAction([t EXCEPT !.dcs = NoBuilder, !.suppress = TRUE],
                    Dispatch("Dcs", t.dcs.about, t.params, Payload(t.dcs)))
    ELSE t

OscDispatch(t, bell) ==
    PushAction([t EXCEPT !.osc = NoBuilder, !.suppress = @ \/ ~bell],
               Dispatch("Osc", IF bell THEN Bel ELSE Backslash, <<>>, Payload(t.osc)))

EscDispatch(t, byte) ==
    LET told == [t EXCEPT !.suppress = FALSE]
    IN  IF t.suppress /\ byte = Backslash THEN told
        ELSE PushAction(told, Plain("Escape", byte))

Execute(t, byte) == PushAction(t, Plain("Control", byte))

-----------------------------------------------------------------------------
(* The vte library's parser (external): one byte.                          *)

Goto(t, state) == [t EXCEPT !.vte = state, !.params = <<>>]

Ground(t, byte) ==
    IF byte \in {Bel, Can} THEN Execute(t, byte) ELSE PushAction(t, Plain("Print", byte))

Escape(t, byte) ==
    CASE byte = "["        -> Goto(t, "csi")
      [] byte = "P"        -> Goto(t, "dcs_entry")
      [] byte = "]"        -> Goto(t, "osc")
      [] byte = "_"        -> Goto(t, "sos_pm_apc")
      [] byte = Bel        -> Execute(t, byte)
      [] OTHER             -> EscDispatch(Goto(t, "ground"), byte)

(* A private mark comes first or makes the parser ignore the sequence.     *)
IsParam(t, byte) == byte \in Digits \/ (byte = Private /\ t.params = <<>>)

Csi(t, byte) ==
    CASE IsParam(t, byte)  -> [t EXCEPT !.params = Append(@, byte)]
      [] byte = Private /\ ~IsParam(t, byte) -> Goto(t, "csi_ignore")
      [] byte = Bel        -> Execute(t, byte)
      [] OTHER             -> Goto(PushAction(t, Dispatch("Csi", byte, t.params, Payload(NoBuilder))),
                                   "ground")

CsiIgnore(t, byte) ==
    CASE byte = Bel                       -> Execute(t, byte)
      [] byte \in Digits \cup {Private}   -> t
      [] OTHER                            -> Goto(t, "ground")

DcsEntry(t, byte) ==
    CASE IsParam(t, byte)  -> [t EXCEPT !.params = Append(@, byte)]
      [] byte = Private /\ ~IsParam(t, byte) -> Goto(t, "dcs_ignore")
      [] byte = Bel        -> t
      [] OTHER             -> Hook(t, byte)

Osc(t, byte) ==
    IF byte = Bel THEN Goto(OscDispatch(t, TRUE), "ground")
    ELSE [t EXCEPT !.osc = PushByte(@, byte)]

(* An escape or a cancel byte ends what is being parsed.                   *)
Interrupted(t) ==
    CASE t.vte = "dcs_passthrough" -> Unhook(t)
      [] t.vte = "osc"             -> OscDispatch(t, FALSE)
      [] OTHER                     -> t

Vte(t, byte) ==
    IF byte = Esc THEN Goto(Interrupted(t), "escape")
    ELSE IF byte = Can THEN Goto(Execute(Interrupted(t), byte), "ground")
    ELSE CASE t.vte = "ground"          -> Ground(t, byte)
           [] t.vte = "escape"          -> Escape(t, byte)
           [] t.vte = "csi"             -> Csi(t, byte)
           [] t.vte = "csi_ignore"      -> CsiIgnore(t, byte)
           [] t.vte = "dcs_entry"       -> DcsEntry(t, byte)
           [] t.vte = "dcs_passthrough" -> Put(t, byte)
           [] t.vte = "osc"             -> Osc(t, byte)
           [] OTHER                     -> t

-----------------------------------------------------------------------------
(* The adapter.                                                            *)

IsTarget(byte) == byte \in {"]", "_"}
Start(t, byte) == [t EXCEPT !.string_control = Builder(byte)]

(* StringControlBuilder::finish.                                           *)
Finish(t, terminator) ==
    LET control == t.string_control
        action  == IF control.about = "]" THEN Dispatch("Osc", terminator, <<>>, Payload(control))
                   ELSE Dispatch("Apc", Backslash, <<>>, Payload(control))
    IN  PushAction([t EXCEPT !.string_control = NoBuilder], action)

(* StringControlBuilder::consume, one byte of its loop.                    *)
Consume(t, byte) ==
    LET control == t.string_control
        Keep(c) == [t EXCEPT !.string_control = c]
        closed  == [control EXCEPT !.escape = FALSE]
    IN  IF control.escape
        THEN IF byte = Backslash THEN Finish(t, Backslash)
             ELSE Keep(PushByte(PushByte(closed, Esc), byte))
        ELSE CASE control.about = "]" /\ byte = Bel -> Finish(t, Bel)
               [] byte = Esc                        -> Keep([control EXCEPT !.escape = TRUE])
               [] OTHER                             -> Keep(PushByte(control, byte))

(* advance_without_pending_escape, one byte of its loop.  `held` says that *)
(* the byte before it, in the same chunk, is an escape byte the library    *)
(* has not been given yet: the code looks one byte ahead of it instead.    *)
Scan(s, byte) ==
    LET t      == s.terminal
        given  == IF s.held THEN Vte(t, Esc) ELSE t
        starts == s.held /\ ~InsideDcs(t) /\ IsTarget(byte)
    IN  IF InsideControl(t) THEN [s EXCEPT !.terminal = Consume(t, byte)]
        ELSE IF starts THEN [terminal |-> Start(t, byte), held |-> FALSE]
        ELSE IF byte = Esc THEN [terminal |-> given, held |-> TRUE]
        ELSE [terminal |-> Vte(given, byte), held |-> FALSE]

AdvanceWithoutPendingEscape(t, bytes) ==
    LET s == FoldLeft(Scan, [terminal |-> t, held |-> FALSE], bytes)
    IN  [s.terminal EXCEPT !.pending_escape = s.held]

(* Mutant: the held escape byte always goes to the library.                *)
JoinIntoParser(t, byte) == Vte(Vte([t EXCEPT !.pending_escape = FALSE], Esc), byte)

(* The first byte after a chunk that ended in an escape byte.              *)
JoinEscape(t, byte) ==
    LET joined == [t EXCEPT !.pending_escape = FALSE]
    IN  IF ~InsideDcs(t) /\ IsTarget(byte) THEN Start(joined, byte)
        ELSE Vte(Vte(joined, Esc), byte)

(* VteAdapter::advance.                                                    *)
Advance(t, bytes) ==
    CASE t.pending_escape /\ bytes = <<>> -> t
      [] t.pending_escape /\ bytes # <<>> ->
            AdvanceWithoutPendingEscape(JoinEscape(t, Head(bytes)), Tail(bytes))
      [] OTHER                            -> AdvanceWithoutPendingEscape(t, bytes)

-----------------------------------------------------------------------------
(* The facade: opening, resizing, looking.                                 *)

ResizeTerminal(terminal, size) ==
    [terminal EXCEPT !.applied = Append(@, Dispatch("Resize", size, <<>>, Payload(NoBuilder)))]

OpenTerminal(size) == ResizeTerminal(NewTerminal, size)

(* snapshot_events: control sequences and strings are reported, one whose  *)
(* payload was cut short a second time.  What the report says of an action *)
(* leaves out how a string ended.                                          *)
Reported == {"Csi", "Osc", "Dcs", "Apc", "Unsupported"}

EventOf(action) ==
    [kind   |-> action.kind,
     final  |-> IF action.kind = "Csi" THEN action.final ELSE "none",
     params |-> action.params,
     shows  |-> action.payload.bytes,
     length |-> 0]

(* push_payload_limit: this one says how long it was.                      *)
LimitEvent(action) ==
    [kind |-> "PayloadLimitExceeded", final |-> "none", params |-> <<>>, shows |-> <<>>,
     length |-> action.payload.length]

(* What the snapshot reports of one action.                                *)
EventsOf(action) ==
    IF action.kind \notin Reported THEN <<>>
    ELSE IF action.payload.status = "Complete" THEN <<EventOf(action)>>
    ELSE <<EventOf(action), LimitEvent(action)>>

SnapshotEvents(actions) == FlattenSeq([i \in DOMAIN actions |-> EventsOf(actions[i])])

(* snapshot_terminal: the state, which some kinds of action change, and    *)
(* the events of the actions the buffer holds.                             *)
Snapshot(terminal) ==
    [state  |-> SelectSeq(terminal.applied,
                          LAMBDA action : action.kind \in {"Print", "Control", "Csi", "Resize"}),
     events |-> SnapshotEvents(terminal.actions)]

(* The sizes behind a state: the terminal's, its alternate screen's, and   *)
(* whether that one is shown.  A resize on the primary screen leaves the   *)
(* alternate one as it is (TerminalState::resize); modes 47, 1047 and 1049 *)
(* show it and hide it again, the last one making it new on the way in and *)
(* all but 47 on the way out (apply_dec_private_mode).                     *)
NoScreens == [size |-> "none", alternate |-> "none", shown |-> FALSE]

ResizeScreens(screens, size) ==
    [screens EXCEPT !.size = size,
                    !.alternate = IF screens.size = "none" \/ (screens.shown /\ size # screens.size)
                                  THEN size ELSE @]
EnterAlternate(screens, clear) ==
    [screens EXCEPT !.shown = TRUE, !.alternate = IF clear THEN screens.size ELSE @]
ExitAlternate(screens, clear) ==
    [screens EXCEPT !.shown = FALSE,
                    !.alternate = IF clear /\ screens.shown THEN screens.size ELSE @]

OnMode(screens, final, mode) ==
    CASE final = "h" /\ mode \in {47, 1047, 1049} -> EnterAlternate(screens, mode = 1049)
      [] final = "l" /\ mode \in {47, 1047, 1049} -> ExitAlternate(screens, mode # 47)
      [] OTHER                                    -> screens

OnScreens(screens, action) ==
    CASE action.kind = "Resize" -> ResizeScreens(screens, action.final)
      [] action.kind = "Csi" /\ IsPrivate(action.params) ->
            OnMode(screens, action.final, Number(Tail(action.params)))
      [] OTHER                  -> screens

(* After the actions of a state: the size of the rows on view, which are   *)
(* stale when the terminal has another one.                                *)
Screens(actions)      == FoldLeft(OnScreens, NoScreens, actions)
Viewport(screens)     == IF screens.shown THEN screens.alternate ELSE screens.size
ViewportSize(actions) == Viewport(Screens(actions))
IsStale(screens)      == Viewport(screens) # screens.size
Stale(actions)        == IsStale(Screens(actions))

(* diff_rows, diff_cell, diff_style and diff_image: what is on the screen. *)
SameState(left, right) == left.state = right.state

(* first_snapshot_difference: the damage is not compared.                  *)
Differ(left, right) == ~SameState(left, right) \/ left.events # right.events
=============================================================================
