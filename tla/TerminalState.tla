---------------------------- MODULE TerminalState ----------------------------
(***************************************************************************)
(* The terminal state machine of crates/terminal-core/src/state.rs: what   *)
(* Terminal::advance_bytes, resize and render_snapshot do to the primary   *)
(* and alternate screens, the scrollback, the cursor and the damage set.   *)
(*                                                                         *)
(* `term` is TerminalState; the operators on it carry the names of its     *)
(* methods.  A step is one TerminalAction, one resize or one snapshot.  An *)
(* index out of range is the panic it is in the code: `term.panicked` is   *)
(* set and nothing happens any more.                                       *)
(***************************************************************************)
EXTENDS TerminalScreen

CONSTANTS
    InitialSize, \* TerminalConfig.dimensions
    Sizes,       \* the dimensions a resize may ask for, valid or not
    MaxColumns,  \* M1_MAX_COLUMNS
    MaxRows,     \* M1_MAX_ROWS
    MaxCells,    \* M1_MAX_VIEWPORT_CELLS
    Glyphs,      \* the printable characters: [w, ink], ink 0 a space
    Controls,    \* C0 controls received, a subset of ControlKinds
    Moves,       \* cursor sequences received: [final, n, m]
    Erasures,    \* erase sequences received: [final, n]
    Modes,       \* DEC private modes set and reset
    Backgrounds, \* whether an SGR may set a background
    MaxSteps     \* bound: steps of a behaviour

ControlKinds == {"BS", "HT", "LF", "CR"}
Size(columns, rows) == [cols |-> columns, rows |-> rows]

(* Dimensions::new: what is accepted.                                      *)
ValidSize(dims) ==
    /\ dims.cols \in 1..MaxColumns
    /\ dims.rows \in 1..MaxRows
    /\ dims.cols * dims.rows <= MaxCells

(* The final bytes of the cursor and erase sequences that are modelled.    *)
MoveFinals  == {"A", "B", "C", "D", "E", "F", "G", "H", "d"}
EraseFinals == {"J", "K", "X"}

ASSUME TerminalAssumption ==
    /\ MaxColumns \in Nat /\ MaxRows \in Nat
    /\ InitialSize \in Sizes /\ ValidSize(InitialSize)
    /\ Glyphs \subseteq [w : Nat, ink : Nat]
    /\ Controls \subseteq ControlKinds
    /\ Moves \subseteq [final : MoveFinals, n : Nat, m : Nat]
    /\ Erasures \subseteq [final : EraseFinals, n : Nat]
    /\ Backgrounds \subseteq BOOLEAN
    /\ MaxSteps \in Nat

VARIABLES
    term,  \* TerminalState
    steps, \* steps taken
    shown  \* history: what the last render_snapshot returned

vars == <<term, steps, shown>>

-----------------------------------------------------------------------------
(* Access to the active screen.                                            *)

Columns(t) == t.dims.cols
Rows(t)    == t.dims.rows
Active(t)  == IF t.active = "primary" THEN t.primary ELSE t.alternate

Update(t, screen) ==
    IF t.active = "primary" THEN [t EXCEPT !.primary = screen]
    ELSE [t EXCEPT !.alternate = screen]

mark(t, rows)  == [t EXCEPT !.damage = @ \cup rows]
mark_all(t)    == mark(t, 0..Rows(t) - 1)
unwrapped(t)   == Update(t, [Active(t) EXCEPT !.wrap = FALSE])
move_to(t, r, c) == Update(t, set_cursor(Active(t), r, c))
Panicked(t)    == [t EXCEPT !.panicked = TRUE]

Init ==
    /\ term = [dims       |-> InitialSize,
               primary    |-> NewScreen(InitialSize, 1),
               alternate  |-> NewScreen(InitialSize, 1 + InitialSize.rows),
               active     |-> "primary",
               scrollback |-> NoScrollback,
               nextId     |-> 1 + 2 * InitialSize.rows,
               damage     |-> 0..InitialSize.rows - 1,
               shade      |-> FALSE,
               saved      |-> [screen |-> "none", row |-> 0, col |-> 0],
               panicked   |-> FALSE]
    /\ steps = 0
    /\ shown = [dims |-> Size(0, 0), active |-> "none", rows |-> <<>>]

-----------------------------------------------------------------------------
(* Scrolling.                                                              *)

\* mutant: every screen scrolls into the scrollback
ScrollUpIntoHistory(t) ==
    LET s    == Active(t)
        row  == blank_row(Columns(t), t.nextId)
        next == Update(t, [s EXCEPT !.rows = Append(Tail(@), row)])
    IN  mark_all([next EXCEPT !.nextId = @ + 1,
                              !.scrollback = push(@, Head(s.rows))])

scroll_active_screen_up(t) ==
    LET s    == Active(t)
        row  == blank_row(Columns(t), t.nextId)
        next == [Update(t, [s EXCEPT !.rows = Append(Tail(@), row)])
                   EXCEPT !.nextId = @ + 1]
    IN  mark_all(IF t.active = "primary"
                 THEN [next EXCEPT !.scrollback = push(@, Head(s.rows))]
                 ELSE next)

move_down_or_scroll(t) ==
    LET s == Active(t) IN
    IF s.row + 1 < Rows(t)
    THEN mark(move_to(t, s.row + 1, s.col), {s.row, s.row + 1})
    ELSE move_to(scroll_active_screen_up(t), Rows(t) - 1, s.col)

line_feed(t) == move_down_or_scroll(unwrapped(t))

wrap_pending(t) ==
    LET s == Active(t)
        wrapped == Update(t, [s EXCEPT !.rows[s.row + 1].wrapped = TRUE,
                                       !.wrap = FALSE])
        next == move_down_or_scroll(mark(wrapped, {s.row}))
    IN  IF s.row + 1 \in DOMAIN s.rows
        THEN move_to(next, Active(next).row, 0)
        ELSE Panicked(t)

-----------------------------------------------------------------------------
(* Printing.                                                               *)

(* The other half of a wide character at (r, c) becomes a space.           *)
clear_wide_partner_at(t, r, c) ==
    LET s == Active(t)
        w == CellAt(s, r, c).w
        partner == IF w > 1 THEN c + 1 ELSE c - 1
        pairs == IF w > 1 THEN c + 1 < Columns(t) ELSE w = 0 /\ c > 0
    IN  IF r >= Rows(t) \/ c >= Columns(t) THEN t
        ELSE IF ~Has(s, r, c) THEN Panicked(t)
        ELSE IF ~pairs THEN t
        ELSE IF ~Has(s, r, partner) THEN Panicked(t)
        ELSE LET other == CellAt(s, r, partner) IN
             IF (w > 1 /\ other.w = 0) \/ (w = 0 /\ other.w > 1)
             THEN mark(Update(t, PutCell(s, r, partner, Cell(1, 0, other.bg))),
                       {r})
             ELSE t

(* Write a cell at the cursor.                                             *)
put(t, r, c, cell) ==
    IF Has(Active(t), r, c) THEN Update(t, PutCell(Active(t), r, c, cell))
    ELSE Panicked(t)

(* A wide character that does not fit leaves a space and wraps.            *)
wrap_wide(t) ==
    LET s == Active(t)
        cleared == clear_wide_partner_at(t, s.row, s.col)
        spaced == put(cleared, s.row, s.col, Cell(1, 0, t.shade))
        next == Update(spaced, [Active(spaced) EXCEPT !.wrap = TRUE])
    IN  IF cleared.panicked \/ spaced.panicked THEN Panicked(t)
        ELSE wrap_pending(mark(next, {s.row}))

print_cell(t, glyph, w) ==
    LET s == Active(t)
        r == s.row
        c == s.col
        one == clear_wide_partner_at(t, r, c)
        two == IF w > 1 THEN clear_wide_partner_at(one, r, c + 1) ELSE one
        lead == put(two, r, c, Cell(w, glyph.ink, t.shade))
        both == IF w > 1 /\ c + 1 < Columns(t)
                THEN put(lead, r, c + 1, Cell(0, 0, t.shade)) ELSE lead
        full == c + w >= Columns(t)
        placed == move_to(both, r, IF full THEN Columns(t) - 1 ELSE c + w)
    IN  IF one.panicked \/ two.panicked \/ lead.panicked \/ both.panicked
        THEN Panicked(t)
        ELSE mark(Update(placed, [Active(placed) EXCEPT !.wrap = @ \/ full]), {r})

print(t, glyph) ==
    LET w == Least(glyph.w, Least(Columns(t), 2))
        start == IF Active(t).wrap THEN wrap_pending(t) ELSE t
        ready == IF w > 1 /\ Active(start).col + w > Columns(t)
                 THEN wrap_wide(start) ELSE start
    IN  IF start.panicked THEN start
        ELSE IF w = 0 THEN start
        ELSE IF ready.panicked THEN ready
        ELSE print_cell(ready, glyph, w)

-----------------------------------------------------------------------------
(* C0 controls, cursor movement and modes.                                 *)

to_column(t, c) ==
    mark(move_to(unwrapped(t), Active(t).row, c), {Active(t).row})

BackspaceUnsaturated(t) == to_column(t, Active(t).col - 1)  \* mutant

backspace(t) == to_column(t, Monus(Active(t).col, 1))

horizontal_tab(t) ==
    to_column(t, Least((Active(t).col \div 8 + 1) * 8, Columns(t) - 1))

carriage_return(t) == to_column(t, 0)

apply_control(t, kind) ==
    CASE kind = "BS" -> backspace(t)
      [] kind = "HT" -> horizontal_tab(t)
      [] kind = "LF" -> line_feed(t)
      [] kind = "CR" -> carriage_return(t)

set_cursor_position(t, r, c) ==
    mark(move_to(unwrapped(t), r, c), {Active(t).row, r})

(* csi_param_or_default with default 1, and one_based_to_index.            *)
Param(n) == Greatest(n, 1)
Index(n, extent) == Least(Param(n) - 1, extent - 1)

apply_move(t, m) ==
    LET s     == Active(t)
        down  == Least(s.row + Param(m.n), Rows(t) - 1)
        up    == Monus(s.row, Param(m.n))
        right == Least(s.col + Param(m.n), Columns(t) - 1)
        to(r, c) == set_cursor_position(t, r, c)
    IN  CASE m.final = "A" -> to(up, s.col)
          [] m.final = "B" -> to(down, s.col)
          [] m.final = "C" -> to(s.row, right)
          [] m.final = "D" -> to(s.row, Monus(s.col, Param(m.n)))
          [] m.final = "E" -> to(down, 0)
          [] m.final = "F" -> to(up, 0)
          [] m.final = "G" -> to(s.row, Index(m.n, Columns(t)))
          [] m.final = "d" -> to(Index(m.n, Rows(t)), s.col)
          [] m.final = "H" -> to(Index(m.n, Rows(t)), Index(m.m, Columns(t)))

set_cursor_visible(t, visible) ==
    mark([t EXCEPT !.primary.visible = visible, !.alternate.visible = visible],
         {Active(t).row})

save_cursor(t) ==
    [t EXCEPT !.saved = [screen |-> t.active, row |-> Active(t).row,
                         col |-> Active(t).col]]

restore_cursor(t) ==
    LET r == Least(t.saved.row, Rows(t) - 1)
        c == Least(t.saved.col, Columns(t) - 1)
    IN  IF t.saved.screen # t.active THEN t
        ELSE mark(move_to(unwrapped(t), r, c), {r})

ResetReusesIds(t) ==  \* mutant
    [t EXCEPT !.alternate = NewScreen(t.dims, t.nextId)]

reset_alternate(t) ==
    [t EXCEPT !.alternate = NewScreen(t.dims, t.nextId),
              !.nextId = @ + Rows(t)]

EnterUndamaged(t, clear) ==  \* mutant
    [(IF clear THEN reset_alternate(t) ELSE t) EXCEPT !.active = "alternate"]

enter_alternate_screen(t, clear) ==
    mark_all([(IF clear THEN reset_alternate(t) ELSE t)
                EXCEPT !.active = "alternate"])

exit_alternate_screen(t, clear) ==
    mark_all([(IF clear /\ t.active = "alternate" THEN reset_alternate(t) ELSE t)
                EXCEPT !.active = "primary"])

apply_dec_private_mode(t, mode, enabled) ==
    CASE mode = 25 -> set_cursor_visible(t, enabled)
      [] mode = 47 /\ enabled -> enter_alternate_screen(t, FALSE)
      [] mode = 47 /\ ~enabled -> exit_alternate_screen(t, FALSE)
      [] mode = 1047 /\ enabled -> enter_alternate_screen(t, FALSE)
      [] mode = 1047 /\ ~enabled -> exit_alternate_screen(t, TRUE)
      [] mode = 1048 /\ enabled -> save_cursor(t)
      [] mode = 1048 /\ ~enabled -> restore_cursor(t)
      [] mode = 1049 /\ enabled -> enter_alternate_screen(save_cursor(t), TRUE)
      [] mode = 1049 /\ ~enabled -> restore_cursor(exit_alternate_screen(t, TRUE))
      [] OTHER -> t

-----------------------------------------------------------------------------
(* Erasing.                                                                *)

fill_erased_cells(t, r, start, end, bg) ==
    LET s     == Active(t)
        last  == Least(end, Columns(t))
        cells == [c \in DOMAIN s.rows[r + 1].cells |->
                    IF c - 1 \in start..last - 1 THEN Cell(1, 0, bg)
                    ELSE s.rows[r + 1].cells[c]]
    IN  IF r >= Rows(t) \/ start >= Columns(t) \/ start >= end THEN t
        ELSE IF ~Has(s, r, last - 1) THEN Panicked(t)
        ELSE mark(Update(t, [s EXCEPT !.rows[r + 1].cells = cells,
                                      !.rows[r + 1].wrapped =
                                          @ /\ last # Columns(t)]), {r})

clear_cells_with_current_background(t, r, start, end) ==
    fill_erased_cells(t, r, start, end, t.shade)

(* The whole of the rows first..last.                                      *)
clear_rows(t, first, last, bg) ==
    LET clear(acc, r) == fill_erased_cells(acc, r, 0, Columns(t), bg)
    IN  FoldLeft(clear, t, [i \in 1..Monus(last + 1, first) |-> first + i - 1])

erase_display_all(t) ==
    LET written == {i \in DOMAIN t.primary.rows : ~is_empty(t.primary.rows[i])}
        occupied == IF written = {} THEN 1
                    ELSE CHOOSE i \in written : \A j \in written : j <= i
        scroll(acc, i) == scroll_active_screen_up(acc)
        scrolled == IF t.active = "primary"
                    THEN FoldLeft(scroll, t, [i \in 1..occupied |-> i]) ELSE t
    IN  clear_rows(scrolled, 0, Rows(t) - 1, t.shade)

erase_in_display(t, mode) ==
    LET s == Active(t)
        row(acc, start, end) ==
            clear_cells_with_current_background(acc, s.row, start, end)
    IN  CASE mode = 0 -> unwrapped(clear_rows(row(t, s.col, Columns(t)),
                                              s.row + 1, Rows(t) - 1, FALSE))
          [] mode = 1 -> unwrapped(row(clear_rows(t, 0, s.row - 1, FALSE),
                                       0, s.col + 1))
          [] mode = 2 -> unwrapped(erase_display_all(t))
          [] OTHER -> t

erase_in_line(t, mode) ==
    LET s == Active(t)
        row(start, end) == unwrapped(
            clear_cells_with_current_background(t, s.row, start, end))
    IN  CASE mode = 0 /\ s.wrap -> t
          [] mode = 0 /\ ~s.wrap -> row(s.col, Columns(t))
          [] mode = 1 -> row(0, s.col + 1)
          [] mode = 2 -> row(0, Columns(t))
          [] OTHER -> t

erase_characters(t, n) ==
    LET s == Active(t) IN
    unwrapped(clear_cells_with_current_background(t, s.row, s.col,
                                                  s.col + Param(n)))

apply_erasure(t, e) ==
    CASE e.final = "J" -> erase_in_display(t, e.n)
      [] e.final = "K" -> erase_in_line(t, e.n)
      [] e.final = "X" -> erase_characters(t, e.n)

-----------------------------------------------------------------------------
(* Resizing.                                                               *)

(* Rows that no longer fit leave at the top as far as the cursor needs it  *)
(* and else at the bottom; new rows come from the scrollback first.        *)
ShrinkFromBelow(t, rows) ==  \* mutant: ignores where the cursor is
    [t EXCEPT !.primary.rows = SubSeq(@, 1, rows),
              !.primary.row  = Least(@, rows - 1)]

shrink_primary(t, rows) ==
    LET s == t.primary
        n == Monus(s.row + 1, rows)
        pushing(sb, row) == push(sb, row)
    IN  [t EXCEPT
           !.scrollback  = FoldLeft(pushing, @, SubSeq(s.rows, 1, n)),
           !.primary.rows = SubSeq(s.rows, n + 1, n + rows),
           !.primary.row  = Least(Monus(s.row, n), rows - 1)]

grow_primary(t, rows) ==
    LET s    == t.primary
        sb   == t.scrollback
        n    == Least(rows - Len(s.rows), Len(sb.rows))
        more == rows - Len(s.rows) - n
    IN  [t EXCEPT
           !.scrollback  = pop_back(@, n),
           !.primary.rows = SubSeq(sb.rows, Len(sb.rows) - n + 1, Len(sb.rows))
                              \o s.rows \o BlankRows(more, Columns(t), t.nextId),
           !.primary.row  = Least(@ + n, rows - 1),
           !.nextId = @ + more]

resize_primary_height(t, rows) ==
    IF rows < Len(t.primary.rows) THEN shrink_primary(t, rows)
    ELSE IF rows > Len(t.primary.rows) THEN grow_primary(t, rows) ELSE t

(* The reflowed rows are split so that the cursor's row is on the screen.  *)
split_rows(t, flow, dims) ==
    LET n     == Len(flow.rows)
        split == Least(Monus(n, dims.rows), flow.row)
        seen  == Least(dims.rows, n - split)
        more  == dims.rows - seen
    IN  [t EXCEPT
           !.scrollback = replace_rows(SubSeq(flow.rows, 1, split)),
           !.primary = [rows |-> SubSeq(flow.rows, split + 1, split + seen)
                                   \o BlankRows(more, dims.cols, flow.nextId),
                        row |-> Least(Monus(flow.row, split), dims.rows - 1),
                        col |-> flow.col, visible |-> TRUE, wrap |-> flow.wrap],
           !.nextId = flow.nextId + more]

reflow_primary(t, dims) ==
    split_rows(t, reflow_rows(t.scrollback.rows \o t.primary.rows,
                              Len(t.scrollback.rows) + t.primary.row,
                              t.primary.col, t.primary.wrap, dims.cols, t.nextId),
               dims)

resize_active_primary(t, dims) ==
    reflow_primary(resize_primary_height(t, dims.rows), dims)

resize_while_alternate_active(t, dims) ==
    LET fresh(s) == Monus(dims.rows, Len(s.rows))
        between  == t.nextId + fresh(t.primary)
    IN  [t EXCEPT
           !.primary    = resize_visible(@, dims, t.nextId),
           !.scrollback = scrollback_resize_width(@, dims.cols),
           !.alternate  = resize_visible(@, dims, between),
           !.nextId     = between + fresh(t.alternate)]

resize(t, dims) ==
    LET next == IF t.active = "primary" THEN resize_active_primary(t, dims)
                ELSE resize_while_alternate_active(t, dims)
    IN  IF ~ValidSize(dims) \/ dims = t.dims THEN t
        ELSE [next EXCEPT !.dims = dims, !.damage = 0..dims.rows - 1]

-----------------------------------------------------------------------------
(* One action per TerminalAction that changes the state, resize and        *)
(* render_snapshot.                                                        *)

Step(next) ==
    /\ ~term.panicked
    /\ steps < MaxSteps
    /\ steps' = steps + 1
    /\ term' = next

PrintGlyph == \E glyph \in Glyphs : Step(print(term, glyph)) /\ UNCHANGED shown

Control == \E kind \in Controls :
    Step(apply_control(term, kind)) /\ UNCHANGED shown

Move == \E m \in Moves : Step(apply_move(term, m)) /\ UNCHANGED shown

Erase == \E e \in Erasures : Step(apply_erasure(term, e)) /\ UNCHANGED shown

DecPrivateMode == \E mode \in Modes, enabled \in BOOLEAN :
    Step(apply_dec_private_mode(term, mode, enabled)) /\ UNCHANGED shown

SelectRendition == \E bg \in Backgrounds :
    Step([term EXCEPT !.shade = bg]) /\ UNCHANGED shown

Resize == \E dims \in Sizes : Step(resize(term, dims)) /\ UNCHANGED shown

RenderSnapshot ==
    /\ Step([term EXCEPT !.damage = {}])
    /\ shown' = [dims |-> term.dims, active |-> term.active,
                 rows |-> Active(term).rows]

Next == \/ PrintGlyph \/ Control \/ Move \/ Erase \/ DecPrivateMode
        \/ SelectRendition \/ Resize \/ RenderSnapshot

Spec == Init /\ [][Next]_vars

-----------------------------------------------------------------------------
(* Properties.                                                             *)

History(t) == t.scrollback.rows \o t.primary.rows

ScreenTypeOK(s) ==
    /\ \A i \in DOMAIN s.rows :
         /\ s.rows[i].id \in Nat \ {0} /\ s.rows[i].gen \in Nat
         /\ s.rows[i].wrapped \in BOOLEAN
         /\ \A c \in DOMAIN s.rows[i].cells : s.rows[i].cells[c] \in Cells
    /\ s.row \in Nat /\ s.col \in Nat
    /\ s.visible \in BOOLEAN /\ s.wrap \in BOOLEAN

(* The state has its type: dimensions are valid ones and every cell of     *)
(* both screens and of the damage set is one the code can build.           *)
TypeOK ==
    /\ ScreenTypeOK(term.primary) /\ ScreenTypeOK(term.alternate)
    /\ term.dims \in Sizes /\ ValidSize(term.dims)
    /\ term.active \in {"primary", "alternate"}
    /\ term.damage \subseteq Nat /\ term.nextId \in Nat
    /\ term.shade \in BOOLEAN /\ term.panicked \in BOOLEAN
    /\ term.saved.screen \in {"none", "primary", "alternate"}

(* The primary screen always has exactly the configured rows and columns,  *)
(* whatever mixture of scrolls, reflows and resizes led here, the cursor   *)
(* is on it and a wrap is pending only in the last column; a print that    *)
(* relied on less would index out of the row.                              *)
PrimaryFits ==
    LET s == term.primary IN
    /\ Len(s.rows) = Rows(term)
    /\ \A i \in DOMAIN s.rows : Len(s.rows[i].cells) = Columns(term)
    /\ s.row < Rows(term) /\ s.col < Columns(term)
    /\ s.wrap => s.col = Columns(term) - 1

(* A wide character keeps its lead and its spacer side by side on one row, *)
(* through overwriting, wrapping, scrolling and reflow, as long as nothing *)
(* is erased and the screen has two columns.                               *)
WidePairs ==
    \A i \in DOMAIN History(term) :
      LET cells == History(term)[i].cells IN
      \A c \in DOMAIN cells :
        /\ cells[c].w = 2 => c + 1 \in DOMAIN cells /\ cells[c + 1].w = 0
        /\ cells[c].w = 0 => c - 1 \in DOMAIN cells /\ cells[c - 1].w = 2

(* The characters of the rows, in row-major order.                         *)
Inked(cells) == LET inked(cell) == cell.ink # 0 IN
    [i \in 1..Len(SelectSeq(cells, inked)) |-> SelectSeq(cells, inked)[i].ink]
Text(rows) == FoldLeft(LAMBDA acc, row : acc \o Inked(row.cells), <<>>, rows)

(* What stands before the place where the next character goes.             *)
TextBeforeCursor(t) ==
    LET s     == t.primary
        above == SubSeq(History(t), 1, Len(t.scrollback.rows) + s.row)
        left  == SubSeq(s.rows[s.row + 1].cells, 1,
                        IF s.wrap THEN s.col + 1 ELSE s.col)
    IN  Text(above) \o Inked(left)

PrimaryResized ==
    term.active = "primary" /\ term'.active = "primary" /\ term'.dims # term.dims

(* A resize of the primary screen neither loses nor reorders the text      *)
(* before the cursor, however it moves between scrollback and screen, and  *)
(* leaves the cursor behind it; when a wrap was pending it may leave the   *)
(* cursor on the last character (as a test of lib.rs expects).  Budgets    *)
(* are large.                                                              *)
ResizeKeepsText ==
    [][PrimaryResized =>
         IF term.primary.wrap
         THEN IsPrefix(TextBeforeCursor(term), Text(History(term')))
         ELSE TextBeforeCursor(term') = TextBeforeCursor(term)]_vars

(* The scrollback stays within both budgets and its byte count is that of  *)
(* the rows in it, after every push, pop, reflow and trim.                 *)
ScrollbackBounded ==
    /\ term.scrollback.bytes = RowsBytes(term.scrollback.rows)
    /\ term.scrollback.bytes <= MaxBytes
    /\ Len(term.scrollback.rows) <= MaxLines

RowIds(rows) == {rows[i].id : i \in DOMAIN rows}

(* No two rows of the scrollback and of both screens share an id, and no   *)
(* row has an id still to be given out: a handle never finds another row.  *)
DistinctRows ==
    LET all == History(term) \o term.alternate.rows IN
    /\ Cardinality(RowIds(all)) = Len(all)
    /\ \A id \in RowIds(all) : id < term.nextId

(* What a scrollback handle (id and generation) denotes never changes: a   *)
(* step that alters such a row, a resize above all, alters its generation  *)
(* too.                                                                    *)
StableHistory ==
    [][LET old == term.scrollback.rows
           new == term'.scrollback.rows
       IN  \A i \in DOMAIN old, j \in DOMAIN new :
             old[i].id = new[j].id /\ old[i].gen = new[j].gen => old[i] = new[j]]_vars

(* Whatever a renderer would draw otherwise than at its last snapshot is   *)
(* in the damage set: a changed row, or all of them when the size or the   *)
(* screen changed.  The cursor's own place is not compared.                *)
DamageCovers ==
    shown.active # "none" =>
      \A r \in 0..Rows(term) - 1 :
        r \in term.damage
        \/ /\ shown.dims = term.dims /\ shown.active = term.active
           /\ r + 1 \in DOMAIN shown.rows <=> r + 1 \in DOMAIN Active(term).rows
           /\ r + 1 \in DOMAIN shown.rows => shown.rows[r + 1] = Active(term).rows[r + 1]

(* What happens on the alternate screen, short of a resize, leaves the     *)
(* primary rows, their cursor and the scrollback as they were.             *)
AlternateIsolation ==
    [][/\ term.active = "alternate" /\ term'.active = "alternate"
       /\ term'.dims = term.dims
       => /\ term'.primary = [term.primary EXCEPT !.visible = term'.primary.visible]
          /\ term'.scrollback = term.scrollback]_vars

(* No sequence of bytes and resizes reaches an index out of range.         *)
NeverPanics == ~term.panicked

(* The cursor is shown or hidden on both screens alike.                    *)
CursorVisibilityIsGlobal == term.primary.visible = term.alternate.visible
=============================================================================
