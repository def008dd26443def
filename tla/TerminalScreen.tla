--------------------------- MODULE TerminalScreen ---------------------------
(***************************************************************************)
(* The data of crates/terminal-core/src/state.rs and the functions on it   *)
(* that take no terminal: cells, rows, screens, the bounded scrollback and *)
(* the reflow of the primary screen.                                       *)
(*                                                                         *)
(* A cell keeps its width, its character (`ink`, 0 for a space) and whether *)
(* it has a background; the other attributes and images are left out.      *)
(* Coordinates count from 0 as in the code, so cell (r, c) is              *)
(* rows[r + 1].cells[c + 1].                                               *)
(***************************************************************************)
EXTENDS Integers, SequencesExt

CONSTANTS
    MaxLines, \* ScrollbackConfig.max_lines
    MaxBytes  \* ScrollbackConfig.max_bytes, in RowBytes units

ASSUME ScrollbackAssumption == MaxLines \in Nat /\ MaxBytes \in Nat

Least(a, b)    == IF a < b THEN a ELSE b
Greatest(a, b) == IF a < b THEN b ELSE a
Monus(a, b)    == Greatest(a - b, 0)  \* saturating_sub

-----------------------------------------------------------------------------
(* Cells and rows.                                                         *)

Cell(w, ink, bg) == [w |-> w, ink |-> ink, bg |-> bg]
Cells            == [w : 0..2, ink : Nat, bg : BOOLEAN]
EmptyCell        == Cell(1, 0, FALSE)

(* occupied_cell_count and Row::is_empty.                                  *)
occupied_cell_count(cells) ==
    LET occupied == {i \in DOMAIN cells : cells[i] # EmptyCell}
    IN  IF occupied = {} THEN 0
        ELSE CHOOSE i \in occupied : \A j \in occupied : j <= i

is_empty(row) == ~row.wrapped /\ occupied_cell_count(row.cells) = 0

Resized(cells, columns) ==
    [i \in 1..columns |-> IF i <= Len(cells) THEN cells[i] ELSE EmptyCell]

blank_row(columns, id) ==
    [id |-> id, gen |-> 0, cells |-> Resized(<<>>, columns), wrapped |-> FALSE]

(* n blank rows with the ids from id on.                                   *)
BlankRows(n, columns, id) == [i \in 1..n |-> blank_row(columns, id + i - 1)]

ResizeInPlace(row, columns) ==  \* mutant: the handle keeps its generation
    [row EXCEPT !.cells = Resized(row.cells, columns), !.wrapped = FALSE]

resize_width(row, columns) ==
    [row EXCEPT !.gen = @ + 1,
                !.cells = Resized(row.cells, columns),
                !.wrapped = FALSE]

(* Row::estimated_bytes: a constant and a share per cell.                  *)
RowBytes(row) == 1 + Len(row.cells)
RowsBytes(rows) == FoldLeft(LAMBDA sum, row : sum + RowBytes(row), 0, rows)

-----------------------------------------------------------------------------
(* Screens.                                                                *)

(* Screen::new; it uses the ids from id on.                                *)
NewScreen(dims, id) ==
    [rows |-> BlankRows(dims.rows, dims.cols, id),
     row |-> 0, col |-> 0, visible |-> TRUE, wrap |-> FALSE]

set_cursor(s, r, c) == [s EXCEPT !.row = r, !.col = c]

(* An index expression of the code names a cell that exists.               *)
Has(s, r, c) == r + 1 \in DOMAIN s.rows /\ c + 1 \in DOMAIN s.rows[r + 1].cells
CellAt(s, r, c) == s.rows[r + 1].cells[c + 1]
PutCell(s, r, c, cell) == [s EXCEPT !.rows[r + 1].cells[c + 1] = cell]

(* Screen::resize_visible; blank rows take the ids from id on.             *)
resize_visible(s, dims, id) ==
    LET kept  == Least(Len(s.rows), dims.rows)
        rows  == [i \in 1..kept |-> resize_width(s.rows[i], dims.cols)]
    IN  [s EXCEPT
           !.rows = rows \o BlankRows(dims.rows - kept, dims.cols, id),
           !.row  = Least(@, dims.rows - 1),
           !.col  = Least(@, dims.cols - 1),
           !.wrap = FALSE]

-----------------------------------------------------------------------------
(* Scrollback.                                                             *)

NoScrollback == [rows |-> <<>>, bytes |-> 0]

TrimLinesOnly(sb) ==  \* mutant: the byte budget is forgotten
    LET k == Monus(Len(sb.rows), MaxLines)
    IN  [rows  |-> SubSeq(sb.rows, k + 1, Len(sb.rows)),
         bytes |-> Monus(sb.bytes, RowsBytes(SubSeq(sb.rows, 1, k)))]

(* Drop rows from the front until both budgets are met.                    *)
trim(sb) ==
    LET left(k) == Monus(sb.bytes, RowsBytes(SubSeq(sb.rows, 1, k)))
        n       == Len(sb.rows)
        fits    == {k \in 0..n : n - k <= MaxLines /\ left(k) <= MaxBytes}
        k       == CHOOSE i \in fits : \A j \in fits : i <= j
    IN  [rows |-> SubSeq(sb.rows, k + 1, n), bytes |-> left(k)]

push(sb, row) ==
    IF MaxLines = 0 \/ MaxBytes = 0 THEN sb
    ELSE trim([rows |-> Append(sb.rows, row), bytes |-> sb.bytes + RowBytes(row)])

replace_rows(rows) == trim([rows |-> rows, bytes |-> RowsBytes(rows)])

scrollback_resize_width(sb, columns) ==
    replace_rows([i \in DOMAIN sb.rows |-> resize_width(sb.rows[i], columns)])

(* The last n rows leave the scrollback.                                   *)
pop_back(sb, n) ==
    LET kept == Len(sb.rows) - n
        gone == SubSeq(sb.rows, kept + 1, Len(sb.rows))
    IN  [rows  |-> SubSeq(sb.rows, 1, kept),
         bytes |-> Monus(sb.bytes, RowsBytes(gone))]

-----------------------------------------------------------------------------
(* Reflow.  A logical line joins the rows that wrapped into one another;   *)
(* `cursor` is the cursor's offset in it, or -1.                           *)

NoLine == [cells |-> <<>>, handles |-> <<>>, cursor |-> -1, pending |-> FALSE]

(* logical_lines: how much of a row belongs to the line `cur`.             *)
SegmentLength(row, cur, columns, extent) ==
    LET n         == Len(row.cells)
        preserved == IF cur.cells = <<>> THEN Least(n, columns) ELSE 0
    IN  IF row.wrapped THEN n
        ELSE Least(n, Greatest(occupied_cell_count(row.cells),
                               Greatest(preserved, extent)))

logical_lines(rows, cursorRow, cursorColumn, pending, columns) ==
    LET step(acc, i) ==
          LET row  == rows[i]
              n    == Len(row.cells)
              cur  == acc.cur
              here == i - 1 = cursorRow
              extent == IF ~here THEN 0
                        ELSE IF pending THEN n ELSE Least(cursorColumn, n)
              offset == Len(cur.cells) +
                          (IF pending THEN Monus(n, 1) ELSE Least(cursorColumn, n))
              line == [cells   |-> cur.cells \o SubSeq(row.cells, 1,
                                     SegmentLength(row, cur, columns, extent)),
                       handles |-> Append(cur.handles, [id |-> row.id, gen |-> row.gen]),
                       cursor  |-> IF here THEN offset ELSE cur.cursor,
                       pending |-> IF here THEN pending ELSE cur.pending]
          IN  IF row.wrapped THEN [acc EXCEPT !.cur = line]
              ELSE [lines |-> Append(acc.lines, line), cur |-> NoLine]
        all == FoldLeft(step, [lines |-> <<>>, cur |-> NoLine],
                        [i \in DOMAIN rows |-> i])
    IN  IF all.cur.handles = <<>> THEN all.lines
        ELSE Append(all.lines, all.cur)

NoBoundarySpacers(line, columns) == line  \* mutant

(* A wide cell that would start in the last column is pushed past it.      *)
with_wide_boundary_spacers(line, columns) ==
    LET step(acc, i) ==
          LET cell   == line.cells[i]
              cursor == IF line.cursor = i - 1 THEN Len(acc.cells) ELSE acc.cursor
              spacer == IF cell.w > 1 /\ Len(acc.cells) % columns = columns - 1
                        THEN <<EmptyCell>> ELSE <<>>
          IN  [cells |-> acc.cells \o spacer \o <<cell>>, cursor |-> cursor]
        all == FoldLeft(step, [cells |-> <<>>, cursor |-> -1],
                        [i \in DOMAIN line.cells |-> i])
    IN  [line EXCEPT
           !.cells  = all.cells,
           !.cursor = IF @ = Len(line.cells) THEN Len(all.cells) ELSE all.cursor]

(* visual_rows: the line's handles go to its rows in order, one generation *)
(* on; further rows take the ids from id on.                               *)
VisualCount(line, columns) ==
    (Greatest(Len(line.cells), 1) + columns - 1) \div columns

visual_rows(line, columns, id) ==
    LET n == Len(line.cells)
        h == Len(line.handles)
    IN  [i \in 1..VisualCount(line, columns) |->
          [id      |-> IF i <= h THEN line.handles[i].id ELSE id + (i - h) - 1,
           gen     |-> IF i <= h THEN line.handles[i].gen + 1 ELSE 0,
           cells   |-> Resized(SubSeq(line.cells, (i - 1) * columns + 1,
                                      Least(i * columns, n)), columns),
           wrapped |-> i * columns < n]]

\* mutant: a pending wrap stays pending wherever the cursor lands
PlacementKeepsWrap(offset, len, columns, pending) ==
    [row |-> offset \div columns, col |-> offset % columns, wrap |-> pending]

cursor_placement(offset, len, columns, pending) ==
    IF pending
    THEN [row |-> offset \div columns, col |-> offset % columns,
          wrap |-> offset % columns = columns - 1]
    ELSE IF len > 0 /\ offset >= len /\ len % columns = 0
    THEN [row |-> len \div columns - 1, col |-> columns - 1, wrap |-> TRUE]
    ELSE [row |-> offset \div columns, col |-> offset % columns, wrap |-> FALSE]

(* One logical line more of the reflow.                                    *)
reflow_line(acc, line, columns) ==
    LET place == cursor_placement(line.cursor, Len(line.cells), columns,
                                  line.pending)
        fresh == Monus(VisualCount(line, columns), Len(line.handles))
        out   == [acc EXCEPT
                    !.rows = @ \o visual_rows(line, columns, acc.nextId),
                    !.nextId = @ + fresh]
    IN  IF line.cursor = -1 THEN out
        ELSE [out EXCEPT !.row = Len(acc.rows) + place.row,
                         !.col = place.col, !.wrap = place.wrap]

reflow_rows(rows, cursorRow, cursorColumn, pending, columns, id) ==
    LET step(acc, line) ==
          reflow_line(acc, with_wide_boundary_spacers(line, columns), columns)
    IN  FoldLeft(step, [rows |-> <<>>, nextId |-> id,
                        row |-> 0, col |-> 0, wrap |-> FALSE],
                 logical_lines(rows, cursorRow, cursorColumn, pending, columns))
=============================================================================
