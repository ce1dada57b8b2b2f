------------------------------- MODULE Screen ------------------------------
(***************************************************************************)
(* The text terminal of src/kernel/drivers/vga.c for one caller at a time: *)
(* terminal_putchar as an operator on the cursor and the cells of video    *)
(* memory.  Colours and the hardware cursor are left out, and so is        *)
(* fbterm, whose stub is never active.  Terminal adds the second caller.   *)
(* Operators named ..._bug are seeded faults for the mutation runs.        *)
(***************************************************************************)
EXTENDS Loops

CONSTANTS
  VGA_WIDTH, VGA_HEIGHT,
  TabStop         \* 8

ASSUME ScreenAssumption ==
  /\ VGA_WIDTH \in Nat \ {0} /\ VGA_HEIGHT \in Nat \ {0}
  /\ TabStop \in Nat \ {0}

Rows    == 0 .. VGA_HEIGHT - 1
Columns == 0 .. VGA_WIDTH - 1

terminal_init ==
  [row |-> 0, col |-> 0, cells |-> [at \in Rows \X Columns |-> " "]]

vga_scroll_bug(t) ==
  [row |-> VGA_HEIGHT - 1, col |-> t.col,
   cells |-> [at \in Rows \X Columns |->
                IF at[1] = VGA_HEIGHT - 1 THEN t.cells[at]
                ELSE t.cells[<<at[1] + 1, at[2]>>]]]

\* Every line moves up and the last one is blanked.
vga_scroll(t) ==
  [row |-> VGA_HEIGHT - 1, col |-> t.col,
   cells |-> [at \in Rows \X Columns |->
                IF at[1] = VGA_HEIGHT - 1 THEN " "
                ELSE t.cells[<<at[1] + 1, at[2]>>]]]

MoveTo(t, row, col) == [row |-> row, col |-> col, cells |-> t.cells]

\* col = 0; if (++row == VGA_HEIGHT) vga_scroll();
NewLine(t) ==
  LET down == MoveTo(t, t.row + 1, 0)
  IN  IF down.row = VGA_HEIGHT THEN vga_scroll(down) ELSE down

NextTab(col) == (col + TabStop) - ((col + TabStop) % TabStop)

PutCell(t, col, c) ==
  [row |-> t.row, col |-> col, cells |-> [t.cells EXCEPT ![<<t.row, col>>] = c]]

Printed(t, c) ==
  LET next == MoveTo(PutCell(t, t.col, c), t.row, t.col + 1)
  IN  IF next.col = VGA_WIDTH THEN NewLine(next) ELSE next

terminal_putchar(t, c) ==
  CASE c = "NL"  -> NewLine(t)
    [] c = "CR"  -> MoveTo(t, t.row, 0)
    [] c = "TAB" -> IF NextTab(t.col) >= VGA_WIDTH THEN NewLine(t)
                    ELSE MoveTo(t, t.row, NextTab(t.col))
    [] c = "BS"  -> IF t.col > 0 THEN PutCell(t, t.col - 1, " ") ELSE t
    [] OTHER    -> Printed(t, c)

terminal_write(t, s) == FoldLeft(terminal_putchar, t, s)
-----------------------------------------------------------------------------
(***************************************************************************)
(* The reference: the page is what the text leaves on paper of any length, *)
(* as the cells written, and the screen is a window on its last lines.     *)
(***************************************************************************)
Blank == [line |-> 0, col |-> 0, ink |-> [at \in {} |-> " "]]

Ink(page, col, c) ==
  [at \in DOMAIN page.ink \cup {<<page.line, col>>} |->
     IF at = <<page.line, col>> THEN c ELSE page.ink[at]]

Typed(page, c) ==
  LET col == CASE c = "TAB" -> NextTab(page.col)
               [] c \in {"NL", "CR"} -> 0
               [] c = "BS" -> IF page.col > 0 THEN page.col - 1 ELSE 0
               [] OTHER -> page.col + 1
      wraps == c = "NL" \/ col >= VGA_WIDTH
  IN  [line |-> IF wraps THEN page.line + 1 ELSE page.line,
       col  |-> IF wraps THEN 0 ELSE col,
       ink  |-> CASE c \in {"NL", "CR", "TAB"} -> page.ink
                  [] c = "BS" -> IF page.col > 0 THEN Ink(page, col, " ") ELSE page.ink
                  [] OTHER -> Ink(page, page.col, c)]

\* The first line of the page that is still on the screen.
Top(page) == IF page.line < VGA_HEIGHT THEN 0 ELSE page.line - (VGA_HEIGHT - 1)

\* The terminal that shows a page, blank where nothing was typed.
Window(page) ==
  [row |-> page.line - Top(page), col |-> page.col,
   cells |-> [at \in Rows \X Columns |->
                LET on == <<at[1] + Top(page), at[2]>>
                IN  IF on \in DOMAIN page.ink THEN page.ink[on] ELSE " "]]
=============================================================================
