------------------------------ MODULE Console ------------------------------
(***************************************************************************)
(* The text console of kernel/console.c: the scrollback, the cursor and    *)
(* what the framebuffer shows of it.  The operators take and return the    *)
(* whole console, so that console_write is a loop.  A character is a model *)
(* value or NL, BS; Other stands for the control characters that are       *)
(* ignored, Blank for the space.  Colours are left out.                    *)
(***************************************************************************)
EXTENDS Integers, Sequences

CONSTANTS
    COLS, ROWS,     \* CONSOLE_COLS, CONSOLE_ROWS
    SCROLLBACK,     \* rows kept
    Blank, NL, BS, Other

ASSUME ConsoleAssumption ==
    /\ COLS \in Nat \ {0} /\ ROWS \in Nat \ {0}
    /\ SCROLLBACK \in Nat /\ SCROLLBACK > ROWS
    /\ NL # BS /\ NL # Other /\ BS # Other /\ Blank \notin {NL, BS, Other}

Rows == 0 .. SCROLLBACK - 1
Cols == 0 .. COLS - 1
BlankRow == [c \in Cols |-> Blank]

(* What the framebuffer shows: a row of cells for each row of the screen.  *)
vesa_fill_screen == [r \in 0 .. ROWS - 1 |-> BlankRow]

(* A cell is painted over with the background and the glyph, if ch has one.*)
vesa_draw_cell(ch) == IF ch \in {NL, BS, Other} THEN Blank ELSE ch

(* console_clear.                                                          *)
Cleared ==
    [text |-> [r \in Rows |-> BlankRow], row |-> 0, col |-> 0,
     screen |-> vesa_fill_screen]

console_init == Cleared

(* scrollback[row][col] = c: column COLS is the first of the next row.     *)
Store(con, c) ==
    IF con.col < COLS THEN [con EXCEPT !.text[con.row][con.col] = c]
    ELSE [con EXCEPT !.text[con.row + 1][0] = c]

DrawnRow(con, r) == [c \in Cols |-> vesa_draw_cell(con.text[r][c])]

render_row(con) == [con EXCEPT !.screen[con.row] = DrawnRow(con, con.row)]

render_all(con) == [con EXCEPT !.screen = [r \in DOMAIN con.screen |-> DrawnRow(con, r)]]

(* All rows move up, the ones below the screen too.                        *)
ScrolledUp(text) ==
    [r \in Rows |-> IF r = SCROLLBACK - 1 THEN BlankRow ELSE text[r + 1]]

newline(con) ==
    IF con.row + 1 < ROWS THEN [con EXCEPT !.row = @ + 1, !.col = 0]
    ELSE [con EXCEPT !.col = 0, !.text = ScrolledUp(con.text)]

(* Mutant: a backspace moves the cursor and leaves the character.          *)
BackspaceOnly(con) == IF con.col = 0 THEN con ELSE [con EXCEPT !.col = @ - 1]

(* A backspace stays in its row.                                           *)
Backspace(con) ==
    IF con.col = 0 THEN con
    ELSE render_row(Store([con EXCEPT !.col = @ - 1], Blank))

(* The row is ended when the next character comes, not when it is full; a  *)
(* screen that scrolls then is only drawn again in the row of the cursor.  *)
Printed(con, c) ==
    LET at == IF con.col >= COLS THEN newline(con) ELSE con
        put == render_row(Store(at, c))
    IN  [put EXCEPT !.col = @ + 1]

console_putchar(con, c) ==
    CASE c = NL     -> render_all(newline(Store(con, Blank)))
      [] c = BS     -> Backspace(con)
      [] c = Other  -> con
      [] OTHER      -> Printed(con, c)

console_write(con, s) ==
    LET after[k \in 0 .. Len(s)] == IF k = 0 THEN con ELSE console_putchar(after[k - 1], s[k])
    IN  after[Len(s)]

(* console_printf, of a format cut into its characters and conversions: a  *)
(* piece has the characters it puts into buf.  A conversion that fills buf *)
(* up to FORMAT_MAX ends the loop, and what is left of the format is lost. *)
(* That test is the only one: the code copies a %s and plain characters    *)
(* without looking at the end of buf[256], and the model, which has no such*)
(* end, says what it does for callers whose pieces fit.  Those here do.    *)
FORMAT_MAX == 250
Plain(s) == [converts |-> FALSE, chars |-> s]
Converted(s) == [converts |-> TRUE, chars |-> s]

Formatted(pieces) ==
    LET buf[k \in 0 .. Len(pieces)] ==
            IF k = 0 THEN [chars |-> <<>>, ended |-> FALSE]
            ELSE IF buf[k - 1].ended THEN buf[k - 1]
            ELSE LET chars == buf[k - 1].chars \o pieces[k].chars
                 IN  [chars |-> chars,
                      ended |-> pieces[k].converts /\ Len(chars) >= FORMAT_MAX]
    IN  buf[Len(pieces)].chars

console_printf(con, pieces) == console_write(con, Formatted(pieces))

=============================================================================
