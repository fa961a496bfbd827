---------------------------- MODULE ShellProofs ----------------------------
(***************************************************************************)
(* The console and the shell for every size of the screen, of the          *)
(* scrollback and of the command line, and for every set of programs.      *)
(***************************************************************************)
EXTENDS Shell, SequenceTheorems, NaturalsInduction, WellFoundedInduction, TLAPS

-----------------------------------------------------------------------------
(* The console                                                             *)

Chars   == Letter \union {Blank, NL, BS, Other, Prompt, Text}
Glyph   == Chars \ {NL, BS, Other}
Screen  == 0 .. ROWS - 1
ConSet  == [text : [Rows -> [Cols -> Chars]], row : Screen, col : 0 .. COLS,
            screen : [Screen -> [Cols -> Chars \union {Dirt}]]]

(* Everything behind the cursor is blank.                                  *)
Clean(k) ==
    \A r \in Rows, c \in Cols :
      r > k.row \/ (r = k.row /\ c >= k.col) => k.text[r][c] = Blank

Good(k) == k \in ConSet /\ Clean(k)

(* The row of the cursor is on the screen as it is in the scrollback.      *)
Shown(k) == k.screen[k.row] = DrawnRow(k, k.row)

LEMMA Sizes ==
    /\ COLS \in Nat /\ COLS > 0 /\ ROWS \in Nat /\ ROWS > 0
    /\ SCROLLBACK \in Nat /\ SCROLLBACK > ROWS
    /\ Rows = 0 .. SCROLLBACK - 1 /\ Cols = 0 .. COLS - 1 /\ Screen = 0 .. ROWS - 1
    /\ \A r \in Screen : r \in Rows /\ r + 1 \in Rows
    /\ 0 \in Cols /\ Blank \in Chars
    /\ \A ch \in Chars : vesa_draw_cell(ch) \in Chars
BY ConsoleAssumption DEF Rows, Cols, Screen, Chars, vesa_draw_cell

LEMMA Fields ==
    ASSUME NEW k \in ConSet
    PROVE  /\ k.text \in [Rows -> [Cols -> Chars]] /\ k.row \in Screen /\ k.col \in 0 .. COLS
           /\ k.screen \in [Screen -> [Cols -> Chars \union {Dirt}]]
BY DEF ConSet

LEMMA RowDrawn ==
    ASSUME NEW k, k.text \in [Rows -> [Cols -> Chars]], NEW r \in Screen
    PROVE  DrawnRow(k, r) \in [Cols -> Chars \union {Dirt}]
BY Sizes DEF DrawnRow

LEMMA ClearedGood == Good(Cleared)
<1>1. BlankRow \in [Cols -> Chars]
  BY Sizes DEF BlankRow
<1>2. vesa_fill_screen \in [Screen -> [Cols -> Chars \union {Dirt}]]
  BY <1>1 DEF vesa_fill_screen, Screen
<1>3. Cleared \in ConSet
  BY <1>1, <1>2, Sizes DEF Cleared, ConSet
<1>4. Clean(Cleared)
  BY DEF Clean, Cleared, BlankRow
<1> QED
  BY <1>3, <1>4 DEF Good

(* A row is drawn.                                                         *)
LEMMA RowRendered ==
    ASSUME NEW k \in ConSet
    PROVE  /\ render_row(k) \in ConSet /\ Shown(render_row(k))
           /\ render_row(k).text = k.text /\ render_row(k).row = k.row
           /\ render_row(k).col = k.col
<1>1. /\ k.text \in [Rows -> [Cols -> Chars]] /\ k.row \in Screen
      /\ k.screen \in [Screen -> [Cols -> Chars \union {Dirt}]]
  BY Fields
<1> PICK d : d = DrawnRow(k, k.row)
  OBVIOUS
<1>2. d \in [Cols -> Chars \union {Dirt}]
  BY <1>1, RowDrawn
<1> PICK j : j = [k EXCEPT !.screen[k.row] = d]
  OBVIOUS
<1>3. j = render_row(k)
  BY DEF render_row
<1>4. j.text = k.text /\ j.row = k.row /\ j.col = k.col /\ j.screen = [k.screen EXCEPT ![k.row] = d]
  BY DEF ConSet
<1>5. j \in ConSet
  BY <1>1, <1>2 DEF ConSet
<1>6. Shown(j)
  BY <1>1, <1>4 DEF Shown, DrawnRow
<1> QED
  BY <1>3, <1>4, <1>5, <1>6

LEMMA AllRendered ==
    ASSUME NEW k \in ConSet
    PROVE  /\ render_all(k) \in ConSet
           /\ render_all(k).text = k.text /\ render_all(k).row = k.row
           /\ render_all(k).col = k.col
<1>1. /\ k.text \in [Rows -> [Cols -> Chars]]
      /\ k.screen \in [Screen -> [Cols -> Chars \union {Dirt}]]
  BY Fields
<1> PICK d : d = [r \in DOMAIN k.screen |-> DrawnRow(k, r)]
  OBVIOUS
<1>2. d \in [Screen -> [Cols -> Chars \union {Dirt}]]
  BY <1>1, RowDrawn
<1> PICK j : j = [k EXCEPT !.screen = d]
  OBVIOUS
<1>3. j = render_all(k)
  BY DEF render_all
<1>4. j.text = k.text /\ j.row = k.row /\ j.col = k.col /\ j \in ConSet
  BY <1>2 DEF ConSet
<1> QED
  BY <1>3, <1>4

(* A character is stored in the row of the cursor ...                      *)
LEMMA Stored ==
    ASSUME NEW k \in ConSet, k.col < COLS, NEW ch \in Chars, NEW j, j = Store(k, ch)
    PROVE  /\ j \in ConSet /\ j.row = k.row /\ j.col = k.col /\ j.screen = k.screen
           /\ j.text[k.row][k.col] = ch
           /\ \A r \in Rows, c \in Cols : r # k.row \/ c # k.col => j.text[r][c] = k.text[r][c]
<1>1. /\ k.text \in [Rows -> [Cols -> Chars]] /\ k.row \in Rows /\ k.col \in Cols
  BY Fields, Sizes
<1>2. j = [k EXCEPT !.text[k.row][k.col] = ch]
  BY DEF Store
<1>3. j.text = [k.text EXCEPT ![k.row][k.col] = ch] /\ j.row = k.row /\ j.col = k.col /\ j.screen = k.screen
  BY <1>2 DEF ConSet
<1>4. j.text \in [Rows -> [Cols -> Chars]]
  BY <1>1, <1>3
<1>5. j \in ConSet
  BY <1>2, <1>4 DEF ConSet
<1>6. j.text[k.row][k.col] = ch
  BY <1>1, <1>3
<1>7. \A r \in Rows, c \in Cols : r # k.row \/ c # k.col => j.text[r][c] = k.text[r][c]
  BY <1>1, <1>3
<1> QED
  BY <1>3, <1>5, <1>6, <1>7

(* ... and a blank behind its end changes nothing that is visible.         *)
LEMMA BlankStored ==
    ASSUME NEW k, Good(k), NEW j, j = Store(k, Blank)
    PROVE  Good(j) /\ j.row = k.row /\ j.col = k.col
<1>0. k \in ConSet /\ Clean(k) /\ Blank \in Chars
  BY Sizes DEF Good
<1>1. CASE k.col < COLS
  <2>1. /\ j \in ConSet /\ j.row = k.row /\ j.col = k.col
        /\ j.text[k.row][k.col] = Blank
        /\ \A r \in Rows, c \in Cols : r # k.row \/ c # k.col => j.text[r][c] = k.text[r][c]
    BY <1>0, <1>1, Stored
  <2>2. Clean(j)
    BY <1>0, <2>1 DEF Clean
  <2> QED
    BY <2>1, <2>2 DEF Good
<1>2. CASE ~ (k.col < COLS)
  <2>1. /\ k.text \in [Rows -> [Cols -> Chars]] /\ k.row \in Rows /\ k.row + 1 \in Rows /\ 0 \in Cols
    BY <1>0, Fields, Sizes
  <2>2. j = [k EXCEPT !.text[k.row + 1][0] = Blank]
    BY <1>2 DEF Store
  <2>3. j.text = [k.text EXCEPT ![k.row + 1][0] = Blank] /\ j.row = k.row /\ j.col = k.col
    BY <1>0, <2>2 DEF ConSet
  <2>4. j.text \in [Rows -> [Cols -> Chars]]
    BY <1>0, <2>1, <2>3
  <2>5. j \in ConSet
    BY <1>0, <2>2, <2>4 DEF ConSet
  <2>6. \A r \in Rows, c \in Cols : j.text[r][c] = IF r = k.row + 1 /\ c = 0 THEN Blank ELSE k.text[r][c]
    BY <2>1, <2>3
  <2>7. Clean(j)
    BY <1>0, <2>3, <2>6 DEF Clean
  <2> QED
    BY <2>3, <2>5, <2>7 DEF Good
<1> QED
  BY <1>1, <1>2

LEMMA NewlineGood ==
    ASSUME NEW k, Good(k), NEW j, j = newline(k)
    PROVE  Good(j) /\ j.col = 0
<1>0. k \in ConSet /\ Clean(k)
  BY DEF Good
<1>1. /\ k.text \in [Rows -> [Cols -> Chars]] /\ k.row \in Screen /\ k.col \in 0 .. COLS
  BY <1>0, Fields
<1>2. CASE k.row + 1 < ROWS
  <2>1. j = [k EXCEPT !.row = k.row + 1, !.col = 0]
    BY <1>2 DEF newline
  <2>2. j.text = k.text /\ j.row = k.row + 1 /\ j.col = 0
    BY <1>0, <2>1 DEF ConSet
  <2>3. k.row + 1 \in Screen /\ 0 \in 0 .. COLS
    BY <1>1, <1>2, Sizes
  <2>4. j \in ConSet
    BY <1>0, <2>1, <2>3 DEF ConSet
  <2>5. Clean(j)
    BY <1>0, <1>1, <2>2, Sizes DEF Clean
  <2> QED
    BY <2>2, <2>4, <2>5 DEF Good
<1>3. CASE ~ (k.row + 1 < ROWS)
  <2> PICK up : up = ScrolledUp(k.text)
    OBVIOUS
  <2>1. j = [k EXCEPT !.col = 0, !.text = up]
    BY <1>3 DEF newline
  <2>2. j.text = up /\ j.row = k.row /\ j.col = 0
    BY <1>0, <2>1 DEF ConSet
  <2>3. BlankRow \in [Cols -> Chars] /\ \A c \in Cols : BlankRow[c] = Blank
    BY Sizes DEF BlankRow
  <2>4. up = [r \in Rows |-> IF r = SCROLLBACK - 1 THEN BlankRow ELSE k.text[r + 1]]
    BY DEF ScrolledUp
  <2>5. \A r \in Rows : r # SCROLLBACK - 1 => r + 1 \in Rows
    BY Sizes
  <2>6. up \in [Rows -> [Cols -> Chars]]
    BY <1>1, <2>3, <2>4, <2>5
  <2>6a. 0 \in 0 .. COLS
    BY Sizes
  <2>7. j \in ConSet
    BY <1>0, <2>1, <2>6, <2>6a DEF ConSet
  <2>8. ASSUME NEW r \in Rows, NEW c \in Cols, r >= k.row PROVE up[r][c] = Blank
    <3>1. CASE r = SCROLLBACK - 1
      BY <2>3, <2>4, <3>1
    <3>2. CASE r # SCROLLBACK - 1
      <4>1. up[r][c] = k.text[r + 1][c] /\ r + 1 \in Rows /\ r + 1 > k.row
        BY <1>1, <2>4, <2>5, <2>8, <3>2, Sizes
      <4> QED
        BY <1>0, <4>1 DEF Clean
    <3> QED
      BY <3>1, <3>2
  <2>9. Clean(j)
    BY <1>1, <2>2, <2>8, Sizes DEF Clean
  <2> QED
    BY <2>2, <2>7, <2>9 DEF Good
<1> QED
  BY <1>2, <1>3

(* Backspace: the character before the cursor is gone, in both places.     *)
LEMMA Backspaced ==
    ASSUME NEW k, Good(k), k.col > 0, NEW j, j = Backspace(k)
    PROVE  /\ Good(j) /\ Shown(j) /\ j.row = k.row /\ j.col = k.col - 1
           /\ j.text[k.row][k.col - 1] = Blank
           /\ \A r \in Rows, c \in Cols : r # k.row \/ c # k.col - 1 => j.text[r][c] = k.text[r][c]
<1>0. k \in ConSet /\ Clean(k) /\ Blank \in Chars
  BY Sizes DEF Good
<1>1. /\ k.row \in Screen /\ k.col \in 0 .. COLS
  BY <1>0, Fields
<1>2. k.col # 0 /\ k.col - 1 \in 0 .. COLS /\ k.col - 1 < COLS
  BY <1>1, Sizes
<1>b. PICK b : b = [k EXCEPT !.col = k.col - 1]
  OBVIOUS
<1>3. b \in ConSet /\ b.row = k.row /\ b.col = k.col - 1 /\ b.text = k.text
  BY <1>0, <1>2, <1>b DEF ConSet
<1> PICK w : w = Store(b, Blank)
  OBVIOUS
<1>4. /\ w \in ConSet /\ w.row = k.row /\ w.col = k.col - 1
      /\ w.text[k.row][k.col - 1] = Blank
      /\ \A r \in Rows, c \in Cols : r # k.row \/ c # k.col - 1 => w.text[r][c] = k.text[r][c]
  <2>1. b.col < COLS
    BY <1>2, <1>3
  <2>2. /\ w \in ConSet /\ w.row = b.row /\ w.col = b.col
        /\ w.text[b.row][b.col] = Blank
        /\ \A r \in Rows, c \in Cols : r # b.row \/ c # b.col => w.text[r][c] = b.text[r][c]
    BY <1>0, <1>3, <2>1, Stored
  <2> QED
    BY <1>3, <2>2
<1>5. j = render_row(w)
  BY <1>2, <1>b DEF Backspace
<1>6. /\ j \in ConSet /\ Shown(j) /\ j.text = w.text /\ j.row = k.row /\ j.col = k.col - 1
  BY <1>4, <1>5, RowRendered
<1>7. ASSUME NEW r \in Rows, NEW c \in Cols, r > k.row \/ (r = k.row /\ c >= k.col - 1)
      PROVE  w.text[r][c] = Blank
  <2>1. CASE r = k.row /\ c = k.col - 1
    BY <1>4, <2>1
  <2>2. CASE r # k.row \/ c # k.col - 1
    <3>1. r \in Nat /\ c \in Nat /\ k.row \in Nat /\ k.col \in Nat
      BY <1>1, Sizes
    <3>2. r > k.row \/ (r = k.row /\ c >= k.col)
      BY ONLY <1>7, <2>2, <3>1
    <3> QED
      BY <1>0, <1>4, <2>2, <3>2 DEF Clean
  <2> QED
    BY <2>1, <2>2
<1>8. Clean(j)
  BY <1>6, <1>7 DEF Clean
<1> QED
  BY <1>4, <1>6, <1>8 DEF Good

(* A character that has a glyph is printed where the cursor is ...         *)
LEMMA PrintedHere ==
    ASSUME NEW k, Good(k), k.col < COLS, NEW ch \in Chars, NEW j, j = Printed(k, ch)
    PROVE  /\ Good(j) /\ Shown(j) /\ j.row = k.row /\ j.col = k.col + 1
           /\ j.text[k.row][k.col] = ch
           /\ \A r \in Rows, c \in Cols : r # k.row \/ c # k.col => j.text[r][c] = k.text[r][c]
<1>0. k \in ConSet /\ Clean(k)
  BY DEF Good
<1>1. /\ k.row \in Screen /\ k.col \in 0 .. COLS
  BY <1>0, Fields
<1>2. ~ (k.col >= COLS) /\ k.col + 1 \in 0 .. COLS
  BY <1>1, Sizes
<1> PICK w : w = Store(k, ch)
  OBVIOUS
<1>3. /\ w \in ConSet /\ w.row = k.row /\ w.col = k.col
      /\ w.text[k.row][k.col] = ch
      /\ \A r \in Rows, c \in Cols : r # k.row \/ c # k.col => w.text[r][c] = k.text[r][c]
  BY <1>0, Stored
<1> PICK d : d = render_row(w)
  OBVIOUS
<1>4. /\ d \in ConSet /\ Shown(d) /\ d.text = w.text /\ d.row = k.row /\ d.col = k.col
  BY <1>3, RowRendered
<1>5. j = [d EXCEPT !.col = d.col + 1]
  BY <1>2 DEF Printed
<1>6. j.row = d.row /\ j.col = k.col + 1 /\ j.text = d.text /\ j.screen = d.screen
  BY <1>4, <1>5 DEF ConSet
<1>7. j \in ConSet
  BY <1>2, <1>4, <1>5 DEF ConSet
<1>8. Shown(j)
  BY <1>4, <1>6 DEF Shown, DrawnRow
<1>9. Clean(j)
  <2>1. ASSUME NEW r \in Rows, NEW c \in Cols, r > k.row \/ (r = k.row /\ c >= k.col + 1)
        PROVE  w.text[r][c] = Blank
    <3>1. r \in Nat /\ c \in Nat /\ k.row \in Nat /\ k.col \in Nat
      BY <1>1, Sizes
    <3>2. (r # k.row \/ c # k.col) /\ (r > k.row \/ (r = k.row /\ c >= k.col))
      BY ONLY <2>1, <3>1
    <3> QED
      BY <1>0, <1>3, <3>2 DEF Clean
  <2> QED
    BY <1>4, <1>6, <2>1 DEF Clean
<1> QED
  BY <1>3, <1>4, <1>6, <1>7, <1>8, <1>9 DEF Good

(* ... and on a new row if this one is full.                               *)
LEMMA PrintedGood ==
    ASSUME NEW k, Good(k), NEW ch \in Chars, NEW j, j = Printed(k, ch)
    PROVE  Good(j) /\ Shown(j) /\ j.col >= 1 /\ j.text[j.row][j.col - 1] = ch
<1>0. k.col \in 0 .. COLS /\ k.row \in Screen
  BY Fields DEF Good
<1>1. CASE k.col < COLS
  <2>1. Good(j) /\ Shown(j) /\ j.row = k.row /\ j.col = k.col + 1 /\ j.text[k.row][k.col] = ch
    BY <1>1, PrintedHere
  <2>2. j.col >= 1 /\ j.col - 1 = k.col
    BY <1>0, <2>1
  <2> QED
    BY <2>1, <2>2
<1>2. CASE ~ (k.col < COLS)
  <2> PICK n : n = newline(k)
    OBVIOUS
  <2>1. Good(n) /\ n.col = 0
    BY NewlineGood
  <2>2. n.col < COLS /\ ~ (n.col >= COLS) /\ k.col >= COLS
    BY <1>0, <1>2, <2>1, Sizes
  <2>3. j = Printed(n, ch)
    BY <2>2 DEF Printed
  <2>4. Good(j) /\ Shown(j) /\ j.row = n.row /\ j.col = n.col + 1 /\ j.text[n.row][n.col] = ch
    BY <2>1, <2>2, <2>3, PrintedHere
  <2>5. j.col >= 1 /\ j.col - 1 = n.col
    BY <2>1, <2>4
  <2> QED
    BY <2>4, <2>5
<1> QED
  BY <1>1, <1>2

LEMMA PutcharGood ==
    ASSUME NEW k, Good(k), NEW ch \in Chars
    PROVE  Good(console_putchar(k, ch))
<1>1. CASE ch = NL
  <2> PICK b : b = Store(k, Blank)
    OBVIOUS
  <2>1. Good(b)
    BY BlankStored
  <2> PICK n : n = newline(b)
    OBVIOUS
  <2>2. Good(n)
    BY <2>1, NewlineGood
  <2> PICK d : d = render_all(n)
    OBVIOUS
  <2>3. d \in ConSet /\ d.text = n.text /\ d.row = n.row /\ d.col = n.col
    BY <2>2, AllRendered DEF Good
  <2>4. Good(d)
    BY <2>2, <2>3 DEF Good, Clean
  <2>5. console_putchar(k, ch) = d
    BY <1>1, ConsoleAssumption DEF console_putchar
  <2> QED
    BY <2>4, <2>5
<1>2. CASE ch = BS
  <2>1. console_putchar(k, ch) = Backspace(k)
    BY <1>2, ConsoleAssumption DEF console_putchar
  <2>2. CASE k.col = 0
    BY <2>1, <2>2 DEF Backspace
  <2>3. CASE k.col # 0
    <3>1. k.col > 0
      BY <2>3, Fields, Sizes DEF Good
    <3> QED
      BY <2>1, <3>1, Backspaced
  <2> QED
    BY <2>2, <2>3
<1>3. CASE ch = Other
  BY <1>3, ConsoleAssumption DEF console_putchar
<1>4. CASE ch \notin {NL, BS, Other}
  <2>1. console_putchar(k, ch) = Printed(k, ch)
    BY <1>4 DEF console_putchar
  <2> QED
    BY <2>1, PrintedGood
<1> QED
  BY <1>1, <1>2, <1>3, <1>4

LEMMA LeastOf ==
    ASSUME NEW T, T \subseteq Nat, T # {}
    PROVE  \E m \in T : \A n \in T : m <= n
<1>1. PICK m \in T : \A n \in T : ~ (<<n, m>> \in OpToRel(<, Nat))
  BY NatLessThanWellFounded, WFMin
<1>2. ASSUME NEW n \in T PROVE m <= n
  <2>1. n \in Nat /\ m \in Nat /\ ~ (<<n, m>> \in {ss \in Nat \X Nat : ss[1] < ss[2]})
    BY <1>1 DEF OpToRel
  <2> QED
    BY <2>1
<1> QED
  BY <1>2

(* The loop of console_write, up to its character n.                       *)
Wrote(k, s, g, n) ==
    g = [i \in 0 .. n |-> IF i = 0 THEN k ELSE console_putchar(g[i - 1], s[i])]

LEMMA WroteExists ==
    ASSUME NEW k, NEW s
    PROVE  \A n \in Nat : \E g : Wrote(k, s, g, n)
<1> DEFINE Bad == {n \in Nat : ~ \E g : Wrote(k, s, g, n)}
<1> SUFFICES ASSUME Bad # {} PROVE FALSE
  OBVIOUS
<1>1. PICK m \in Bad : \A y \in Bad : m <= y
  BY LeastOf
<1>2. m # 0
  <2>1. Wrote(k, s, [i \in 0 .. 0 |-> k], 0)
    BY DEF Wrote
  <2> QED
    BY <2>1
<1>3. PICK g : Wrote(k, s, g, m - 1)
  BY <1>1, <1>2
<1> DEFINE h == [i \in 0 .. m |-> IF i < m THEN g[i] ELSE console_putchar(g[m - 1], s[m])]
<1>4. Wrote(k, s, h, m)
  <2>1. \A i \in 0 .. m - 1 : g[i] = IF i = 0 THEN k ELSE console_putchar(g[i - 1], s[i])
    BY <1>3 DEF Wrote
  <2> QED
    BY <2>1, <1>2 DEF Wrote
<1> QED
  BY <1>1, <1>4

LEMMA WriteLoop ==
    ASSUME NEW k, NEW s, Len(s) \in Nat
    PROVE  \E g : /\ console_write(k, s) = g[Len(s)]
                  /\ g[0] = k
                  /\ \A i \in 1 .. Len(s) : g[i] = console_putchar(g[i - 1], s[i])
<1>1. PICK h : h = CHOOSE g : g = [i \in 0 .. Len(s) |-> IF i = 0 THEN k ELSE console_putchar(g[i - 1], s[i])]
  OBVIOUS
<1>2. console_write(k, s) = h[Len(s)]
  BY <1>1 DEF console_write
<1>3. \E g : g = [i \in 0 .. Len(s) |-> IF i = 0 THEN k ELSE console_putchar(g[i - 1], s[i])]
  <2>1. PICK g : Wrote(k, s, g, Len(s))
    BY WroteExists
  <2> QED
    BY <2>1 DEF Wrote
<1>4. h = [i \in 0 .. Len(s) |-> IF i = 0 THEN k ELSE console_putchar(h[i - 1], s[i])]
  BY <1>1, <1>3
<1>5. h[0] = k /\ \A i \in 1 .. Len(s) : h[i] = console_putchar(h[i - 1], s[i])
  BY <1>4
<1> QED
  BY <1>2, <1>5

(* Whatever is written, the console stays good.                            *)
LEMMA WriteGood ==
    ASSUME NEW k, Good(k), NEW s \in Seq(Chars)
    PROVE  Good(console_write(k, s))
<1>0. Len(s) \in Nat /\ \A i \in 1 .. Len(s) : s[i] \in Chars
  OBVIOUS
<1>1. PICK g : /\ console_write(k, s) = g[Len(s)]
               /\ g[0] = k
               /\ \A i \in 1 .. Len(s) : g[i] = console_putchar(g[i - 1], s[i])
  BY <1>0, WriteLoop
<1> DEFINE Bad == {i \in 0 .. Len(s) : ~ Good(g[i])}
<1>2. ASSUME Bad # {} PROVE FALSE
  <2>0. Bad \subseteq Nat
    BY <1>0
  <2>1. PICK m \in Bad : \A y \in Bad : m <= y
    BY <1>2, <2>0, LeastOf
  <2>2. m # 0
    BY <1>1, <2>1
  <2>3. m \in 1 .. Len(s) /\ m - 1 \in 0 .. Len(s) /\ m - 1 \notin Bad
    BY <1>0, <2>1, <2>2
  <2>4. Good(g[m - 1])
    BY <2>3
  <2>5. Good(console_putchar(g[m - 1], s[m]))
    BY <1>0, <2>3, <2>4, PutcharGood
  <2> QED
    BY <1>1, <2>1, <2>3, <2>5
<1>3. Len(s) \in 0 .. Len(s)
  BY <1>0
<1> QED
  BY <1>1, <1>2, <1>3

LEMMA WriteOne ==
    ASSUME NEW k, NEW a
    PROVE  console_write(k, <<a>>) = console_putchar(k, a)
<1>1. Len(<<a>>) = 1 /\ <<a>>[1] = a
  OBVIOUS
<1>2. PICK g : /\ console_write(k, <<a>>) = g[1] /\ g[0] = k
               /\ \A i \in 1 .. 1 : g[i] = console_putchar(g[i - 1], <<a>>[i])
  BY <1>1, WriteLoop
<1>3. g[1] = console_putchar(g[0], a)
  BY <1>1, <1>2
<1> QED
  BY <1>2, <1>3

LEMMA WriteThree ==
    ASSUME NEW k, NEW a, NEW b, NEW c
    PROVE  console_write(k, <<a, b, c>>) = console_putchar(console_putchar(console_putchar(k, a), b), c)
<1> PICK s : s = <<a, b, c>>
  OBVIOUS
<1>1. Len(s) = 3 /\ s[1] = a /\ s[2] = b /\ s[3] = c
  OBVIOUS
<1>2. PICK g : /\ console_write(k, s) = g[3] /\ g[0] = k
               /\ \A i \in 1 .. 3 : g[i] = console_putchar(g[i - 1], s[i])
  BY <1>1, WriteLoop
<1>3. g[1] = console_putchar(k, a) /\ g[2] = console_putchar(g[1], b) /\ g[3] = console_putchar(g[2], c)
  BY <1>1, <1>2
<1> QED
  BY <1>2, <1>3

(* The sequences that are written are of characters.                       *)
LEMMA Least ==
    ASSUME NEW T, T \subseteq Nat, T # {}
    PROVE  Min(T) \in T
<1>1. PICK m \in T : \A n \in T : m <= n
  BY LeastOf
<1> QED
  BY <1>1 DEF Min

LEMMA PartTyped ==
    ASSUME NEW T, NEW s \in Seq(T), NEW m \in Nat, NEW n \in Nat, 1 <= m, n <= Len(s)
    PROVE  SubSeq(s, m, n) \in Seq(T)
BY SubSeqProperties

LEMMA BlanksSkipped ==
    ASSUME NEW T, NEW s \in Seq(T)
    PROVE  SkipBlanks(s) \in Seq(T)
<1> DEFINE rest == {i \in 1 .. Len(s) : s[i] # Blank}
<1>0. Len(s) \in Nat /\ rest \subseteq Nat /\ SkipBlanks(s) = IF rest = {} THEN <<>> ELSE SubSeq(s, Min(rest), Len(s))
  BY DEF SkipBlanks
<1>1. CASE rest = {}
  BY <1>0, <1>1
<1>2. CASE rest # {}
  <2>1. Min(rest) \in rest
    BY <1>0, <1>2, Least
  <2>2. PICK m : m = Min(rest)
    OBVIOUS
  <2>3. m \in Nat /\ 1 <= m
    BY <1>0, <2>1, <2>2
  <2>4. SubSeq(s, m, Len(s)) \in Seq(T)
    BY <1>0, <2>3, PartTyped
  <2> QED
    BY <1>0, <1>2, <2>2, <2>4
<1> QED
  BY <1>1, <1>2

LEMMA CommandShort ==
    ASSUME NEW T, NEW s \in Seq(T)
    PROVE  Len(UpToBlank(s)) \in Nat /\ Len(UpToBlank(s)) <= Len(s)
<1> DEFINE blanks == {i \in 1 .. Len(s) : s[i] = Blank}
<1>0. Len(s) \in Nat /\ blanks \subseteq Nat /\ UpToBlank(s) = IF blanks = {} THEN s ELSE SubSeq(s, 1, Min(blanks) - 1)
  BY DEF UpToBlank
<1>1. CASE blanks = {}
  BY <1>0, <1>1
<1>2. CASE blanks # {}
  <2>1. Min(blanks) \in blanks
    BY <1>0, <1>2, Least
  <2>2. PICK m : m = Min(blanks) - 1
    OBVIOUS
  <2>3. m \in Nat /\ m <= Len(s)
    BY <1>0, <2>1, <2>2
  <2>4. Len(SubSeq(s, 1, m)) = m
    BY <1>0, <2>3, SubSeqProperties
  <2> QED
    BY <1>0, <1>2, <2>2, <2>3, <2>4
<1> QED
  BY <1>1, <1>2

LEMMA ArgsTyped ==
    ASSUME NEW T, NEW s \in Seq(T)
    PROVE  SkipBlanks(s) \in Seq(T) /\ Args(s) \in Seq(T)
<1> PICK t : t = SkipBlanks(s)
  OBVIOUS
<1>1. t \in Seq(T)
  BY BlanksSkipped
<1>2. Len(t) \in Nat /\ Len(Command(s)) \in Nat /\ Len(Command(s)) <= Len(t)
  BY <1>1, CommandShort DEF Command
<1>3. SubSeq(t, Len(Command(s)) + 1, Len(t)) \in Seq(T)
  BY <1>1, <1>2, PartTyped
<1> QED
  BY <1>1, <1>3, BlanksSkipped DEF Args

(* The loop of FlattenSeq, and what it makes of n equal sequences.         *)
Joined(q, g, n) == g = [i \in 1 .. n |-> IF i = 1 THEN q[i] ELSE g[i - 1] \o q[i]]

LEMMA JoinedExists ==
    ASSUME NEW q
    PROVE  \A n \in Nat : \E g : Joined(q, g, n)
<1> DEFINE Bad == {n \in Nat : ~ \E g : Joined(q, g, n)}
<1> SUFFICES ASSUME Bad # {} PROVE FALSE
  OBVIOUS
<1>1. PICK m \in Bad : \A y \in Bad : m <= y
  BY LeastOf
<1>2. m # 0
  <2>1. Joined(q, [i \in 1 .. 0 |-> q], 0)
    BY DEF Joined
  <2> QED
    BY <2>1
<1>3. PICK g : Joined(q, g, m - 1)
  BY <1>1, <1>2
<1> DEFINE h == [i \in 1 .. m |-> IF i < m THEN g[i] ELSE IF i = 1 THEN q[i] ELSE g[m - 1] \o q[m]]
<1>4. Joined(q, h, m)
  <2>1. \A i \in 1 .. m - 1 : g[i] = IF i = 1 THEN q[i] ELSE g[i - 1] \o q[i]
    BY <1>3 DEF Joined
  <2>2. ASSUME NEW i \in 1 .. m PROVE h[i] = IF i = 1 THEN q[i] ELSE h[i - 1] \o q[i]
    <3>1. CASE i < m
      <4>1. h[i] = g[i] /\ i \in 1 .. m - 1 /\ (i # 1 => h[i - 1] = g[i - 1])
        BY <1>1, <3>1
      <4> QED
        BY <2>1, <4>1
    <3>2. CASE i = m
      <4>1. i # 1 => h[i - 1] = g[m - 1]
        BY <1>1, <3>2
      <4> QED
        BY <3>2, <4>1
    <3> QED
      BY <1>1, <3>1, <3>2
  <2> QED
    BY <2>2 DEF Joined
<1> QED
  BY <1>1, <1>4

LEMMA FlattenTyped ==
    ASSUME NEW n \in Nat, NEW t \in Seq(Chars)
    PROVE  FlattenSeq([i \in 1 .. n |-> t]) \in Seq(Chars)
<1>0. PICK q : q = [i \in 1 .. n |-> t]
  OBVIOUS
<1>1. q \in Seq(Seq(Chars)) /\ Len(q) = n
  BY <1>0
<1>2. CASE n = 0
  <2>1. FlattenSeq(q) = q
    BY <1>1, <1>2 DEF FlattenSeq
  <2>2. q = <<>>
    BY <1>1, <1>2
  <2> QED
    BY <1>0, <2>1, <2>2
<1>3. CASE n # 0
  <2>1. PICK h : h = CHOOSE g : g = [i \in 1 .. Len(q) |-> IF i = 1 THEN q[i] ELSE g[i - 1] \o q[i]]
    OBVIOUS
  <2>2. FlattenSeq(q) = h[n]
    BY <1>1, <1>3, <2>1 DEF FlattenSeq
  <2>3. \E g : g = [i \in 1 .. Len(q) |-> IF i = 1 THEN q[i] ELSE g[i - 1] \o q[i]]
    <3>1. PICK g : Joined(q, g, Len(q))
      BY <1>1, JoinedExists
    <3> QED
      BY <3>1 DEF Joined
  <2>4. h = [i \in 1 .. n |-> IF i = 1 THEN q[i] ELSE h[i - 1] \o q[i]]
    BY <1>1, <2>1, <2>3
  <2>5. \A i \in 1 .. n : h[i] = IF i = 1 THEN t ELSE h[i - 1] \o t
    BY <1>0, <2>4
  <2> DEFINE Bad == {i \in 1 .. n : h[i] \notin Seq(Chars)}
  <2>6. ASSUME Bad # {} PROVE FALSE
    <3>0. Bad \subseteq Nat
      OBVIOUS
    <3>1. PICK m \in Bad : \A y \in Bad : m <= y
      BY <2>6, <3>0, LeastOf
    <3>2. m # 1
      BY <2>5, <3>1
    <3>3. m - 1 \in 1 .. n /\ m - 1 \notin Bad
      BY <3>1, <3>2
    <3>4. h[m - 1] \o t \in Seq(Chars)
      BY <3>3
    <3> QED
      BY <2>5, <3>1, <3>2, <3>4
  <2> QED
    BY <1>0, <1>3, <2>2, <2>6
<1> QED
  BY <1>2, <1>3

(* The loop of console_printf.                                             *)
Extended(b, p) ==
    IF b.ended THEN b
    ELSE LET chars == b.chars \o p.chars
         IN  [chars |-> chars, ended |-> p.converts /\ Len(chars) >= FORMAT_MAX]

NoText == [chars |-> <<>>, ended |-> FALSE]

Buffered(q, g, n) ==
    g = [i \in 0 .. n |-> IF i = 0 THEN NoText ELSE Extended(g[i - 1], q[i])]

LEMMA BufferedExists ==
    ASSUME NEW q
    PROVE  \A n \in Nat : \E g : Buffered(q, g, n)
<1> DEFINE Bad == {n \in Nat : ~ \E g : Buffered(q, g, n)}
<1> SUFFICES ASSUME Bad # {} PROVE FALSE
  OBVIOUS
<1>1. PICK m \in Bad : \A y \in Bad : m <= y
  BY LeastOf
<1>2. m # 0
  <2>1. Buffered(q, [i \in 0 .. 0 |-> NoText], 0)
    BY DEF Buffered
  <2> QED
    BY <2>1
<1>3. PICK g : Buffered(q, g, m - 1)
  BY <1>1, <1>2
<1> DEFINE h == [i \in 0 .. m |-> IF i < m THEN g[i] ELSE Extended(g[m - 1], q[m])]
<1>4. Buffered(q, h, m)
  <2>1. \A i \in 0 .. m - 1 : g[i] = IF i = 0 THEN NoText ELSE Extended(g[i - 1], q[i])
    BY <1>3 DEF Buffered
  <2> QED
    BY <2>1, <1>2 DEF Buffered
<1> QED
  BY <1>1, <1>4

LEMMA FormattedTyped ==
    ASSUME NEW q, Len(q) \in Nat, \A i \in 1 .. Len(q) : q[i].chars \in Seq(Chars)
    PROVE  Formatted(q) \in Seq(Chars)
<1>1. PICK h : h = CHOOSE g : Buffered(q, g, Len(q))
  OBVIOUS
<1>2. Formatted(q) = h[Len(q)].chars
  BY <1>1 DEF Formatted, Buffered, Extended, NoText
<1>3. Buffered(q, h, Len(q))
  BY <1>1, BufferedExists
<1>4. h[0].chars = <<>> /\ \A i \in 1 .. Len(q) : h[i] = Extended(h[i - 1], q[i])
  <2>1. h[0] = NoText /\ \A i \in 1 .. Len(q) : h[i] = Extended(h[i - 1], q[i])
    BY <1>3 DEF Buffered
  <2>2. NoText.chars = <<>>
    BY DEF NoText
  <2> QED
    BY <2>1, <2>2
<1> DEFINE Bad == {i \in 0 .. Len(q) : h[i].chars \notin Seq(Chars)}
<1>5. ASSUME Bad # {} PROVE FALSE
  <2>0. Bad \subseteq Nat
    OBVIOUS
  <2>1. PICK m \in Bad : \A y \in Bad : m <= y
    BY <1>5, <2>0, LeastOf
  <2>2. m # 0
    <3>1. <<>> \in Seq(Chars)
      OBVIOUS
    <3> QED
      BY <1>4, <2>1, <3>1
  <2>3. m \in 1 .. Len(q) /\ m - 1 \in 0 .. Len(q) /\ m - 1 \notin Bad
    BY <2>1, <2>2
  <2>4. h[m - 1].chars \in Seq(Chars) /\ q[m].chars \in Seq(Chars)
    BY <2>3
  <2>5. Extended(h[m - 1], q[m]).chars \in Seq(Chars)
    BY <2>4 DEF Extended
  <2> QED
    BY <1>4, <2>1, <2>3, <2>5
<1> QED
  BY <1>2, <1>5

LEMMA PrintfGood ==
    ASSUME NEW k, Good(k), NEW q, Len(q) \in Nat, \A i \in 1 .. Len(q) : q[i].chars \in Seq(Chars)
    PROVE  Good(console_printf(k, q))
BY FormattedTyped, WriteGood DEF console_printf

-----------------------------------------------------------------------------
(* The commands                                                            *)

LEMMA MessageTyped ==
    /\ Message \in Seq(Chars) /\ <<NL>> \in Seq(Chars) /\ <<NL>> \o Message \in Seq(Chars)
    /\ <<Prompt>> \in Seq(Chars) /\ <<Text>> \in Seq(Chars)
<1>1. Text \in Chars /\ NL \in Chars /\ Prompt \in Chars
  BY DEF Chars
<1>2. Message \in Seq(Chars)
  BY <1>1 DEF Message, Line
<1> QED
  BY <1>1, <1>2

LEMMA InfoGood ==
    ASSUME NEW k, Good(k)
    PROVE  Good(cmd_info(k))
<1>1. PICK q : q = <<Converted(<<Text>>), Plain(<<NL>>)>>
  OBVIOUS
<1>2. Len(q) = 2 /\ \A i \in 1 .. Len(q) : q[i].chars \in Seq(Chars)
  <2>1. Converted(<<Text>>).chars = <<Text>> /\ Plain(<<NL>>).chars = <<NL>>
    BY DEF Converted, Plain
  <2>2. Len(q) = 2 /\ q[1] = Converted(<<Text>>) /\ q[2] = Plain(<<NL>>)
    BY <1>1
  <2>3. q[1].chars \in Seq(Chars) /\ q[2].chars \in Seq(Chars)
    BY ONLY <2>1, <2>2, MessageTyped
  <2>4. 1 .. Len(q) = {1, 2}
    BY <2>2
  <2> QED
    BY ONLY <2>2, <2>3, <2>4
<1>3. PICK p : p = <<Plain(Message)>>
  OBVIOUS
<1>4. Len(p) = 1 /\ \A i \in 1 .. Len(p) : p[i].chars \in Seq(Chars)
  <2>1. Plain(Message).chars = Message
    BY DEF Plain
  <2>2. Len(p) = 1 /\ p[1] = Plain(Message)
    BY <1>3
  <2> QED
    BY <2>1, <2>2, MessageTyped
<1>5. ASSUME NEW d, Good(d) PROVE Good(console_printf(d, q))
  BY <1>2, <1>5, PrintfGood
<1>6. Good(console_printf(console_printf(console_printf(k, q), q), q))
  BY <1>5
<1>7. Good(console_printf(console_printf(console_printf(console_printf(k, q), q), q), p))
  BY <1>4, <1>6, PrintfGood
<1> QED
  BY <1>1, <1>3, <1>7 DEF cmd_info

LEMMA ExecuteGood ==
    ASSUME NEW k, Good(k), NEW s \in Seq(Letter \union {Blank, Other}), NEW j \in execute(k, s)
    PROVE  Good(j)
<1>0. /\ SkipBlanks(s) \in Seq(Chars) /\ Args(s) \in Seq(Chars)
  <2>1. s \in Seq(Chars)
    BY DEF Chars
  <2> QED
    BY <2>1, ArgsTyped
<1>1. Good(cmd_clear(k))
  BY ClearedGood DEF cmd_clear
<1>2. Good(cmd_echo(k, Args(s)))
  <2>1. Line(Args(s)) \in Seq(Chars)
    BY <1>0 DEF Line, Chars
  <2> QED
    BY <2>1, WriteGood DEF cmd_echo
<1>3. Good(cmd_help(k))
  <2>1. FlattenSeq([i \in 1 .. 12 |-> Message]) \in Seq(Chars)
    BY MessageTyped, FlattenTyped
  <2> QED
    BY <2>1, WriteGood DEF cmd_help
<1>4. Good(cmd_hexdump(k, Args(s)))
  <2>1. [j1 \in 1 .. COLS - 1 |-> Text] \in Seq(Chars)
    BY Sizes DEF Chars
  <2>2. Line([j1 \in 1 .. COLS - 1 |-> Text]) \in Seq(Chars)
    BY <2>1 DEF Line, Chars
  <2>3. FlattenSeq([i \in 1 .. 4 |-> Line([j1 \in 1 .. COLS - 1 |-> Text])]) \in Seq(Chars)
    BY <2>2, FlattenTyped
  <2> QED
    BY <2>3, WriteGood, MessageTyped DEF cmd_hexdump
<1>5. ASSUME NEW n \in 0 .. 2 PROVE Good(cmd_ls(k, n))
  <2>0. n \in Nat
    OBVIOUS
  <2>1. FlattenSeq([i \in 1 .. n |-> Message]) \in Seq(Chars)
    BY <2>0, MessageTyped, FlattenTyped
  <2> QED
    BY <2>1, WriteGood DEF cmd_ls
<1>6. Good(cmd_cd(k, Args(s)))
  BY WriteGood, MessageTyped DEF cmd_cd
<1>7. Good(console_write(k, Line(<<Text>> \o SkipBlanks(s))))
  <2>1. <<Text>> \o SkipBlanks(s) \in Seq(Chars)
    BY <1>0, MessageTyped
  <2>2. Line(<<Text>> \o SkipBlanks(s)) \in Seq(Chars)
    BY <2>1 DEF Line, Chars
  <2> QED
    BY <2>2, WriteGood
<1>8. Good(cmd_info(k))
  BY InfoGood
<1> QED
  BY <1>1, <1>2, <1>3, <1>4, <1>5, <1>6, <1>7, <1>8 DEF execute

-----------------------------------------------------------------------------
(* The loader                                                              *)

LEMMA Commands ==
    ASSUME NEW p, p.cmds \in Seq(LoadCommand)
    PROVE  /\ Len(p.cmds) \in Nat
           /\ \A i \in Segments(p) :
                /\ i \in 1 .. Len(p.cmds) /\ p.cmds[i].cmd = "segment" /\ p.cmds[i].filesize > 0
                /\ p.cmds[i].vmaddr \in Nat /\ p.cmds[i].vmsize \in Nat
                /\ p.cmds[i].fileoff \in Nat /\ p.cmds[i].filesize \in Nat
           /\ \A e \in Gives(p) :
                /\ e \in 1 .. Len(p.cmds)
                /\ \/ p.cmds[e].cmd = "main" /\ p.cmds[e].entryoff \in Nat
                   \/ p.cmds[e].cmd = "unixthread"
<1>1. Len(p.cmds) \in Nat /\ \A i \in 1 .. Len(p.cmds) : p.cmds[i] \in LoadCommand
  OBVIOUS
<1>2. ASSUME NEW s \in LoadCommand
      PROVE  \/ /\ s.cmd = "segment" /\ s.vmaddr \in Nat /\ s.vmsize \in Nat
                /\ s.fileoff \in Nat /\ s.filesize \in Nat
             \/ s.cmd = "main" /\ s.entryoff \in Nat
             \/ s.cmd = "unixthread"
  BY DEF LoadCommand
<1> QED
  BY <1>1, <1>2 DEF Segments, Gives

(* The segments with bytes in the file, up to command i.                   *)
Filled(p, i) == {j \in 1 .. i : /\ p.cmds[j].cmd = "segment"
                                /\ p.cmds[j].filesize > 0 /\ p.cmds[j].vmaddr # 0}

(* file_base no longer changes once a segment has been seen.               *)
LEMMA BaseFixed ==
    ASSUME NEW p, p.cmds \in Seq(LoadCommand), NEW i \in Segments(p), p.cmds[i].vmaddr > 0,
           NEW e \in 1 .. Len(p.cmds), i <= e
    PROVE  /\ FileBase(p, e) = FileBase(p, Len(p.cmds))
           /\ FileBase(p, e) \in Nat \ {0}
<1> PICK n : n = Len(p.cmds)
  OBVIOUS
<1>1. n \in Nat /\ i \in Nat /\ i \in 1 .. n /\ p.cmds[i].vmaddr \in Nat /\ i \in Filled(p, e)
  BY Commands DEF Filled
<1>2. Filled(p, e) \subseteq Nat /\ Filled(p, n) \subseteq Nat /\ Filled(p, e) \subseteq Filled(p, n)
  BY <1>1 DEF Filled
<1>3. PICK m \in Filled(p, e) : \A j \in Filled(p, e) : m <= j
  BY <1>1, <1>2, LeastOf
<1>4. \A j \in Filled(p, n) : m <= j
  <2>1. ASSUME NEW j \in Filled(p, n) PROVE m <= j
    <3>1. CASE j <= e
      <4>1. j \in Filled(p, e)
        BY <3>1 DEF Filled
      <4> QED
        BY <1>3, <4>1
    <3>2. CASE ~ (j <= e)
      BY <1>3, <3>2 DEF Filled
    <3> QED
      BY <3>1, <3>2
  <2> QED
    BY <2>1
<1>5. m \in Nat /\ m \in Filled(p, n)
  BY <1>2, <1>3
<1>6. m = CHOOSE j \in Filled(p, e) : \A k \in Filled(p, e) : j <= k
  <2>1. \A x \in Filled(p, e) : (\A k \in Filled(p, e) : x <= k) => x = m
    BY <1>2, <1>3, <1>5
  <2> QED
    BY <1>3, <2>1
<1>7. m = CHOOSE j \in Filled(p, n) : \A k \in Filled(p, n) : j <= k
  <2>1. \A x \in Filled(p, n) : (\A k \in Filled(p, n) : x <= k) => x = m
    BY <1>2, <1>4, <1>5
  <2> QED
    BY <1>4, <1>5, <2>1
<1>8. FileBase(p, e) = p.cmds[m].vmaddr
  BY <1>3, <1>6 DEF FileBase, Filled
<1>9. FileBase(p, n) = p.cmds[m].vmaddr
  BY <1>5, <1>7 DEF FileBase, Filled
<1>10. p.cmds[m].vmaddr \in Nat \ {0}
  <2>1. m \in Segments(p) /\ p.cmds[m].vmaddr # 0
    BY <1>5 DEF Filled, Segments
  <2> QED
    BY <2>1, Commands
<1> QED
  BY <1>8, <1>9, <1>10

(* Where a segment of a well linked program goes: slid from the file's     *)
(* addresses by one distance, so that the segments stay apart.             *)
Base(p) == FileBase(p, Len(p.cmds))

LEMMA Apart ==
    ASSUME NEW a \in Int, NEW b \in Int, NEW m \in Int, NEW n \in Int, a + m <= b \/ b + n <= a
    PROVE  (a .. a + m - 1) \cap (b .. b + n - 1) = {}
OBVIOUS

LEMMA Inside ==
    ASSUME NEW v \in Int, NEW b \in Int, NEW z \in Int, NEW s \in Int, NEW l \in Int,
           NEW q, q = v - b + s
    PROVE  /\ b <= v /\ v + z <= b + l => q .. q + z - 1 \subseteq s .. s + l - 1
           /\ \A x \in v .. v + z - 1 : x - b + s \in q .. q + z - 1
           /\ \A o \in Nat : v = b /\ o < z => s + o \in q .. q + z - 1
OBVIOUS

LEMMA Placed ==
    ASSUME NEW p, p.cmds \in Seq(LoadCommand), WellLinked(p), NEW i \in Segments(p)
    PROVE  /\ Base(p) \in Nat \ {0} /\ FileBase(p, i) = Base(p)
           /\ Place(p, i) = p.cmds[i].vmaddr - Base(p) + SLIDE /\ Place(p, i) \in Int
           /\ p.cmds[i].filesize <= p.cmds[i].vmsize
           /\ Span(p, i) \subseteq Mem
           /\ \A j \in Segments(p) : j # i => Span(p, i) \cap Span(p, j) = {}
<1>0. SLIDE \in Nat /\ MemSize \in Nat
  BY ProgramAssumption
<1>1. ASSUME NEW j \in Segments(p)
      PROVE  /\ p.cmds[j].vmaddr > 0 /\ p.cmds[j].filesize <= p.cmds[j].vmsize
             /\ Base(p) <= p.cmds[j].vmaddr /\ p.cmds[j].vmaddr + p.cmds[j].vmsize <= Base(p) + MemSize
             /\ \A h \in Segments(p) :
                  j # h => \/ p.cmds[j].vmaddr + p.cmds[j].vmsize <= p.cmds[h].vmaddr
                           \/ p.cmds[h].vmaddr + p.cmds[h].vmsize <= p.cmds[j].vmaddr
  BY DEF WellLinked, Base
<1>2. ASSUME NEW j \in Segments(p)
      PROVE  /\ j \in 1 .. Len(p.cmds) /\ p.cmds[j].vmaddr \in Nat /\ p.cmds[j].vmsize \in Nat
             /\ Base(p) \in Nat \ {0} /\ FileBase(p, j) = Base(p)
  <2>1. j \in 1 .. Len(p.cmds) /\ j <= j /\ p.cmds[j].vmaddr \in Nat /\ p.cmds[j].vmsize \in Nat
    BY Commands
  <2> QED
    BY <1>1, <2>1, BaseFixed DEF Base
<1>3. ASSUME NEW j \in Segments(p)
      PROVE  Place(p, j) = p.cmds[j].vmaddr - Base(p) + SLIDE /\ Place(p, j) \in Int
  BY <1>0, <1>2 DEF Place
<1>4. Span(p, i) \subseteq Mem
  <2>1. /\ p.cmds[i].vmaddr \in Int /\ p.cmds[i].vmsize \in Int /\ Base(p) \in Int
        /\ SLIDE \in Int /\ MemSize \in Int
    BY <1>0, <1>2
  <2>2. Place(p, i) = p.cmds[i].vmaddr - Base(p) + SLIDE
    BY <1>3
  <2>3. Base(p) <= p.cmds[i].vmaddr /\ p.cmds[i].vmaddr + p.cmds[i].vmsize <= Base(p) + MemSize
    BY <1>1
  <2>4. Place(p, i) .. Place(p, i) + p.cmds[i].vmsize - 1 \subseteq SLIDE .. SLIDE + MemSize - 1
    BY ONLY <2>1, <2>2, <2>3, Inside
  <2> QED
    BY <2>4 DEF Span, Mem
<1>5. ASSUME NEW j \in Segments(p), j # i PROVE Span(p, i) \cap Span(p, j) = {}
  <2>1. \/ Place(p, i) + p.cmds[i].vmsize <= Place(p, j)
        \/ Place(p, j) + p.cmds[j].vmsize <= Place(p, i)
    <3>1. /\ p.cmds[i].vmaddr \in Int /\ p.cmds[i].vmsize \in Int /\ Base(p) \in Int /\ SLIDE \in Int
          /\ p.cmds[j].vmaddr \in Int /\ p.cmds[j].vmsize \in Int
      BY <1>0, <1>2
    <3>2. /\ Place(p, i) = p.cmds[i].vmaddr - Base(p) + SLIDE
          /\ Place(p, j) = p.cmds[j].vmaddr - Base(p) + SLIDE
      BY <1>3
    <3>3. \/ p.cmds[j].vmaddr + p.cmds[j].vmsize <= p.cmds[i].vmaddr
          \/ p.cmds[i].vmaddr + p.cmds[i].vmsize <= p.cmds[j].vmaddr
      BY <1>1, <1>5
    <3> QED
      BY ONLY <3>1, <3>2, <3>3
  <2>2. Place(p, i) \in Int /\ Place(p, j) \in Int /\ p.cmds[i].vmsize \in Int /\ p.cmds[j].vmsize \in Int
    BY <1>2, <1>3
  <2>3. (Place(p, i) .. Place(p, i) + p.cmds[i].vmsize - 1) \cap (Place(p, j) .. Place(p, j) + p.cmds[j].vmsize - 1) = {}
    BY ONLY <2>1, <2>2, Apart
  <2> QED
    BY <2>3 DEF Span
<1> QED
  BY <1>1, <1>2, <1>3, <1>4, <1>5

(* The loop of mach_o_load, up to its command n.                           *)
Stepped(m, p, g, n) == g = [i \in 0 .. n |-> IF i = 0 THEN m ELSE LoadStep(p, g[i - 1], i)]

LEMMA SteppedExists ==
    ASSUME NEW m, NEW p
    PROVE  \A n \in Nat : \E g : Stepped(m, p, g, n)
<1> DEFINE Bad == {n \in Nat : ~ \E g : Stepped(m, p, g, n)}
<1> SUFFICES ASSUME Bad # {} PROVE FALSE
  OBVIOUS
<1>1. PICK k \in Bad : \A y \in Bad : k <= y
  BY LeastOf
<1>2. k # 0
  <2>1. Stepped(m, p, [i \in 0 .. 0 |-> m], 0)
    BY DEF Stepped
  <2> QED
    BY <2>1
<1>3. PICK g : Stepped(m, p, g, k - 1)
  BY <1>1, <1>2
<1> DEFINE h == [i \in 0 .. k |-> IF i < k THEN g[i] ELSE LoadStep(p, g[k - 1], k)]
<1>4. Stepped(m, p, h, k)
  <2>1. \A i \in 0 .. k - 1 : g[i] = IF i = 0 THEN m ELSE LoadStep(p, g[i - 1], i)
    BY <1>3 DEF Stepped
  <2> QED
    BY <2>1, <1>2 DEF Stepped
<1> QED
  BY <1>1, <1>4

LEMMA LoadLoop ==
    ASSUME NEW m, NEW p, Len(p.cmds) \in Nat
    PROVE  \E g : /\ Loaded(m, p) = g[Len(p.cmds)]
                  /\ \A i \in 1 .. Len(p.cmds) : g[i] = LoadStep(p, g[i - 1], i)
<1>1. PICK h : h = CHOOSE g : Stepped(m, p, g, Len(p.cmds))
  OBVIOUS
<1>2. Loaded(m, p) = h[Len(p.cmds)]
  BY <1>1 DEF Loaded, Stepped
<1>3. Stepped(m, p, h, Len(p.cmds))
  BY <1>1, SteppedExists
<1>4. \A i \in 1 .. Len(p.cmds) : h[i] = LoadStep(p, h[i - 1], i)
  BY <1>3 DEF Stepped
<1> QED
  BY <1>2, <1>4

(* Segment i is in memory M: its bytes, then zeros.                        *)
There(M, p, i) ==
    \A a \in Span(p, i) :
      M[a] = IF a - Place(p, i) < p.cmds[i].filesize
             THEN <<p.name, p.cmds[i].fileoff + (a - Place(p, i))>> ELSE Zero

LEMMA SegmentCopied ==
    ASSUME NEW p, p.cmds \in Seq(LoadCommand), WellLinked(p), NEW M, NEW i \in Segments(p)
    PROVE  /\ There(Copied(M, p, i), p, i)
           /\ \A j \in Segments(p) : j # i /\ There(M, p, j) => There(Copied(M, p, i), p, j)
<1>0. /\ Place(p, i) \in Int /\ p.cmds[i].vmsize \in Nat /\ p.cmds[i].filesize \in Nat
      /\ p.cmds[i].filesize > 0 /\ p.cmds[i].filesize <= p.cmds[i].vmsize /\ p.cmds[i].fileoff \in Nat
  BY Placed, Commands
<1>1. \A a \in Mem : Copied(M, p, i)[a] =
        IF a \in Place(p, i) .. Place(p, i) + p.cmds[i].filesize - 1
        THEN <<p.name, p.cmds[i].fileoff + a - Place(p, i)>>
        ELSE IF a \in Place(p, i) + p.cmds[i].filesize .. Place(p, i) + p.cmds[i].vmsize - 1
        THEN Zero ELSE M[a]
  <2>1. Copied(M, p, i) = [a \in Mem |->
          CASE p.cmds[i].filesize > 0 /\ a \in Place(p, i) .. Place(p, i) + p.cmds[i].filesize - 1
                 -> <<p.name, p.cmds[i].fileoff + a - Place(p, i)>>
            [] p.cmds[i].filesize > 0 /\ a \in Place(p, i) + p.cmds[i].filesize .. Place(p, i) + p.cmds[i].vmsize - 1
                 -> Zero
            [] OTHER -> M[a]]
    BY DEF Copied
  <2>2. (Place(p, i) .. Place(p, i) + p.cmds[i].filesize - 1)
          \cap (Place(p, i) + p.cmds[i].filesize .. Place(p, i) + p.cmds[i].vmsize - 1) = {}
    BY ONLY <1>0
  <2>3. p.cmds[i].filesize > 0
    BY <1>0
  <2> QED
    BY ONLY <2>1, <2>2, <2>3, Zenon
<1>2. There(Copied(M, p, i), p, i)
  <2>1. ASSUME NEW a \in Span(p, i)
        PROVE  Copied(M, p, i)[a] = IF a - Place(p, i) < p.cmds[i].filesize
                 THEN <<p.name, p.cmds[i].fileoff + (a - Place(p, i))>> ELSE Zero
    <3>1. a \in Mem /\ a \in Int /\ a >= Place(p, i) /\ a < Place(p, i) + p.cmds[i].vmsize
      BY <1>0, Placed DEF Span
    <3>2. p.cmds[i].fileoff + a - Place(p, i) = p.cmds[i].fileoff + (a - Place(p, i))
      BY <1>0, <3>1
    <3>3. CASE a - Place(p, i) < p.cmds[i].filesize
      <4>1. a \in Place(p, i) .. Place(p, i) + p.cmds[i].filesize - 1
        BY ONLY <1>0, <3>1, <3>3
      <4> QED
        BY <1>1, <3>1, <3>2, <3>3, <4>1
    <3>4. CASE ~ (a - Place(p, i) < p.cmds[i].filesize)
      <4>1. /\ a \notin Place(p, i) .. Place(p, i) + p.cmds[i].filesize - 1
            /\ a \in Place(p, i) + p.cmds[i].filesize .. Place(p, i) + p.cmds[i].vmsize - 1
        BY ONLY <1>0, <3>1, <3>4
      <4> QED
        BY <1>1, <3>1, <3>4, <4>1
    <3> QED
      BY <3>3, <3>4
  <2> QED
    BY <2>1 DEF There
<1>3. ASSUME NEW j \in Segments(p), j # i, There(M, p, j) PROVE There(Copied(M, p, i), p, j)
  <2>1. ASSUME NEW a \in Span(p, j) PROVE Copied(M, p, i)[a] = M[a]
    <3>1. a \in Mem /\ a \notin Span(p, i)
      BY <1>3, Placed
    <3>2. /\ a \notin Place(p, i) .. Place(p, i) + p.cmds[i].filesize - 1
          /\ a \notin Place(p, i) + p.cmds[i].filesize .. Place(p, i) + p.cmds[i].vmsize - 1
      BY ONLY <1>0, <3>1 DEF Span
    <3> QED
      BY <1>1, <3>1, <3>2
  <2> QED
    BY <1>3, <2>1 DEF There
<1> QED
  BY <1>2, <1>3

(* The whole image, over any memory.                                       *)
LEMMA ImageLoaded ==
    ASSUME NEW p, p.cmds \in Seq(LoadCommand), WellLinked(p), NEW M, NEW i \in Segments(p)
    PROVE  There(Loaded(M, p), p, i)
<1> PICK n : n = Len(p.cmds)
  OBVIOUS
<1>0. n \in Nat /\ i \in 1 .. n
  BY Commands
<1>1. PICK g : /\ Loaded(M, p) = g[n]
               /\ \A k \in 1 .. n : g[k] = LoadStep(p, g[k - 1], k)
  BY <1>0, LoadLoop
<1> DEFINE Bad == {k \in i .. n : ~ There(g[k], p, i)}
<1>2. ASSUME Bad # {} PROVE FALSE
  <2>0. Bad \subseteq Nat
    BY <1>0
  <2>1. PICK k \in Bad : \A y \in Bad : k <= y
    BY <1>2, <2>0, LeastOf
  <2>2. k \in 1 .. n /\ g[k] = LoadStep(p, g[k - 1], k) /\ ~ There(g[k], p, i)
    BY <1>0, <1>1, <2>1
  <2>3. CASE k = i
    <3>1. g[k] = Copied(g[k - 1], p, i)
      BY <2>2, <2>3, Commands DEF LoadStep
    <3> QED
      BY <2>2, <3>1, SegmentCopied
  <2>4. CASE k # i
    <3>1. k - 1 \in i .. n /\ k - 1 \notin Bad
      BY <1>0, <2>1, <2>4
    <3>2. There(g[k - 1], p, i)
      BY <3>1
    <3>3. CASE k \in Segments(p)
      <4>1. g[k] = Copied(g[k - 1], p, k)
        BY <2>2, <3>3, Commands DEF LoadStep
      <4> QED
        BY <2>2, <2>4, <3>2, <3>3, <4>1, SegmentCopied
    <3>4. CASE k \notin Segments(p) /\ p.cmds[k].cmd = "segment"
      <4>1. g[k] = Copied(g[k - 1], p, k) /\ ~ (p.cmds[k].filesize > 0)
        BY <2>2, <3>4 DEF LoadStep, Segments
      <4>2. \A a \in Mem : g[k][a] = g[k - 1][a]
        BY <4>1 DEF Copied
      <4>3. Span(p, i) \subseteq Mem
        BY Placed
      <4> QED
        BY <2>2, <3>2, <4>2, <4>3 DEF There
    <3>5. CASE p.cmds[k].cmd # "segment"
      BY <2>2, <3>2, <3>5 DEF LoadStep
    <3> QED
      BY <3>3, <3>4, <3>5
  <2> QED
    BY <2>3, <2>4
<1>3. n \in i .. n
  BY <1>0
<1> QED
  BY <1>1, <1>2, <1>3

(* And an entry point that LC_MAIN gives is inside.                        *)
LEMMA EntryInside ==
    ASSUME NEW p, p.cmds \in Seq(LoadCommand), WellLinked(p), Entry(p) # 0,
           p.cmds[LastGiving(p)].cmd = "main"
    PROVE  \E i \in Segments(p) : Entry(p) \in Span(p, i)
<1> PICK n : n = Len(p.cmds)
  OBVIOUS
<1>0. n \in Nat /\ Gives(p) \subseteq 1 .. n /\ Gives(p) # {} /\ SLIDE \in Nat
  BY Commands, ProgramAssumption DEF Gives, Entry
<1>2. PICK e \in Gives(p) : Entry(p) = EntryOf(p, e) /\ p.cmds[e].cmd = "main"
  <2> DEFINE back == {n - i : i \in Gives(p)}
  <2>1. back \subseteq Nat /\ back # {}
    BY <1>0
  <2>2. PICK b \in back : \A y \in back : b <= y
    BY <2>1, LeastOf
  <2>3. PICK x \in Gives(p) : b = n - x
    BY <2>2
  <2>4. ASSUME NEW j \in Gives(p) PROVE j <= x
    <3>1. b <= n - j
      BY <2>2
    <3> QED
      BY <1>0, <2>3, <3>1
  <2>5. LastGiving(p) \in Gives(p)
    BY <2>4 DEF LastGiving
  <2>6. Entry(p) = EntryOf(p, LastGiving(p))
    BY DEF Entry
  <2> QED
    BY <2>5, <2>6
<1>3. PICK i \in Segments(p) :
        i < e /\ p.cmds[i].vmaddr = Base(p) /\ p.cmds[e].entryoff < p.cmds[i].vmsize
  BY <1>2 DEF WellLinked, Base
<1>4. /\ Base(p) \in Nat \ {0} /\ Place(p, i) = p.cmds[i].vmaddr - Base(p) + SLIDE
      /\ p.cmds[i].vmaddr \in Nat /\ p.cmds[i].vmsize \in Nat /\ i \in 1 .. n /\ e \in 1 .. n
      /\ p.cmds[i].vmaddr > 0
  BY <1>2, Placed, Commands DEF WellLinked
<1>5. p.cmds[e].entryoff \in Nat
  BY <1>2, Commands
<1>6. Entry(p) = SLIDE + p.cmds[e].entryoff
  BY <1>2 DEF EntryOf
<1>7. SLIDE + p.cmds[e].entryoff \in Place(p, i) .. Place(p, i) + p.cmds[i].vmsize - 1
  <2>1. /\ p.cmds[i].vmaddr \in Int /\ p.cmds[i].vmsize \in Int /\ Base(p) \in Int
        /\ SLIDE \in Int /\ 0 \in Int
    BY <1>0, <1>4
  <2> QED
    BY ONLY <1>3, <1>4, <1>5, <2>1, Inside
<1> QED
  BY <1>6, <1>7 DEF Span

-----------------------------------------------------------------------------
(* The line that is typed                                                  *)

Typed == Letter \union {Blank}

(* Behind the prompt, which ends before column s, row and screen have b.   *)
Echoed(k, b, s) ==
    /\ b \in Seq(Typed) /\ s \in 1 .. COLS /\ k.col = s + Len(b)
    /\ k.text[k.row][s - 1] = Prompt
    /\ \A i \in 1 .. Len(b) : k.text[k.row][s + i - 1] = b[i]
    /\ Shown(k)

LEMMA Glyphs ==
    /\ Typed \subseteq Chars /\ Prompt \in Chars
    /\ \A c \in Typed \union {Prompt} : /\ c \notin {NL, BS, Other} /\ vesa_draw_cell(c) = c
                                        /\ \A k : console_putchar(k, c) = Printed(k, c)
<1>1. \A c \in Typed \union {Prompt} : c \notin {NL, BS, Other}
  BY ShellAssumption, ConsoleAssumption DEF Typed
<1> QED
  BY <1>1 DEF Typed, Chars, vesa_draw_cell, console_putchar

LEMMA PromptEchoed ==
    ASSUME NEW k, Good(k), NEW j, j = Prompted(k)
    PROVE  Good(j) /\ Echoed(j, <<>>, j.col)
<1>1. j = Printed(k, Prompt) /\ Prompt \in Chars
  BY Glyphs, WriteOne DEF Prompted
<1>2. Good(j) /\ Shown(j) /\ j.col >= 1 /\ j.text[j.row][j.col - 1] = Prompt
  BY <1>1, PrintedGood
<1>3. j.col \in 1 .. COLS
  BY <1>2, Fields, Sizes DEF Good
<1> QED
  BY <1>2, <1>3 DEF Echoed

LEMMA TypeEchoed ==
    ASSUME NEW k, Good(k), NEW b, NEW s, Echoed(k, b, s), s + Len(b) < COLS,
           NEW c \in Typed, NEW j, j = console_putchar(k, c)
    PROVE  Echoed(j, Append(b, c), s)
<1>0. b \in Seq(Typed) /\ Len(b) \in Nat /\ s \in 1 .. COLS /\ s \in Nat /\ k.col = s + Len(b)
  BY Sizes DEF Echoed
<1>1. j = Printed(k, c) /\ c \in Chars /\ k.col < COLS /\ k.row \in Rows
  BY <1>0, Glyphs, Fields, Sizes DEF Good
<1>2. /\ Shown(j) /\ j.row = k.row /\ j.col = k.col + 1 /\ j.text[k.row][k.col] = c
      /\ \A q \in Rows, h \in Cols : q # k.row \/ h # k.col => j.text[q][h] = k.text[q][h]
  BY <1>1, PrintedHere
<1>3. Append(b, c) \in Seq(Typed) /\ Len(Append(b, c)) = Len(b) + 1
  BY <1>0
<1>4. ASSUME NEW i \in 1 .. Len(b) + 1 PROVE j.text[j.row][s + i - 1] = Append(b, c)[i]
  <2>1. CASE i = Len(b) + 1
    <3>1. s + i - 1 = k.col /\ Append(b, c)[i] = c
      BY <1>0, <2>1
    <3> QED
      BY <1>2, <3>1
  <2>2. CASE i # Len(b) + 1
    <3>1. s + i - 1 \in Cols /\ s + i - 1 # k.col /\ Append(b, c)[i] = b[i] /\ i \in 1 .. Len(b)
      BY <1>0, <1>1, <2>2, Sizes
    <3>2. k.text[k.row][s + i - 1] = b[i]
      BY <3>1 DEF Echoed
    <3> QED
      BY <1>1, <1>2, <3>1, <3>2
  <2> QED
    BY <2>1, <2>2
<1>5. j.text[j.row][s - 1] = Prompt
  <2>1. s - 1 \in Cols /\ s - 1 # k.col
    BY <1>0, <1>1, Sizes
  <2> QED
    BY <1>1, <1>2, <2>1 DEF Echoed
<1>6. j.col = s + Len(Append(b, c))
  BY <1>0, <1>2, <1>3
<1> QED
  BY <1>0, <1>2, <1>3, <1>4, <1>5, <1>6 DEF Echoed

LEMMA EraseEchoed ==
    ASSUME NEW k, Good(k), NEW b, NEW s, Echoed(k, b, s), b # <<>>,
           NEW j, j = console_write(k, <<BS, Blank, BS>>)
    PROVE  Echoed(j, Front(b), s)
<1>0. b \in Seq(Typed) /\ Len(b) \in Nat /\ s \in 1 .. COLS /\ s \in Nat /\ k.col = s + Len(b)
  BY Sizes DEF Echoed
<1>1. Len(b) > 0 /\ k.col > 0 /\ k.row \in Rows /\ k.col \in 0 .. COLS
  BY <1>0, Fields, Sizes DEF Good
<1>2. PICK x : x = Backspace(k)
  OBVIOUS
<1>3. /\ Good(x) /\ x.row = k.row /\ x.col = k.col - 1
      /\ \A q \in Rows, h \in Cols : q # k.row \/ h # k.col - 1 => x.text[q][h] = k.text[q][h]
  BY <1>1, <1>2, Backspaced
<1>4. PICK y : y = Printed(x, Blank)
  OBVIOUS
<1>5. /\ Good(y) /\ y.row = k.row /\ y.col = k.col
      /\ \A q \in Rows, h \in Cols : q # k.row \/ h # k.col - 1 => y.text[q][h] = k.text[q][h]
  <2>1. x.col < COLS /\ x.col + 1 = k.col
    BY <1>1, <1>3, Sizes
  <2>2. /\ Good(y) /\ y.row = x.row /\ y.col = x.col + 1
        /\ \A q \in Rows, h \in Cols : q # x.row \/ h # x.col => y.text[q][h] = x.text[q][h]
    BY <1>3, <1>4, <2>1, PrintedHere, Sizes
  <2> QED
    BY <1>3, <2>1, <2>2
<1>6. j = Backspace(y)
  <2>1. \A z : console_putchar(z, BS) = Backspace(z)
    BY ConsoleAssumption DEF console_putchar
  <2>2. console_putchar(x, Blank) = y
    BY <1>4, Glyphs DEF Typed
  <2> QED
    BY <1>2, <2>1, <2>2, WriteThree
<1>7. /\ Shown(j) /\ j.row = k.row /\ j.col = k.col - 1
      /\ \A q \in Rows, h \in Cols : q # k.row \/ h # k.col - 1 => j.text[q][h] = k.text[q][h]
  <2>1. y.col > 0
    BY <1>1, <1>5
  <2>2. /\ Shown(j) /\ j.row = y.row /\ j.col = y.col - 1
        /\ \A q \in Rows, h \in Cols : q # y.row \/ h # y.col - 1 => j.text[q][h] = y.text[q][h]
    <3>1. Good(y)
      BY <1>5
    <3> QED
      BY ONLY <3>1, <1>6, <2>1, Backspaced
  <2> QED
    BY <1>5, <2>2
<1>8. /\ Front(b) \in Seq(Typed) /\ Len(Front(b)) = Len(b) - 1
      /\ \A i \in 1 .. Len(b) - 1 : Front(b)[i] = b[i]
  <2>1. \A i \in 1 .. Len(b) - 1 : b[i] \in Typed
    BY <1>0
  <2>2. PICK n : n = Len(b) - 1
    OBVIOUS
  <2>3. n \in Int /\ n >= 0 /\ n - 1 + 1 = n
    BY <1>0, <1>1, <2>2
  <2>4. /\ SubSeq(b, 1, n) \in Seq(Typed) /\ Len(SubSeq(b, 1, n)) = n
        /\ \A i \in 1 .. n : SubSeq(b, 1, n)[i] = b[i]
    BY <2>1, <2>2, <2>3, SubSeqProperties
  <2> QED
    BY <2>2, <2>4 DEF Front
<1>9. ASSUME NEW i \in 1 .. Len(b) - 1 PROVE j.text[j.row][s + i - 1] = b[i]
  <2>1. s + i - 1 \in Cols /\ s + i - 1 # k.col - 1 /\ i \in 1 .. Len(b)
    BY <1>0, <1>1, Sizes
  <2>2. k.text[k.row][s + i - 1] = b[i]
    BY <2>1 DEF Echoed
  <2> QED
    BY <1>1, <1>7, <2>1, <2>2
<1>10. j.text[j.row][s - 1] = Prompt
  <2>1. s - 1 \in Cols /\ s - 1 # k.col - 1
    BY <1>0, <1>1, Sizes
  <2> QED
    BY <1>1, <1>7, <2>1 DEF Echoed
<1>11. j.col = s + Len(Front(b))
  BY <1>0, <1>1, <1>7, <1>8
<1>12. \A i \in 1 .. Len(Front(b)) : j.text[j.row][s + i - 1] = Front(b)[i]
  BY <1>8, <1>9
<1> QED
  BY <1>0, <1>7, <1>8, <1>10, <1>11, <1>12 DEF Echoed

(* So the screen has the line and nothing else.                            *)
LEMMA EchoSeen ==
    ASSUME NEW k, Good(k), NEW b, NEW s, Echoed(k, b, s)
    PROVE  /\ k.col = s + Len(b)
           /\ \A i \in 1 .. Len(b) : k.screen[k.row][s + i - 1] = b[i]
           /\ \A c \in Cols : c >= k.col => k.screen[k.row][c] = Blank
           /\ k.screen[k.row][s - 1] = Prompt
<1>0. b \in Seq(Typed) /\ Len(b) \in Nat /\ s \in 1 .. COLS /\ s \in Nat /\ k.col = s + Len(b)
  BY Sizes DEF Echoed
<1>1. k.row \in Rows /\ k.col \in 0 .. COLS /\ Clean(k)
  BY Fields, Sizes DEF Good
<1>2. \A c \in Cols : k.screen[k.row][c] = vesa_draw_cell(k.text[k.row][c])
  BY DEF Echoed, Shown, DrawnRow
<1>3. ASSUME NEW i \in 1 .. Len(b) PROVE k.screen[k.row][s + i - 1] = b[i]
  <2>1. s + i - 1 \in Cols
    BY <1>0, <1>1, Sizes
  <2>2. k.text[k.row][s + i - 1] = b[i] /\ b[i] \in Typed
    BY <1>0 DEF Echoed
  <2> QED
    BY <1>2, <2>1, <2>2, Glyphs
<1>4. ASSUME NEW c \in Cols, c >= k.col PROVE k.screen[k.row][c] = Blank
  <2>1. k.text[k.row][c] = Blank
    BY <1>1, <1>4 DEF Clean
  <2>2. Blank \in Typed
    BY DEF Typed
  <2> QED
    BY <1>2, <2>1, <2>2, Glyphs
<1>5. k.screen[k.row][s - 1] = Prompt
  <2>1. s - 1 \in Cols /\ k.text[k.row][s - 1] = Prompt
    BY <1>0, Sizes DEF Echoed
  <2> QED
    BY <1>2, <2>1, Glyphs
<1> QED
  BY <1>0, <1>3, <1>4, <1>5

-----------------------------------------------------------------------------
(* The shell                                                               *)

(* The memory is that of a program just loaded.                            *)
Imaged(m, p) ==
    p \in Programs /\ Entry(p) # 0 /\ \E left : m = Loaded([a \in Mem |-> left], p)

(* The inductive invariant.  A line is echoed from its prompt on, and      *)
(* nothing is claimed of it any more once it has left its row; between two *)
(* commands no memory is claimed.                                          *)
ShellInv ==
    /\ Good(con)
    /\ cmd_buf \in Seq(Letter \union {Blank, Other})
    /\ ~Waiting => plain = FALSE
    /\ Waiting => mem = Unknown
    /\ plain = TRUE => Echoed(con, cmd_buf, start)
    /\ mem # Unknown => Imaged(mem, image)
    /\ plain \in BOOLEAN

LEMMA FrontTyped ==
    ASSUME NEW T, NEW b \in Seq(T), b # <<>>
    PROVE  Front(b) \in Seq(T)
<1>1. Len(b) \in Nat /\ Len(b) > 0 /\ \A i \in 1 .. Len(b) - 1 : b[i] \in T
  OBVIOUS
<1>2. PICK n : n = Len(b) - 1
  OBVIOUS
<1>3. SubSeq(b, 1, n) \in Seq(T)
  BY <1>1, <1>2, SubSeqProperties
<1> QED
  BY <1>2, <1>3 DEF Front

LEMMA WrittenGood ==
    ASSUME NEW k, Good(k)
    PROVE  /\ Good(console_write(k, <<NL>>)) /\ Good(console_write(k, Message))
           /\ Good(console_write(k, <<NL>> \o Message))
BY MessageTyped, WriteGood

LEMMA InitGood == Good(console_write(console_init, Message))
BY ClearedGood, WrittenGood DEF console_init

(* A step that ends with a prompt.                                         *)
LEMMA FreshKeeps ==
    ASSUME NEW k, Good(k), con' = Prompted(k), cmd_buf' = <<>>, start' = Prompted(k).col, plain' = TRUE,
           Waiting', mem' = Unknown
    PROVE  ShellInv'
<1>1. Good(con') /\ Echoed(con', <<>>, con'.col)
  BY PromptEchoed
<1>2. Echoed(con', cmd_buf', start')
  BY <1>1
<1>3. cmd_buf' \in Seq(Letter \union {Blank, Other})
  OBVIOUS
<1> QED
  BY <1>1, <1>2, <1>3 DEF ShellInv

(* A step of a program: nothing is claimed of the line or the memory.      *)
LEMMA ProgramKeeps ==
    ASSUME ShellInv, ~Waiting, Good(con'), mem' = Unknown, UNCHANGED <<cmd_buf, start, plain>>
    PROVE  ShellInv'
BY DEF ShellInv

LEMMA NoProgramEmpty == Entry(NoProgram) = 0
<1>1. NoProgram.cmds = <<>>
  BY DEF NoProgram
<1>2. Gives(NoProgram) = {}
  BY <1>1 DEF Gives
<1> QED
  BY <1>2 DEF Entry

LEMMA ShellInit ==
    ASSUME Init
    PROVE  ShellInv
<1>1. Good(con) /\ Echoed(con, <<>>, con.col)
  BY InitGood, PromptEchoed DEF Init, shell_init
<1>2. /\ cmd_buf = <<>> /\ mem = Unknown /\ start = con.col /\ plain = TRUE /\ Waiting
  BY DEF Init, Waiting
<1>3. Echoed(con, cmd_buf, start)
  BY <1>1, <1>2
<1> QED
  BY <1>1, <1>2, <1>3 DEF ShellInv

LEMMA ShellStep ==
    ASSUME ShellInv, [Next]_vars
    PROVE  ShellInv'
<1>0. /\ Good(con) /\ cmd_buf \in Seq(Letter \union {Blank, Other})
      /\ Waiting => mem = Unknown
      /\ plain = TRUE => Echoed(con, cmd_buf, start)
  BY DEF ShellInv
<1>w. UNCHANGED image => Waiting' = Waiting
  BY DEF Waiting
<1>1. CASE Enter
  <2>1. PICK c \in execute(console_write(con, <<NL>>), cmd_buf) : Fresh(c)
    BY <1>1 DEF Enter
  <2>2. Good(c)
    BY <1>0, <2>1, WrittenGood, ExecuteGood
  <2>3. Waiting' /\ mem' = Unknown
    BY <1>0, <1>1 DEF Enter, Waiting
  <2> QED
    BY <2>1, <2>2, <2>3, FreshKeeps DEF Fresh
<1>2. CASE cmd_reboot
  <2>1. Waiting' /\ mem' = Unknown
    BY <1>2 DEF cmd_reboot, Waiting
  <2> QED
    BY <1>2, <2>1, InitGood, FreshKeeps DEF cmd_reboot, shell_init
<1>3. CASE ExecFails
  <2>1. Waiting' /\ mem' = Unknown
    BY <1>0, <1>3 DEF ExecFails, Waiting
  <2>2. Fresh(console_write(con, <<NL>> \o Message)) /\ Good(console_write(con, <<NL>> \o Message))
    BY <1>0, <1>3, WrittenGood DEF ExecFails
  <2> QED
    BY <2>1, <2>2, FreshKeeps DEF Fresh
<1>4. CASE Erase
  <2>1. Waiting' /\ mem' = Unknown /\ plain' = plain /\ start' = start
    BY <1>0, <1>4 DEF Erase, Waiting
  <2>2. /\ cmd_buf # <<>> /\ cmd_buf' = Front(cmd_buf) /\ con' = console_write(con, <<BS, Blank, BS>>)
    BY <1>4 DEF Erase
  <2>3. cmd_buf' \in Seq(Letter \union {Blank, Other})
    BY <1>0, <2>2, FrontTyped
  <2>4. Good(con')
    <3>1. <<BS, Blank, BS>> \in Seq(Chars)
      BY DEF Chars
    <3> QED
      BY <1>0, <2>2, <3>1, WriteGood
  <2>5. plain = TRUE => Echoed(con', cmd_buf', start')
    <3>1. ASSUME plain = TRUE PROVE Echoed(con', cmd_buf', start)
      BY <1>0, <2>2, <3>1, EraseEchoed
    <3> QED
      BY <2>1, <3>1
  <2> QED
    BY <2>1, <2>3, <2>4, <2>5 DEF ShellInv
<1>5. ASSUME NEW c \in Letter \union {Blank, Other}, Type(c) PROVE ShellInv'
  <2>1. Waiting' /\ mem' = Unknown /\ start' = start
    BY <1>0, <1>5 DEF Type, Waiting
  <2>2. /\ cmd_buf' = Append(cmd_buf, c) /\ con' = console_putchar(con, c)
        /\ plain' = (plain /\ c # Other /\ start + Len(cmd_buf) < COLS)
    BY <1>5 DEF Type
  <2>3. cmd_buf' \in Seq(Letter \union {Blank, Other})
    BY <1>0, <2>2
  <2>4. Good(con')
    BY <1>0, <2>2, PutcharGood DEF Chars
  <2>5. plain' \in BOOLEAN
    BY <2>2
  <2>6. ASSUME plain' = TRUE PROVE Echoed(con', cmd_buf', start')
    <3>1. plain = TRUE /\ c # Other /\ start + Len(cmd_buf) < COLS
      BY <2>2, <2>6 DEF ShellInv
    <3>2. c \in Typed
      BY <3>1 DEF Typed
    <3> QED
      BY <1>0, <2>1, <2>2, <3>1, <3>2, TypeEchoed
  <2> QED
    BY <2>1, <2>3, <2>4, <2>5, <2>6 DEF ShellInv
<1>6. ASSUME NEW p \in Programs, ExecRuns(p) PROVE ShellInv'
  <2>1. /\ Entry(p) # 0 /\ image' = p /\ cmd_buf' = <<>> /\ plain' = FALSE
        /\ con' = console_write(con, <<NL>> \o Message)
    BY <1>6 DEF ExecRuns
  <2>2. PICK left : mem' = Loaded([a \in Mem |-> left], p)
    BY <1>6 DEF ExecRuns
  <2>3. Good(con')
    BY <1>0, <2>1, WrittenGood
  <2>4. ~Waiting'
    BY <2>1, NoProgramEmpty DEF Waiting
  <2>5. Imaged(mem', image')
    BY <2>1, <2>2 DEF Imaged
  <2>6. cmd_buf' \in Seq(Letter \union {Blank, Other})
    BY <2>1
  <2> QED
    BY <2>1, <2>3, <2>4, <2>5, <2>6 DEF ShellInv
<1>7. ASSUME NEW c \in {Text, NL, BS}, SysWrite(c) PROVE ShellInv'
  <2>1. Good(console_putchar(con, c))
    BY <1>0, PutcharGood DEF Chars
  <2> QED
    BY <1>7, <2>1, ProgramKeeps DEF SysWrite
<1>8. CASE SysUnknown
  <2>1. PICK q : q = <<Plain(<<Text>>), Converted(<<Text>>), Plain(<<NL>>)>>
    OBVIOUS
  <2>2. /\ Len(q) = 3 /\ q[1] = Plain(<<Text>>) /\ q[2] = Converted(<<Text>>) /\ q[3] = Plain(<<NL>>)
    BY <2>1
  <2>3. /\ Plain(<<Text>>).chars = <<Text>> /\ Converted(<<Text>>).chars = <<Text>>
        /\ Plain(<<NL>>).chars = <<NL>>
    BY DEF Plain, Converted
  <2>4. q[1].chars \in Seq(Chars) /\ q[2].chars \in Seq(Chars) /\ q[3].chars \in Seq(Chars)
    BY ONLY <2>2, <2>3, MessageTyped
  <2>5. 1 .. Len(q) = {1, 2, 3} /\ Len(q) \in Nat
    BY <2>2
  <2>6. \A i \in 1 .. Len(q) : q[i].chars \in Seq(Chars)
    BY ONLY <2>4, <2>5
  <2>7. Good(console_printf(con, q))
    BY <1>0, <2>5, <2>6, PrintfGood
  <2> QED
    BY <1>8, <2>1, <2>7, ProgramKeeps DEF SysUnknown
<1>9. CASE disp_flush
  <2>1. con' = [con EXCEPT !.screen = [r \in DOMAIN con.screen |-> [c \in Cols |-> Dirt]]]
    BY <1>9 DEF disp_flush
  <2>2. con \in ConSet /\ Clean(con)
    BY <1>0 DEF Good
  <2>3. [r \in DOMAIN con.screen |-> [c \in Cols |-> Dirt]] \in [Screen -> [Cols -> Chars \union {Dirt}]]
    BY <2>2, Fields
  <2>4. con' \in ConSet /\ con'.text = con.text /\ con'.row = con.row /\ con'.col = con.col
    BY <2>1, <2>2, <2>3 DEF ConSet
  <2>5. Good(con')
    BY <2>2, <2>4 DEF Good, Clean
  <2> QED
    BY <1>9, <2>5, ProgramKeeps DEF disp_flush
<1>10. CASE user_prog_launch
  <2>1. /\ cmd_buf' = <<>> /\ plain' = FALSE /\ mem' = Unknown
        /\ con' = console_write(con, <<NL>> \o Message)
    BY <1>0, <1>10 DEF user_prog_launch
  <2>2. Good(con')
    BY <1>0, <2>1, WrittenGood
  <2>3. cmd_buf' \in Seq(Letter \union {Blank, Other})
    BY <2>1
  <2> QED
    BY <2>1, <2>2, <2>3 DEF ShellInv
<1>11. CASE ExecEnds
  <2>1. Waiting' /\ mem' = Unknown
    BY <1>11 DEF ExecEnds, Waiting
  <2>2. Fresh(console_write(con, Message)) /\ Good(console_write(con, Message))
    BY <1>0, <1>11, WrittenGood DEF ExecEnds
  <2> QED
    BY <2>1, <2>2, FreshKeeps DEF Fresh
<1>12. CASE UNCHANGED vars
  BY <1>12 DEF ShellInv, vars, Waiting
<1> QED
  BY <1>1, <1>2, <1>3, <1>4, <1>5, <1>6, <1>7, <1>8, <1>9, <1>10, <1>11, <1>12 DEF Next

(* The inductive invariant of the shell: the console has nothing behind    *)
(* its cursor, a plain line is on the screen and in cmd_buf alike, and what*)
(* is in memory when a program starts is what the loader made of it.       *)
THEOREM ShellInvariant == Spec => []ShellInv
<1>1. Init => ShellInv
  BY ShellInit
<1>2. ShellInv /\ [Next]_vars => ShellInv'
  BY ShellStep
<1> QED
  BY <1>1, <1>2, PTL DEF Spec

(* console_putchar leaves every cell behind the cursor blank, for every    *)
(* size of the screen and whatever the shell, its commands and the programs*)
(* print: the newline at the end of a full row destroys nothing, and no    *)
(* scroll leaves an old character below the cursor.                        *)
THEOREM InkSafe == Spec => []InkBehindCursor
<1>1. ShellInv => InkBehindCursor
  <2>1. ASSUME Good(con) PROVE InkBehindCursor
    BY <2>1, Fields DEF Good, Clean, InkBehindCursor, Screen
  <2> QED
    BY <2>1 DEF ShellInv
<1> QED
  BY <1>1, ShellInvariant, PTL

(* shell_input: as long as the line stays in its row and is printable, the *)
(* screen shows behind the prompt what Enter executes, through any number  *)
(* of keys and backspaces and whatever a program has painted before.       *)
THEOREM EchoSafe == Spec => []EchoFaithful
<1>1. ShellInv => EchoFaithful
  <2>1. ASSUME ShellInv, Waiting, plain PROVE Good(con) /\ Echoed(con, cmd_buf, start)
    BY <2>1 DEF ShellInv
  <2>2. ASSUME Good(con), Echoed(con, cmd_buf, start) PROVE EchoFaithful
    BY <2>2, EchoSeen DEF EchoFaithful
  <2>3. ASSUME ~ (Waiting /\ plain) PROVE EchoFaithful
    BY <2>3 DEF EchoFaithful
  <2> QED
    BY <2>1, <2>2, <2>3
<1> QED
  BY <1>1, ShellInvariant, PTL

(* mach_o_load: of every well linked program it leaves exactly the image,  *)
(* in whatever memory the programs before it have left, and an entry point *)
(* that LC_MAIN gives is in one of its segments.                           *)
THEOREM ImageSafe == Spec => []ImageExact
<1>1. ShellInv => ImageExact
  <2>1. ASSUME Imaged(mem, image) PROVE ImageExact
    <3>1. image \in Programs /\ Entry(image) # 0
      BY <2>1 DEF Imaged
    <3>2. PICK left : mem = Loaded([a \in Mem |-> left], image)
      BY <2>1 DEF Imaged
    <3>3. image.cmds \in Seq(LoadCommand) /\ WellLinked(image)
      BY <3>1, ProgramAssumption
    <3>4. \A i \in Segments(image) : There(mem, image, i)
      BY <3>2, <3>3, ImageLoaded
    <3>5. image.cmds[LastGiving(image)].cmd = "main"
            => \E i \in Segments(image) : Entry(image) \in Span(image, i)
      BY <3>1, <3>3, EntryInside
    <3> QED
      BY <3>4, <3>5 DEF ImageExact, There
  <2>2. ASSUME mem = Unknown PROVE ImageExact
    BY <2>2 DEF ImageExact
  <2> QED
    BY <2>1, <2>2 DEF ShellInv
<1> QED
  BY <1>1, ShellInvariant, PTL

(* When what macho_pack.py writes is well linked: exactly when the code is *)
(* not empty, fits into the memory, and the entry point is inside it.  The *)
(* script checks none of these; nothing else is asked of its callers.      *)
THEOREM PackedLinked ==
    ASSUME NEW name, NEW size \in Nat, NEW entry \in Nat
    PROVE  /\ pack(name, size, entry).cmds \in Seq(LoadCommand)
           /\ WellLinked(pack(name, size, entry)) <=> size \in 1 .. MemSize /\ entry < size
<1>0. SLIDE \in Nat \ {0} /\ MemSize \in Nat
  BY ProgramAssumption
<1>1. PICK g : g = Segment(SLIDE, size, CODE_OFF, size)
  OBVIOUS
<1>2. /\ g \in LoadCommand /\ g.cmd = "segment" /\ g.vmaddr = SLIDE /\ g.vmsize = size
      /\ g.filesize = size
  BY <1>0, <1>1 DEF Segment, LoadCommand, CODE_OFF
<1>3. PICK e : e = [cmd |-> "main", entryoff |-> entry]
  OBVIOUS
<1>4. e \in LoadCommand /\ e.cmd = "main" /\ e.entryoff = entry
  BY <1>0, <1>3 DEF LoadCommand
<1>5. PICK p : p = pack(name, size, entry)
  OBVIOUS
<1>6. p.cmds = <<g, e>>
  BY <1>1, <1>3, <1>5 DEF pack
<1>7. p.cmds \in Seq(LoadCommand) /\ Len(p.cmds) = 2 /\ p.cmds[1] = g /\ p.cmds[2] = e
  BY <1>2, <1>4, <1>6
<1>8. 1 .. 2 = {1, 2}
  OBVIOUS
<1>9. Gives(p) = {2} /\ Segments(p) = IF size > 0 THEN {1} ELSE {}
  BY <1>0, <1>2, <1>4, <1>7, <1>8 DEF Segments, Gives
<1>10. CASE size = 0
  <2>1. Segments(p) = {} /\ 2 \in Gives(p) /\ p.cmds[2].cmd = "main"
    BY <1>4, <1>7, <1>9, <1>10
  <2>2. ~ WellLinked(p)
    BY <2>1 DEF WellLinked
  <2> QED
    BY <1>0, <1>5, <1>7, <1>10, <2>2
<1>11. CASE size > 0
  <2>1. Segments(p) = {1}
    BY <1>9, <1>11
  <2>2. FileBase(p, 2) = SLIDE
    <3>1. 1 \in Segments(p) /\ Filled(p, 2) = {1}
      BY <1>0, <1>2, <1>4, <1>7, <1>8, <1>11, <2>1 DEF Filled
    <3>2. (CHOOSE j \in {1} : \A k \in {1} : j <= k) = 1
      OBVIOUS
    <3> QED
      BY <1>2, <1>7, <3>1, <3>2 DEF FileBase, Filled
  <2>3. WellLinked(p) <=> /\ SLIDE > 0 /\ size <= size /\ SLIDE <= SLIDE
                          /\ SLIDE + size <= SLIDE + MemSize /\ entry < size
    BY <1>0, <1>2, <1>4, <1>7, <1>9, <2>1, <2>2 DEF WellLinked
  <2> QED
    BY <1>0, <1>5, <1>7, <1>11, <2>3
<1> QED
  BY <1>10, <1>11

=============================================================================
