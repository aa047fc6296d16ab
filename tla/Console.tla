------------------------------- MODULE Console -------------------------------
(***************************************************************************)
(* The framebuffer console of the kernel, src/p2-page-tables/kernel/fb.c:  *)
(* glyphs are drawn into the pixels row by row, lines wrap when the next   *)
(* glyph comes, and the pixels move up when the last line is full.  The    *)
(* screen is whatever the loader found; glyphs need not fill it exactly.   *)
(***************************************************************************)
EXTENDS Integers, Sequences, SequencesExt

CONSTANTS Screen,                   \* framebuffers: [width, height] in pixels
          FONT_WIDTH, FONT_HEIGHT,  \* pixels of a glyph
          Glyph,                    \* the visible characters
          Hello                     \* HELLO_STATEMENT

Null == "nul"
Newline == "newline"
NotAscii == "not ascii"
Char == Glyph \cup {Null, Newline, NotAscii}
Dark == <<>>

ASSUME ConsoleAssumption ==
  /\ FONT_WIDTH \in Nat \ {0} /\ FONT_HEIGHT \in Nat \ {0}
  /\ \A s \in Screen :    \* a glyph fits
       s.width \in Nat /\ s.height \in Nat /\ s.width >= FONT_WIDTH /\ s.height >= FONT_HEIGHT
  /\ "?" \in Glyph /\ {Null, Newline, NotAscii} \cap Glyph = {}
  /\ Hello \in Seq(Char)

VARIABLES screen,   \* the framebuffer's size
          console,  \* [Fb, PosX, PosY, fault]: a pixel is part of a glyph, or dark
          lines     \* the lines still to be seen of what has been printed

consoleVars == <<screen, console, lines>>

MaxX == screen.width \div FONT_WIDTH
MaxY == screen.height \div FONT_HEIGHT
Pixels == 0..(screen.width * screen.height - 1)

-----------------------------------------------------------------------------
\* Mutant: the last row of text is left as it was.
fb_scrollup_stale(c) ==
  LET row == screen.width * FONT_HEIGHT
      count == row * (MaxY - 1)
  IN  IF MaxY < 2 THEN [c EXCEPT !.fault = TRUE]
      ELSE [c EXCEPT !.Fb = [i \in DOMAIN @ |-> IF i < count THEN @[i + row] ELSE @[i]]]

\* The first loop counts down to 0 from the pixels of all rows but one: from 0
\* rows it runs out of the framebuffer.
fb_scrollup(c) ==
  LET row == screen.width * FONT_HEIGHT
      count == row * (MaxY - 1)
  IN  IF MaxY < 2 THEN [c EXCEPT !.fault = TRUE]
      ELSE [c EXCEPT !.Fb = [i \in DOMAIN @ |->
              IF i < count THEN @[i + row] ELSE IF i < count + row THEN Dark ELSE @[i]]]

NextLine(c) == [c EXCEPT !.PosX = 0, !.PosY = @ + 1]
Scrolled(c) == IF c.PosY = MaxY THEN fb_scrollup([c EXCEPT !.PosY = @ - 1]) ELSE c

\* Pixel <<i, j>> of the glyph goes to column i and row j of the cell.
Drawn(c, ch) ==
  [c EXCEPT
     !.Fb = [k \in DOMAIN @ |->
       LET i == (k % screen.width) - c.PosX * FONT_WIDTH
           j == (k \div screen.width) - c.PosY * FONT_HEIGHT
       IN  IF i \in 0..(FONT_WIDTH - 1) /\ j \in 0..(FONT_HEIGHT - 1) THEN <<ch, i, j>> ELSE @[k]],
     !.PosX = @ + 1]

\* A full line is left only when another character comes.
fb_output(c, char) ==
  LET ch == IF char = NotAscii THEN "?" ELSE char
      placed == Scrolled(IF ch = Newline \/ c.PosX = MaxX THEN NextLine(c) ELSE c)
  IN  IF ch = Null \/ c.fault THEN c
      ELSE IF ch = Newline \/ placed.fault THEN placed
      ELSE Drawn(placed, ch)

-----------------------------------------------------------------------------
\* What a reader expects: lines of at most MaxX glyphs, the last MaxY of them.

Lined(ls, char) ==
  CASE char = Null -> ls
    [] char = Newline -> Append(ls, <<>>)
    [] OTHER ->
         LET ch == IF char = NotAscii THEN "?" ELSE char
         IN  IF Len(Last(ls)) = MaxX THEN Append(ls, <<ch>>)
             ELSE [ls EXCEPT ![Len(ls)] = Append(@, ch)]

Latest(ls) == IF Len(ls) <= MaxY THEN ls ELSE SubSeq(ls, Len(ls) - MaxY + 1, Len(ls))

Seen(ls, char) == Latest(Lined(ls, char))

Expected(ls, text) == FoldLeft(Seen, ls, text)

\* printf and puts: the characters of a text, one after the other.
printf(text) ==
  /\ console' = FoldLeft(fb_output, console, text)
  /\ lines' = Expected(lines, text)
  /\ UNCHANGED screen

ConsoleInit ==
  /\ screen \in Screen
  /\ console = [Fb |-> [i \in Pixels |-> <<"firmware">>], PosX |-> 0, PosY |-> 0, fault |-> FALSE]
  /\ lines = <<>>

fb_init ==
  /\ console' = FoldLeft(fb_output, [console EXCEPT !.Fb = [i \in Pixels |-> Dark]], Hello)
  /\ lines' = Expected(<< <<>> >>, Hello)
  /\ UNCHANGED screen

-----------------------------------------------------------------------------
\* Every pixel shows what the last lines printed put there, whatever was wrapped
\* and scrolled before, on screens that glyphs do not fill exactly; the cursor
\* is at the end of them; only a screen of one line makes the console run away
\* (fb.c:45-95).
ScreenShowsTail ==
  IF console.fault THEN MaxY < 2
  ELSE lines # <<>> =>
       /\ console.PosY = Len(lines) - 1 /\ console.PosX = Len(Last(lines))
       /\ \A k \in Pixels :
            LET px == k % screen.width
                py == k \div screen.width
                x == px \div FONT_WIDTH + 1
                y == py \div FONT_HEIGHT + 1
            IN  console.Fb[k] =
                  IF y \in DOMAIN lines /\ x \in DOMAIN lines[y]
                  THEN <<lines[y][x], px % FONT_WIDTH, py % FONT_HEIGHT>>
                  ELSE Dark
=============================================================================
