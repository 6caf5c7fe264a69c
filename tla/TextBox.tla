------------------------------- MODULE TextBox -------------------------------
(***************************************************************************)
(* The box that shows a text (lxdialog/textbox.c).  It keeps no line       *)
(* numbers: page points behind the last line read, and the lines above are *)
(* found by going back from there, by as many as page_length says were     *)
(* printed.                                                                *)
(*                                                                         *)
(* A text is a number of lines, the last of them with or without a newline *)
(* at its end; page is the line it points to, and lines + 1 is the '\0'.   *)
(***************************************************************************)
EXTENDS Lxdialog

CONSTANTS Texts,       \* the texts: [lines, newline, height], height 0 for most of the screen
          max_hscroll  \* MAX_LEN: bound of scrolling sideways

ASSUME TextsAssumption ==
  /\ Texts \subseteq [lines : Nat \ {0}, newline : BOOLEAN, height : Nat \ (1..4)]
  /\ max_hscroll \in Nat

VARIABLES tbox  \* the static and local variables of dialog_textbox, or Closed
textVars == <<lxVars, tbox>>

NoLine      == 0   \* no line on a row
Eof(box)    == box.text.lines + 1
OnRow(box, line) == IF line <= box.text.lines THEN line ELSE NoLine

(* Back n lines; at the '\0', the first is that of which nothing was read. *)
(* A slip: the '\0' counts as a line.                                      *)
BackAllLines(box, n) ==
  [box EXCEPT !.page = MAX(1, @ - n), !.begin_reached = box.page - n <= 1, !.end_reached = FALSE]
back_lines(box, n) ==
  LET waste == n > 0 /\ box.page = Eof(box) /\ box.end_reached
      m     == IF waste THEN n - 1 ELSE n
  IN  [box EXCEPT !.page = MAX(1, @ - m),
                  !.begin_reached = m > 0 /\ box.page - m <= 1,
                  !.end_reached = IF waste THEN FALSE ELSE @]

(* The line with which get_line notices the end of the text, at the latest *)
(* the line at page.                                                       *)
Ending(box) ==
  MAX(box.page, IF box.text.newline THEN Eof(box) ELSE box.text.lines)
(* get_line n times, and what print_page counts on the way.                *)
get_lines(box, n) ==
  [box EXCEPT !.page = MIN(@ + n, Eof(box)),
              !.end_reached = IF n = 0 THEN @ ELSE box.page + n > Ending(box),
              !.page_length = MIN(n, Ending(box) - box.page + 1)]
print_page(box) ==
  [get_lines(box, box.boxh) EXCEPT
     !.rows = [r \in 0 .. box.boxh - 1 |-> OnRow(box, box.page + r)]]

Layout(l, box) ==
  LET height == IF box.text.height # 0 THEN box.text.height ELSE l - 4
  IN  print_page([box EXCEPT !.height = height, !.boxh = height - 4])
DrawText(l, box) ==
  IF l < 8 THEN Returns(NoRet) /\ tbox' = Closed
  ELSE Opens("textbox") /\ tbox' = Layout(l, box)
(* What it returns, no caller looks at.                                    *)
dialog_textbox(text) ==
  DrawText(lines, [text |-> text, page |-> 1, begin_reached |-> TRUE, end_reached |-> FALSE,
                   page_length |-> 0, hscroll |-> 0, height |-> 0, boxh |-> 0,
                   rows |-> [r \in 0 .. -1 |-> NoLine]])

-----------------------------------------------------------------------------
TextOpen == shown = "textbox"
Shows(box) ==
  /\ TextOpen /\ tbox' = box
  /\ UNCHANGED lxVars
FirstPage ==
  /\ TextOpen /\ ~tbox.begin_reached
  /\ Shows(print_page([tbox EXCEPT !.begin_reached = TRUE, !.page = 1]))
LastPage ==
  /\ TextOpen
  /\ Shows(print_page(back_lines([tbox EXCEPT !.end_reached = TRUE, !.page = Eof(tbox)],
                                 tbox.boxh)))
(* Only the first row is printed, the others are scrolled down.            *)
LineUp ==
  /\ TextOpen /\ ~tbox.begin_reached
  /\ LET box == back_lines(tbox, tbox.page_length + 1)
     IN  Shows([get_lines(box, tbox.boxh) EXCEPT
                  !.rows = [r \in DOMAIN tbox.rows |->
                              IF r = 0 THEN OnRow(box, box.page) ELSE tbox.rows[r - 1]]])
PageUp ==
  /\ TextOpen /\ ~tbox.begin_reached
  /\ Shows(print_page(back_lines(tbox, tbox.page_length + tbox.boxh)))
LineDown ==
  /\ TextOpen /\ ~tbox.end_reached
  /\ Shows([get_lines(tbox, 1) EXCEPT
              !.begin_reached = FALSE, !.page_length = tbox.page_length,
              !.rows = [r \in DOMAIN tbox.rows |->
                          IF r = tbox.boxh - 1 THEN OnRow(tbox, tbox.page) ELSE tbox.rows[r + 1]]])
PageDown ==
  /\ TextOpen /\ ~tbox.end_reached
  /\ Shows(print_page([tbox EXCEPT !.begin_reached = FALSE]))
(* The page is printed again, further to the left or right.                *)
Sideways ==
  /\ TextOpen
  /\ \E h \in {0, tbox.hscroll - 1, tbox.hscroll + 1} \cap (0 .. max_hscroll) :
       /\ h # tbox.hscroll
       /\ Shows(print_page(back_lines([tbox EXCEPT !.hscroll = h], tbox.page_length)))
TextExit ==
  /\ TextOpen
  /\ Returns(NoRet) /\ tbox' = Closed
  /\ UNCHANGED <<lines, items>>
TextResize ==
  /\ TextOpen /\ Resized
  /\ DrawText(lines', back_lines(tbox, tbox.height))
  /\ UNCHANGED items

TextKey ==
  \/ FirstPage \/ LastPage \/ LineUp \/ PageUp \/ LineDown \/ PageDown
  \/ Sideways \/ TextExit \/ TextResize

-----------------------------------------------------------------------------
(* The box in any program.                                                 *)
TextInit ==
  /\ lines \in Heights /\ items \in ItemList
  /\ shown = "none" /\ ret = NoRet /\ tbox = Closed
TextElsewhere ==
  /\ shown # "textbox" /\ shown' # "textbox"
  /\ lines' \in Heights
  /\ UNCHANGED tbox
TextNext ==
  \/ shown = "none" /\ UNCHANGED lines /\ \E text \in Texts : dialog_textbox(text)
  \/ TextKey
  \/ TextElsewhere
TextSpec == TextInit /\ [][TextNext]_textVars

(* What back_lines(page_length) goes back to.                              *)
TopLine(box) ==
  box.page - box.page_length + (IF box.page = Eof(box) /\ box.end_reached THEN 1 ELSE 0)

(* The rows hold consecutive lines of the text, from the one page and      *)
(* page_length lead back to, so that every key moves from what is on the   *)
(* screen; and the flags tell truly whether there is more above or below   *)
(* (textbox.c:125-261).  A text without a newline at its end is only used  *)
(* for messages.                                                           *)
TextShown ==
  TextOpen /\ tbox.text.newline /\ tbox.boxh > 0 =>
    /\ tbox.rows = [r \in 0 .. tbox.boxh - 1 |-> OnRow(tbox, TopLine(tbox) + r)]
    /\ tbox.begin_reached <=> TopLine(tbox) = 1
    /\ tbox.end_reached <=> TopLine(tbox) + tbox.boxh > Eof(tbox)

(* Scrolling sideways leaves the lines of a text where they are            *)
(* (textbox.c:224-250).                                                    *)
SidewaysStays ==
  [][TextOpen /\ TextOpen' /\ tbox.text.newline /\ tbox'.hscroll # tbox.hscroll
       => tbox'.rows = tbox.rows]_textVars
=============================================================================
