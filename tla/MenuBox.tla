------------------------------- MODULE MenuBox -------------------------------
(***************************************************************************)
(* The menu box (lxdialog/menubox.c): a window of a list of items, with    *)
(* one of them highlighted.  What is on the screen is kept apart from what *)
(* the program believes to be there: a key only redraws some rows, and     *)
(* scrolls the others.                                                     *)
(*                                                                         *)
(* Rows, choice and item numbers count from 0, as in the code.  A hotkey   *)
(* may lead to any row, as the names of the items are left out.            *)
(***************************************************************************)
EXTENDS Lxdialog

VARIABLES mbox,     \* the local variables of dialog_menu and its window, or Closed
          s_scroll  \* where the caller keeps the scroll position
menuVars == <<lxVars, mbox, s_scroll>>

Row(n, lit) == [item |-> n, lit |-> lit]
Empty       == Row(-1, FALSE)

(* do_resize: where the window starts.  The saved position is used if it   *)
(* shows the active item; else the window is moved only if it has to be.   *)
(* first_item keeps its value when the saved position is refused.          *)
ActiveChoice(list, active, choice) ==
  item_n(list, LAMBDA i : active # NoData /\ i.data = active, choice)
Keeps(list, scroll, choice, max) ==
  scroll <= choice /\ scroll + max > choice /\ scroll >= 0 /\ scroll + max <= item_count(list)
Centred(list, choice, max) ==
  IF choice >= item_count(list) - max \div 2 THEN item_count(list) - max ELSE choice - max \div 2
(* A slip: the item is taken for the row.                                  *)
PlacedAsSaved(list, choice, first, max) ==
  [scroll |-> IF Keeps(list, s_scroll, choice, max) THEN s_scroll ELSE 0,
   first |-> IF Keeps(list, s_scroll, choice, max) THEN s_scroll ELSE first,
   choice |-> MIN(choice, MAX(0, max - 1))]
Placed(list, choice, first, max) ==
  IF Keeps(list, s_scroll, choice, max)
  THEN [scroll |-> s_scroll, first |-> s_scroll, choice |-> choice - s_scroll]
  ELSE IF choice < max THEN [scroll |-> 0, first |-> first, choice |-> choice]
  ELSE LET scroll == Centred(list, choice, max)
       IN  [scroll |-> scroll, first |-> scroll, choice |-> choice - scroll]
Window(l, list, active, old) ==
  LET max == MIN(l - 14, item_count(list))
      at  == Placed(list, ActiveChoice(list, active, old.choice), old.first, max)
  IN  [active |-> active, max |-> max, button |-> old.button, scrollok |-> FALSE,
       scroll |-> at.scroll, first |-> at.first, choice |-> at.choice,
       rows |-> [r \in 0 .. l - 15 |-> IF r < max THEN Row(at.first + r, r = at.choice) ELSE Empty],
       slipped |-> at.first # at.scroll]

(* An item past the end of the list is no item: the program crashes.       *)
PastTheEnd(list, box) == \E r \in 0 .. box.max - 1 : box.rows[r].item >= item_count(list)
Draw(l, list, active, old) ==
  IF l < 15 THEN Returns(TooSmall) /\ mbox' = Closed
  ELSE IF PastTheEnd(list, Window(l, list, active, old))
  THEN shown' = "crashed" /\ ret' = NoRet /\ mbox' = Closed
  ELSE Opens("menu") /\ mbox' = Window(l, list, active, old)
Fresh == [choice |-> 0, first |-> 0, button |-> 0]
dialog_menu(active) ==
  /\ shown = "none"
  /\ Draw(lines, items', active, Fresh)
  /\ UNCHANGED <<lines, s_scroll>>

-----------------------------------------------------------------------------
(* print_item.  While the window may scroll, a long item on its last row   *)
(* scrolls it.                                                             *)
LastRow == lines - 15
IsLong(n) == n + 1 \in DOMAIN items /\ items[n + 1].long
print_item(box, n, row, lit) ==
  IF items = <<>> \/ row \notin DOMAIN box.rows THEN box
  ELSE IF box.scrollok /\ row = LastRow /\ IsLong(n)
  THEN [box EXCEPT !.slipped = TRUE,
                   !.rows = [r \in DOMAIN box.rows |->
                               IF r = LastRow THEN Row(-1, lit)
                               ELSE IF r + 1 = row THEN Row(n, lit) ELSE box.rows[r + 1]]]
  ELSE [box EXCEPT !.rows[row] = Row(n, lit)]
Dimmed(box)   == print_item(box, box.scroll + box.choice, box.choice, FALSE)
Lit(box)      == print_item(box, box.scroll + box.choice, box.choice, TRUE)

(* do_scroll by n lines, one by one, with the new rows printed.            *)
Scrolled(box, n) ==
  IF n = 0 THEN box
  ELSE [box EXCEPT !.scroll = @ + n, !.scrollok = FALSE,
                   !.rows = [r \in DOMAIN box.rows |->
                               IF r + n \in DOMAIN box.rows THEN box.rows[r + n]
                               ELSE Row(box.scroll + n + r, FALSE)]]

MenuOpen == shown = "menu"
Moves(box) ==
  /\ mbox' = Lit(box)
  /\ UNCHANGED <<lxVars, s_scroll>>
KeyUp ==
  LET box == Dimmed(mbox)
  IN  Moves(IF box.choice < 2 /\ box.scroll # 0 THEN Scrolled(box, -1)
            ELSE [box EXCEPT !.choice = MAX(@ - 1, 0)])
(* A slip: one line too many is scrolled.                                  *)
KeyDownPastTheEnd ==
  LET box == Dimmed(Dimmed(mbox))
  IN  Moves(IF box.choice > box.max - 3 /\ box.scroll + box.max <= item_count(items)
            THEN Scrolled(box, 1)
            ELSE [box EXCEPT !.choice = MIN(@ + 1, box.max - 1)])
KeyDown ==
  LET box == Dimmed(Dimmed(mbox))
  IN  Moves(IF box.choice > box.max - 3 /\ box.scroll + box.max < item_count(items)
            THEN Scrolled(box, 1)
            ELSE [box EXCEPT !.choice = MIN(@ + 1, box.max - 1)])
(* Page up lets the window scroll, and only scrolling it forbids it again. *)
KeyPPage ==
  LET box == [Dimmed(mbox) EXCEPT !.scrollok = TRUE]
      n   == MIN(box.max, box.scroll)
  IN  Moves([Scrolled(box, -n) EXCEPT
               !.choice = IF box.max - n > 0 /\ @ > 0 THEN MAX(@ - (box.max - n), 0) ELSE @])
KeyNPage ==
  LET box == Dimmed(mbox)
      n   == MIN(box.max, item_count(items) - (box.scroll + box.max))
  IN  Moves([Scrolled(box, n) EXCEPT
               !.choice = IF box.max = 0 THEN @ ELSE MIN(@ + (box.max - n), box.max - 1)])
Hotkey ==
  \E row \in 0 .. mbox.max - 1 : Moves([Dimmed(mbox) EXCEPT !.choice = row])

MenuButton ==
  /\ MenuOpen
  /\ \E step \in {1, 2} : mbox' = [mbox EXCEPT !.button = (@ + step) % 3]
  /\ UNCHANGED <<lxVars, s_scroll>>

(* A key that acts on the highlighted item: select, help, y, n, m, space   *)
(* and the search return what they stand for, enter the button.            *)
MenuSelect ==
  /\ MenuOpen
  /\ \E r \in {mbox.button, 2, 3, 4, 5, 6, 7} : Returns(r)
  /\ s_scroll' = mbox.scroll
  /\ items' = item_set_selected(mbox.scroll + mbox.choice)
  /\ mbox' = Closed
  /\ UNCHANGED lines
MenuEscape ==
  /\ MenuOpen
  /\ Returns(KEY_ESC) /\ mbox' = Closed
  /\ UNCHANGED <<lines, items, s_scroll>>
MenuResize ==
  /\ MenuOpen /\ Resized
  /\ Draw(lines', items, mbox.active, mbox)
  /\ UNCHANGED <<items, s_scroll>>

MenuMove == MenuOpen /\ (KeyUp \/ KeyDown \/ KeyPPage \/ KeyNPage \/ Hotkey)
MenuKey  == MenuMove \/ MenuButton \/ MenuSelect \/ MenuEscape \/ MenuResize

-----------------------------------------------------------------------------
(* The menu box in any program: it makes any list, and keeps any position. *)
MenuInit ==
  /\ lines \in Heights /\ items \in ItemList
  /\ shown = "none" /\ ret = NoRet
  /\ mbox = Closed /\ s_scroll \in Int
MenuElsewhere ==
  /\ shown # "menu" /\ shown' # "menu"
  /\ lines' \in Heights /\ items' \in ItemList
  /\ s_scroll' \in Int /\ UNCHANGED mbox
MenuNext ==
  \/ items' \in ItemList /\ \E active \in Data : dialog_menu(active)
  \/ MenuKey
  \/ MenuElsewhere
MenuSpec == MenuInit /\ [][MenuNext]_menuVars

(* The rows of the window show the items the keys act on, one after the    *)
(* other, with only the one to be chosen highlighted (menubox.c:303-366,   *)
(* which redraw as little as they can), however the list changed since the *)
(* position was saved; and no row lies past the end of the list.  Two      *)
(* slips apart: a resize that refuses the saved position, and a page up on *)
(* the first page before a long item is printed on the last row.           *)
MenuShown ==
  MenuOpen =>
    /\ mbox.max = MIN(lines - 14, item_count(items))
    /\ 0 <= mbox.scroll /\ mbox.scroll + mbox.max <= item_count(items)
    /\ items # <<>> => mbox.choice \in 0 .. mbox.max - 1
    /\ ~mbox.slipped =>
         mbox.rows = [r \in 0 .. lines - 15 |->
                        IF r < mbox.max THEN Row(mbox.scroll + r, r = mbox.choice) ELSE Empty]

(* A menu opens, and is drawn again, on the entry it was left at, if this  *)
(* is still in the list, wherever it moved to (menubox.c:245-264).         *)
FocusKept ==
  [][MenuOpen' /\ (MenuOpen => lines' # lines) =>
       \A n \in DOMAIN items' :
         /\ mbox'.active # NoData /\ items'[n].data = mbox'.active
         /\ \A o \in DOMAIN items' : o # n => items'[o].data # mbox'.active
         => mbox'.scroll + mbox'.choice = n - 1]_menuVars
=============================================================================
