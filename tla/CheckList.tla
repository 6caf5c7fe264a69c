------------------------------ MODULE CheckList ------------------------------
(***************************************************************************)
(* The list of the values of a choice (lxdialog/checklist.c), at most      *)
(* list_height of them on the screen, of which one is picked.              *)
(***************************************************************************)
EXTENDS Lxdialog

CONSTANTS list_height  \* 6 in conf_choice

ASSUME ListAssumption == list_height \in Nat \ {0}

VARIABLES cbox  \* the local variables of dialog_checklist and its window, or Closed
listVars == <<lxVars, cbox>>

ListRow(n, lit) == [item |-> n, lit |-> lit]
NoRow       == ListRow(-1, FALSE)

(* The item to start with: the first one selected, else the last marked X. *)
FirstSelected(list) ==
  {n \in 0 .. Len(list) - 1 :
     list[n + 1].selected /\ \A o \in 0 .. n - 1 : ~list[o + 1].selected}
StartItem(list) ==
  IF FirstSelected(list) # {} THEN CHOOSE n \in FirstSelected(list) : TRUE
  ELSE item_n(list, LAMBDA i : i.tag = "X", 0)

(* A slip: one line too few is scrolled.                                   *)
WindowOneShort(list, choice, scroll, button) ==
  LET max  == MIN(list_height, item_count(list))
      down == IF choice >= list_height THEN choice - list_height ELSE 0
      top  == IF down # 0 THEN down ELSE scroll
      at   == choice - down
  IN  [max |-> max, scroll |-> top, choice |-> at, button |-> button,
       rows |-> [r \in 0 .. list_height - 1 |->
                   IF r < max THEN ListRow(top + r, r = at) ELSE NoRow]]
ListWindow(list, choice, scroll, button) ==
  LET max  == MIN(list_height, item_count(list))
      down == IF choice >= list_height THEN choice - list_height + 1 ELSE 0
      top  == IF down # 0 THEN down ELSE scroll
      at   == choice - down
  IN  [max |-> max, scroll |-> top, choice |-> at, button |-> button,
       rows |-> [r \in 0 .. list_height - 1 |->
                   IF r < max THEN ListRow(top + r, r = at) ELSE NoRow]]
DrawList(l, list, choice, scroll, button) ==
  IF l < 21 THEN Returns(TooSmall) /\ cbox' = Closed
  ELSE Opens("checklist") /\ cbox' = ListWindow(list, choice, scroll, button)
dialog_checklist ==
  /\ shown = "none"
  /\ DrawList(lines, items', StartItem(items'), 0, 0)
  /\ UNCHANGED lines

-----------------------------------------------------------------------------
PrintEntry(box, n, row, lit) == [box EXCEPT !.rows[row] = ListRow(n, lit)]
DimEntry(box) == PrintEntry(box, box.scroll + box.choice, box.choice, FALSE)
LitEntry(box) == PrintEntry(box, box.scroll + box.choice, box.choice, TRUE)

(* wscrl, with the new row highlighted; a list of one row is only redrawn. *)
ScrollList(box, n) ==
  LitEntry([box EXCEPT !.scroll = @ + n,
                       !.rows = [r \in DOMAIN box.rows |->
                                   IF r + n \in DOMAIN box.rows THEN box.rows[r + n]
                                   ELSE NoRow]])
ListOpen == shown = "checklist"
ListMoves(box) ==
  /\ cbox' = box
  /\ UNCHANGED lxVars
GoTo(row) ==
  /\ row # cbox.choice
  /\ ListMoves(LitEntry([DimEntry(cbox) EXCEPT !.choice = row]))
ListUp ==
  \/ cbox.choice # 0 /\ GoTo(cbox.choice - 1)
  \/ cbox.choice = 0 /\ cbox.scroll # 0 /\ ListMoves(ScrollList(DimEntry(cbox), -1))
ListDown ==
  \/ cbox.choice # cbox.max - 1 /\ GoTo(cbox.choice + 1)
  \/ /\ cbox.choice = cbox.max - 1
     /\ cbox.scroll + cbox.choice < item_count(items) - 1
     /\ ListMoves(ScrollList(DimEntry(cbox), 1))
ListHotkey == \E row \in 0 .. cbox.max - 1 : GoTo(row)

ListButton ==
  /\ ListOpen /\ cbox' = [cbox EXCEPT !.button = 1 - @]
  /\ UNCHANGED lxVars

(* The item is selected for "Help" too.                                    *)
(* A slip: what was selected before stays selected.                        *)
SelectAlso(n) == item_set_selected(n)
SelectOnly(n) == [i \in DOMAIN items |-> [items[i] EXCEPT !.selected = (i = n + 1)]]
ListSelect ==
  /\ ListOpen
  /\ \E r \in {cbox.button, 1} : Returns(r)
  /\ items' = SelectOnly(cbox.scroll + cbox.choice)
  /\ cbox' = Closed /\ UNCHANGED lines
ListEscape ==
  /\ ListOpen
  /\ Returns(KEY_ESC) /\ cbox' = Closed
  /\ UNCHANGED <<lines, items>>
ListResize ==
  /\ ListOpen /\ Resized
  /\ DrawList(lines', items, cbox.choice, cbox.scroll, cbox.button)
  /\ UNCHANGED items

ListKey ==
  \/ ListOpen /\ (ListUp \/ ListDown \/ ListHotkey)
  \/ ListButton
  \/ ListSelect \/ ListEscape \/ ListResize

-----------------------------------------------------------------------------
(* The checklist in any program, which gives it at least one item.         *)
ListInit ==
  /\ lines \in Heights /\ items \in ItemList
  /\ shown = "none" /\ ret = NoRet /\ cbox = Closed
ListElsewhere ==
  /\ shown # "checklist" /\ shown' # "checklist"
  /\ lines' \in Heights /\ items' \in ItemList
  /\ UNCHANGED cbox
ListNext ==
  \/ items' \in ItemList \ {<<>>} /\ dialog_checklist
  \/ ListKey
  \/ ListElsewhere
ListSpec == ListInit /\ [][ListNext]_listVars

(* The rows show the values the keys act on, in order, with only the one   *)
(* to be picked highlighted (checklist.c:216-272, which redraw only the    *)
(* rows that change), from whichever value the list was opened on.         *)
ListShown ==
  ListOpen =>
    /\ cbox.choice \in 0 .. cbox.max - 1 /\ cbox.max = MIN(list_height, item_count(items))
    /\ 0 <= cbox.scroll /\ cbox.scroll + cbox.max <= item_count(items)
    /\ cbox.rows = [r \in 0 .. list_height - 1 |->
                      IF r < cbox.max THEN ListRow(cbox.scroll + r, r = cbox.choice) ELSE NoRow]
=============================================================================
