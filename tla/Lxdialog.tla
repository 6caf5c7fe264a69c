------------------------------- MODULE Lxdialog -------------------------------
(***************************************************************************)
(* What the dialogs of menuconfig share (lxdialog/util.c): the terminal,   *)
(* the list of items a menu or a checklist shows, and the call a dialog is *)
(* to the program; and the question of yesno.c.                            *)
(*                                                                         *)
(* Only one dialog is open at a time, and it reads the keys.  The terminal *)
(* may get another height while a dialog waits for a key; its width is     *)
(* taken to be enough.  An escape that on_key_esc drops is no step.        *)
(***************************************************************************)
EXTENDS Integers, Sequences

CONSTANTS Heights,  \* the heights the terminal may have
          Data,     \* what an item stands for
          NoData    \* the item stands for nothing (NULL)

ASSUME HeightsAssumption == Heights \subseteq Nat
ASSUME NoDataAssumption == NoData \in Data

VARIABLES lines,   \* the height of the terminal
          items,   \* the list made by item_make: <<[tag, data, selected, long]>>
          shown,   \* the dialog that waits for a key
          ret,     \* what the last dialog returned, until the program uses it
          ybox     \* the question: [button], or Closed
lxVars == <<lines, items, shown, ret>>

Dialogs  == {"menu", "checklist", "inputbox", "textbox", "yesno"}
Closed   == <<>>
NoRet    == -1
KEY_ESC  == 27
TooSmall == -512
MIN(a, b) == IF a < b THEN a ELSE b
MAX(a, b) == IF a > b THEN a ELSE b

(* long: as wide as the menu box, so that it reaches its last column.      *)
ItemList == Seq([tag : STRING, data : Data, selected : BOOLEAN, long : BOOLEAN])
item_count(list) == Len(list)
item_n(list, Is(_), none) ==
  LET last == {n \in 0 .. Len(list) - 1 :
                 Is(list[n + 1]) /\ \A o \in n + 1 .. Len(list) - 1 : ~Is(list[o + 1])}
  IN  IF last = {} THEN none ELSE CHOOSE n \in last : TRUE
item_set_selected(n) ==
  IF n + 1 \in DOMAIN items THEN [items EXCEPT ![n + 1].selected = TRUE] ELSE items
Selected == {n \in DOMAIN items : items[n].selected}

Opens(d)   == shown' = d /\ ret' = NoRet
Returns(r) == shown' = "none" /\ ret' = r
Resized    == lines' \in Heights \ {lines}

-----------------------------------------------------------------------------
(* dialog_yesno, 6 lines high, as main asks for it.  A resize draws it     *)
(* with "Yes" highlighted, and does not set the button to it.              *)
Ask(l, button) ==
  IF l < 10 THEN Returns(TooSmall) /\ ybox' = Closed
  ELSE Opens("yesno") /\ ybox' = [button |-> button]
dialog_yesno == Ask(lines, 0) /\ UNCHANGED <<lines, items>>

YesNoOpen == shown = "yesno"
YesNoButton ==
  /\ YesNoOpen /\ ybox' = [button |-> 1 - ybox.button]
  /\ UNCHANGED lxVars
YesNoAnswer ==
  /\ YesNoOpen /\ ybox' = Closed
  /\ \E r \in {0, 1, ybox.button, KEY_ESC} : Returns(r)
  /\ UNCHANGED <<lines, items>>
YesNoResize ==
  /\ YesNoOpen /\ Resized
  /\ Ask(lines', ybox.button) /\ UNCHANGED items
YesNoKey == YesNoButton \/ YesNoAnswer \/ YesNoResize
=============================================================================
