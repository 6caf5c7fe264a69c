------------------------------- MODULE InputBox -------------------------------
(***************************************************************************)
(* The box to type a string into (lxdialog/inputbox.c).  The string is     *)
(* kept in dialog_input_result with a '\0' behind it; a character is       *)
(* written at the cursor, scroll + input_x, with a '\0' behind it, so it   *)
(* is lost if the cursor is past the end of the string.                    *)
(***************************************************************************)
EXTENDS Lxdialog

CONSTANTS Chars,      \* the characters that may be typed
          MAX_LEN,    \* of a string, and of a line of a text
          box_width   \* of the field on the screen

ASSUME InputAssumption == MAX_LEN \in Nat /\ box_width \in Nat \ {0, 1}

VARIABLES dialog_input_result,
          ibox   \* the local variables of dialog_inputbox, or Closed
inputVars == <<lxVars, dialog_input_result, ibox>>

TheField == -1   \* the button that stands for the field
Strings  == {str \in Seq(Chars) : Len(str) <= MAX_LEN}
strlen   == Len(dialog_input_result)
Cursor   == ibox.scroll + ibox.input_x

(* do_resize, for a box of the given height.  The window is placed so that *)
(* its end shows; scroll keeps its value if the string fits.               *)
Field(str, old) ==
  IF Len(str) >= box_width
  THEN [scroll |-> Len(str) - box_width + 1, input_x |-> box_width - 1]
  ELSE [scroll |-> old, input_x |-> Len(str)]
DrawInput(l, height, str, old, button) ==
  IF l <= height - 2 THEN Returns(TooSmall) /\ ibox' = Closed
  ELSE LET at == Field(str, old)
       IN  /\ Opens("inputbox")
           /\ ibox' = [height |-> height, button |-> button,
                       scroll |-> at.scroll, input_x |-> at.input_x,
                       slipped |-> at.scroll + at.input_x # Len(str)]
dialog_inputbox(init, height) ==
  /\ shown = "none"
  /\ dialog_input_result' = init
  /\ DrawInput(lines, height, init, 0, TheField)
  /\ UNCHANGED <<lines, items>>

InputOpen == shown = "inputbox"
Typing    == InputOpen /\ ibox.button = TheField
(* A slip: no room is left for the '\0'.                                   *)
TypeOneMore ==
  /\ Typing /\ Cursor <= MAX_LEN
  /\ \E c \in Chars : dialog_input_result' = Append(SubSeq(dialog_input_result, 1, Cursor), c)
  /\ ibox' = IF ibox.input_x = box_width - 1 THEN [ibox EXCEPT !.scroll = @ + 1]
             ELSE [ibox EXCEPT !.input_x = @ + 1]
  /\ UNCHANGED lxVars
(* A printable character.                                                  *)
TypeChar ==
  /\ Typing /\ Cursor < MAX_LEN
  /\ \E c \in Chars :
       dialog_input_result' = IF Cursor > strlen THEN dialog_input_result
                              ELSE Append(SubSeq(dialog_input_result, 1, Cursor), c)
  /\ ibox' = IF ibox.input_x = box_width - 1 THEN [ibox EXCEPT !.scroll = @ + 1]
             ELSE [ibox EXCEPT !.input_x = @ + 1]
  /\ UNCHANGED lxVars
(* Backspace.  At the left edge of the field it only scrolls back.         *)
Back ==
  IF ibox.input_x # 0 THEN [ibox EXCEPT !.input_x = @ - 1]
  ELSE LET scroll == IF ibox.scroll < box_width - 1 THEN 0 ELSE ibox.scroll - (box_width - 1)
       IN  [ibox EXCEPT !.scroll = scroll, !.input_x = strlen - scroll]
KeyBackspace ==
  /\ Typing /\ Cursor # 0
  /\ ibox' = Back
  /\ dialog_input_result' = SubSeq(dialog_input_result, 1, MIN(strlen, ibox'.scroll + ibox'.input_x))
  /\ UNCHANGED lxVars
(* If the field is scrolled past the string, a '\0' is written in front of *)
(* dialog_input_result: anything may follow.                               *)
KeyUnderrun ==
  /\ Typing /\ Cursor = 0 /\ ibox.input_x # 0
  /\ shown' = "crashed" /\ ret' = NoRet /\ ibox' = Closed
  /\ UNCHANGED <<lines, items, dialog_input_result>>

(* Keys that are no character in the field.                                *)
InputButton ==
  /\ InputOpen
  /\ \E step \in {1, 2} : ibox' = [ibox EXCEPT !.button = ((@ + 1 + step) % 3) - 1]
  /\ UNCHANGED <<lxVars, dialog_input_result>>
InputAnswer ==
  /\ InputOpen
  /\ \E r \in IF Typing THEN {0, KEY_ESC} ELSE {0, 1, KEY_ESC} : Returns(r)
  /\ ibox' = Closed
  /\ UNCHANGED <<lines, items, dialog_input_result>>
InputResize ==
  /\ InputOpen /\ Resized
  /\ DrawInput(lines', ibox.height, dialog_input_result, ibox.scroll, ibox.button)
  /\ UNCHANGED <<items, dialog_input_result>>

InputKey == TypeChar \/ KeyBackspace \/ KeyUnderrun \/ InputButton \/ InputAnswer \/ InputResize

-----------------------------------------------------------------------------
(* The box in any program.                                                 *)
InputInit ==
  /\ lines \in Heights /\ shown = "none" /\ ret = NoRet
  /\ items \in ItemList
  /\ dialog_input_result \in Strings /\ ibox = Closed
InputElsewhere ==
  /\ shown # "inputbox" /\ shown' # "inputbox"
  /\ lines' \in Heights /\ dialog_input_result' \in Strings
  /\ UNCHANGED ibox
InputNext ==
  \/ \E init \in Strings, height \in {10, 11} : dialog_inputbox(init, height)
  \/ InputKey
  \/ InputElsewhere
InputSpec == InputInit /\ [][InputNext]_inputVars

(* The cursor is at the end of the string, so what is typed is added to it *)
(* and what is deleted was its end; never is anything written behind the   *)
(* MAX_LEN characters there is room for (inputbox.c:128-167).  Not so      *)
(* after a resize when the string was scrolled, and fits by now.           *)
CursorAtEnd ==
  InputOpen => /\ Cursor <= MAX_LEN
               /\ ~ibox.slipped => Cursor = strlen
=============================================================================
