-------------------------------- MODULE Mconf --------------------------------
(***************************************************************************)
(* The menu-driven configurator (mconf.c): menus of the visible entries of *)
(* a parsed Kconfig file, shown by the dialogs of lxdialog.                *)
(*                                                                         *)
(* The calls of conf, conf_choice, conf_string, conf_load, conf_save and   *)
(* search_conf are a stack; the one on top waits for a dialog, or uses     *)
(* what it returned.  Values are calculated as KconfigValues says.  What   *)
(* is written to a file is left out: any file may be there, or not, and a  *)
(* write may fail.                                                         *)
(***************************************************************************)
EXTENDS KconfigParser, KconfigValues, MenuBox, CheckList, InputBox, TextBox

CONSTANTS Files,      \* what configuration files may hold
          FileName,   \* ".config", in Chars
          Manual,     \* a help text, or what a search has found
          Message,    \* a text of one line
          Long,       \* the symbols with prompts as wide as the menu box
          MaxResizes, \* bound: changes of the height of the terminal
          MaxSelects  \* bound: items selected in menus

VARIABLES def,         \* the user's values
          calls,       \* <<[fn, menu, active, scroll]>>
          single,      \* single_menu_mode
          unfolded,    \* the menus whose data is set
          child_count, \* is it not zero?
          stage,       \* where main is
          resizes,     \* the changes of the height so far
          selects,     \* the items selected so far
          seen         \* history: what was highlighted when an item was selected
mconfVars  == <<def, calls, single, unfolded, child_count, stage, resizes, selects, seen>>
dialogVars == <<lxVars, ybox, mbox, s_scroll, cbox, dialog_input_result, ibox, tbox>>
vars       == <<parseVars, mconfVars, dialogVars>>

Now    == [t |-> t, def |-> def]
Unseen == -1
NewDef == [s \in Names |-> [set |-> FALSE, v |-> "n", sel |-> NoSym]]
SymbolAt(m)   == IF m = NoData THEN NoSym ELSE SymOf(t, m)
PromptKind(m) == IF t.menus[m].prompt = NoProp THEN "none" ELSE t.props[t.menus[m].prompt].type

Top == Last(calls)
Called(fn, m) == [fn |-> fn, menu |-> m, active |-> NoData, scroll |-> 0]
InCall(fn) == stage = "conf" /\ calls # <<>> /\ Top.fn = fn
Begins(fn) == InCall(fn) /\ shown = "none" /\ ret = NoRet
Gets(fn, r) == InCall(fn) /\ shown = "none" /\ ret # NoRet /\ ret \in r
(* A function returns; a menu goes on with its own scroll position.        *)
Done ==
  /\ calls' = Front(calls)
  /\ s_scroll' = IF Len(calls) > 1 /\ Top.fn = "conf" THEN calls[Len(calls) - 1].scroll
                 ELSE s_scroll
(* Once what a dialog returned is used, its items and its string are dead. *)
NoDialog == shown' = "none" /\ ret' = NoRet /\ items' = <<>> /\ UNCHANGED lines
Texting(x) == dialog_textbox(x) /\ items' = <<>> /\ UNCHANGED lines

Kept   == UNCHANGED <<parseVars, single, resizes, selects>> /\ seen' = Unseen
Stay   == UNCHANGED <<def, unfolded, child_count, stage>>
NoMenu == UNCHANGED <<mbox, s_scroll>>
NoList == UNCHANGED cbox
NoText == UNCHANGED tbox
NoInput == dialog_input_result' = <<>> /\ UNCHANGED ibox

-----------------------------------------------------------------------------
(* build_conf: the items for what is visible in the menu current.          *)
Item(tag, m) ==
  [tag |-> tag, data |-> m, selected |-> FALSE, long |-> SymbolAt(m) \in Long]
RECURSIVE build_conf(_, _)
Childs(m, current) ==
  FlattenSeq([i \in DOMAIN t.kids[m] |-> build_conf(t.kids[m][i], current)])
PlainItems(m, current) ==
  IF m = current THEN Childs(m, current)
  ELSE IF PromptKind(m) # "P_MENU" THEN <<Item(":", m)>> \o Childs(m, current)
  ELSE <<Item("m", m)>> \o (IF single /\ m \in unfolded THEN Childs(m, current) ELSE <<>>)
ChoiceItems(m, current) ==
  LET s == SymbolAt(m)
      picked == SelectSeq(t.kids[m], LAMBDA k : /\ menu_is_visible(Now, k)
                                                /\ SymbolAt(k) = ChoiceValue(Now, s))
      item == Item(IF sym_is_changable(Now, s) \/ picked # <<>> THEN "t" ELSE ":", m)
  IN  <<item>> \o (IF Tri(Now, s) # 2 THEN Childs(m, current)
                   ELSE IF picked # <<>> /\ t.kids[Last(picked)] # <<>>
                   THEN build_conf(Last(picked), current) ELSE <<>>)
SymbolItems(m, current) ==
  LET s == SymbolAt(m)
      picked == s \in t.choicevals /\ Tri(Now, s) = 2
  IN  IF m = current THEN <<Item(":", m)>> \o Childs(m, current)
      ELSE IF ~picked /\ SymType(Now, s) \notin BoolTypes
      THEN <<Item("s", m)>> \o Childs(m, current)
      ELSE <<Item(IF picked THEN ":" ELSE "t", m)>> \o
           (IF PromptKind(m) = "P_MENU" THEN <<>> ELSE Childs(m, current))
build_conf(m, current) ==
  IF ~menu_is_visible(Now, m) THEN <<>>
  ELSE IF SymbolAt(m) = NoSym THEN PlainItems(m, current)
  ELSE IF SymbolAt(m) \in t.choices THEN ChoiceItems(m, current)
  ELSE SymbolItems(m, current)
FileItems == <<Item(":", NoData), Item("L", NoData), Item("S", NoData)>>

-----------------------------------------------------------------------------
(* conf: a menu is shown until it is left, or until nothing was ever in    *)
(* one: child_count is never set to zero again.                            *)
ConfMenu ==
  /\ Begins("conf")
  /\ LET built == build_conf(Top.menu, Top.menu)
     IN  /\ child_count' = (child_count \/ \E i \in DOMAIN built : built[i].data # Top.menu)
         /\ IF ~child_count'
            THEN items' = built /\ Done /\ UNCHANGED <<lines, shown, ret, mbox>>
            ELSE /\ items' = IF Top.menu = Root THEN built \o FileItems ELSE built
                 /\ dialog_menu(Top.active) /\ UNCHANGED calls
  /\ UNCHANGED <<def, unfolded, stage, ybox>> /\ Kept /\ NoList /\ NoText /\ NoInput

ConfLeave ==
  /\ Gets("conf", {1, KEY_ESC, TooSmall})
  /\ Done /\ NoDialog
  /\ Stay /\ Kept /\ UNCHANGED <<mbox, ybox>> /\ NoList /\ NoText /\ NoInput

(* The item selected, and the menu with the place to come back to.         *)
Picked == items[CHOOSE n \in Selected : \A o \in Selected : n <= o]
Submenu == Picked.data
Marked == [calls EXCEPT ![Len(calls)].active = Submenu, ![Len(calls)].scroll = s_scroll]
Acts(r, tags) == Gets("conf", r) /\ Selected # {} /\ Picked.tag \in tags
Idle == NoDialog /\ NoList /\ NoText /\ NoInput /\ UNCHANGED <<mbox, ybox>> /\ Kept
Enters(fn) ==
  /\ calls' = Append(Marked, Called(fn, Submenu))
  /\ s_scroll' = IF fn = "conf" THEN 0 ELSE s_scroll
  /\ Idle /\ Stay

ConfSubmenu ==
  /\ \/ Acts({0}, {"m"}) /\ ~single
     \/ Acts({6}, {"m"})
     \/ /\ Acts({0}, {"t"}) /\ PromptKind(Submenu) = "P_MENU"
        /\ ~(SymbolAt(Submenu) \in t.choices /\ Tri(Now, SymbolAt(Submenu)) = 2)
  /\ Enters("conf")
ConfUnfold ==
  /\ Acts({0}, {"m"}) /\ single
  /\ unfolded' = (unfolded \ {Submenu}) \cup ({Submenu} \ unfolded)
  /\ calls' = Marked /\ Idle
  /\ UNCHANGED <<s_scroll, def, child_count, stage>>
(* The choice starts on its value.                                         *)
ConfChoice ==
  /\ Acts({0}, {"t"}) /\ SymbolAt(Submenu) \in t.choices /\ Tri(Now, SymbolAt(Submenu)) = 2
  /\ LET of == SelectSeq(t.kids[Submenu],
                         LAMBDA k : SymbolAt(k) = ChoiceValue(Now, SymbolAt(Submenu)))
     IN  calls' = Append(Marked, [Called("conf_choice", Submenu) EXCEPT !.active = HeadOr(of, NoData)])
  /\ Idle /\ Stay /\ UNCHANGED s_scroll
ConfOther ==
  \/ Acts({0}, {"s"}) /\ Enters("conf_string")
  \/ Acts({0}, {"L"}) /\ Enters("conf_load")
  \/ Acts({0}, {"S"}) /\ Enters("conf_save")
  \/ Acts({7}, {"m", "t", "s", ":", "L", "S"}) /\ Enters("search_conf")
ConfHelp ==
  /\ Gets("conf", {2}) /\ Selected # {}
  /\ calls' = Marked /\ Texting(Manual)
  /\ Stay /\ Kept /\ NoMenu /\ NoList /\ NoInput /\ UNCHANGED ybox

(* y, n, m and space.  If y cannot be, m is tried, with a message.         *)
sym_toggle_tristate_value(s) ==
  LET cycle == IF Tri(Now, s) = 0 THEN <<1, 2, 0>> ELSE IF Tri(Now, s) = 1 THEN <<2, 0, 1>>
               ELSE <<0, 1, 2>>
  IN  SelectSeq(cycle, LAMBDA v : AcceptsTristate(Now, s, v))
Wished(r, s) ==
  LET tried == IF r = 3 THEN <<2, 1>> ELSE IF r = 4 THEN <<0>> ELSE <<1>>
  IN  IF r = 6 THEN sym_toggle_tristate_value(s)
      ELSE SelectSeq(tried, LAMBDA v : AcceptsTristate(Now, s, v))
ConfSet ==
  /\ Acts({3, 4, 5, 6}, {"t"})
  /\ LET s == SymbolAt(Submenu)
         fit == Wished(ret, s)
     IN  /\ def' = IF fit = <<>> THEN def ELSE sym_set_tristate_value(Now, s, Head(fit))
         /\ IF ret = 3 /\ fit # <<>> /\ Head(fit) = 1
            THEN Texting(Message) ELSE NoDialog /\ NoText
  /\ calls' = Marked
  /\ UNCHANGED <<unfolded, child_count, stage, ybox>> /\ Kept /\ NoMenu /\ NoList /\ NoInput
(* Everything else does nothing.                                           *)
ConfNothing ==
  /\ Gets("conf", {0, 2, 3, 4, 5, 6, 7})
  /\ \/ Selected = {} /\ UNCHANGED calls
     \/ /\ Acts({0}, {":"}) \/ Acts({3, 4, 5}, {"m", "s", ":", "L", "S"})
           \/ Acts({6}, {"s", ":", "L", "S"})
           \/ /\ Acts({0}, {"t"}) /\ PromptKind(Submenu) # "P_MENU"
              /\ ~(SymbolAt(Submenu) \in t.choices /\ Tri(Now, SymbolAt(Submenu)) = 2)
        /\ calls' = Marked
  /\ Idle /\ Stay /\ UNCHANGED s_scroll

-----------------------------------------------------------------------------
(* conf_choice.                                                            *)
ChoiceItem(k) ==
  [tag |-> IF SymbolAt(k) = ChoiceValue(Now, SymbolAt(Top.menu)) THEN "X" ELSE " ",
   data |-> k, selected |-> SymbolAt(k) = SymbolAt(Top.active), long |-> FALSE]
ChoiceList ==
  /\ Begins("conf_choice")
  /\ LET shownKids == SelectSeq(t.kids[Top.menu], LAMBDA k : menu_is_visible(Now, k))
     IN  items' = [i \in DOMAIN shownKids |-> ChoiceItem(shownKids[i])]
  /\ dialog_checklist
  /\ UNCHANGED calls
  /\ Stay /\ Kept /\ NoMenu /\ NoText /\ NoInput /\ UNCHANGED ybox
ChoiceDone ==
  /\ Gets("conf_choice", {0, KEY_ESC, TooSmall})
  /\ def' = IF ret = 0 /\ Selected # {} /\ AcceptsTristate(Now, SymbolAt(Submenu), 2)
            THEN sym_set_tristate_value(Now, SymbolAt(Submenu), 2) ELSE def
  /\ Done /\ Idle
  /\ UNCHANGED <<unfolded, child_count, stage>>
ChoiceHelp ==
  /\ Gets("conf_choice", {1})
  /\ calls' = IF Selected = {} THEN calls ELSE [calls EXCEPT ![Len(calls)].active = Submenu]
  /\ Texting(Manual)
  /\ Stay /\ Kept /\ NoMenu /\ NoList /\ NoInput /\ UNCHANGED ybox

-----------------------------------------------------------------------------
(* The functions that ask for a string.  A terminal too small for the box  *)
(* makes all but the search ask again, for ever.                           *)
AsChars(str)  == [i \in 1 .. Len(str) |-> SubSeq(str, i, i)]
AsString(seq) == FoldLeft(LAMBDA a, c : a \o c, "", seq)
InputFns == {"conf_string", "conf_load", "conf_save", "search_conf"}
Input ==
  /\ \E fn \in InputFns : Begins(fn)
  /\ CASE Top.fn = "conf_string" -> dialog_inputbox(AsChars(Value(Now, SymbolAt(Top.menu))), 10)
       [] Top.fn = "search_conf" -> dialog_inputbox(<<>>, 10)
       [] OTHER                  -> dialog_inputbox(FileName, 11)
  /\ UNCHANGED calls
  /\ Stay /\ Kept /\ NoMenu /\ NoList /\ NoText /\ UNCHANGED ybox
InputHelp ==
  /\ \E fn \in InputFns : Gets(fn, {1})
  /\ Texting(Manual) /\ UNCHANGED calls
  /\ Stay /\ Kept /\ NoMenu /\ NoList /\ NoInput /\ UNCHANGED ybox
InputAgain ==
  /\ \E fn \in InputFns \ {"search_conf"} : Gets(fn, {TooSmall})
  /\ UNCHANGED calls /\ Idle /\ Stay /\ UNCHANGED s_scroll
InputLeft ==
  /\ \/ \E fn \in InputFns : Gets(fn, {KEY_ESC})
     \/ Gets("search_conf", {TooSmall})
     \/ \E fn \in {"conf_load", "conf_save"} : Gets(fn, {0}) /\ dialog_input_result = <<>>
  /\ Done /\ Idle /\ Stay
Refused ==
  /\ Texting(Message) /\ UNCHANGED calls
  /\ Stay /\ Kept /\ NoMenu /\ NoList /\ NoInput /\ UNCHANGED ybox
conf_string ==
  /\ Gets("conf_string", {0})
  /\ LET s == SymbolAt(Top.menu)
         str == AsString(dialog_input_result)
     IN  IF ~sym_string_within_range(Now, s, str) THEN Refused
         ELSE /\ def' = sym_set_string_value(Now, s, str)
              /\ Done /\ Idle
              /\ UNCHANGED <<unfolded, child_count, stage>>
conf_load ==
  /\ Gets("conf_load", {0}) /\ dialog_input_result # <<>>
  /\ \/ /\ \E f \in Files : def' = conf_read(t, f)
        /\ Done /\ Idle
        /\ UNCHANGED <<unfolded, child_count, stage>>
     \/ Refused
conf_save ==
  /\ Gets("conf_save", {0}) /\ dialog_input_result # <<>>
  /\ \/ Done /\ Idle /\ Stay
     \/ Refused
search_conf ==
  /\ Gets("search_conf", {0})
  /\ calls' = Front(calls)
  /\ Texting(Manual)
  /\ Stay /\ Kept /\ NoMenu /\ NoList /\ NoInput /\ UNCHANGED ybox

-----------------------------------------------------------------------------
(* main.                                                                   *)
Start ==
  /\ result = "parsed" /\ stage = "start"
  /\ def' \in {NewDef} \cup {conf_read(t, f) : f \in Files}
  /\ calls' = <<Called("conf", Root)>> /\ stage' = "conf"
  /\ UNCHANGED <<unfolded, child_count, s_scroll>> /\ Idle
SaveAsked ==
  /\ stage = "conf" /\ calls = <<>>
  /\ stage' = "asking" /\ dialog_yesno
  /\ UNCHANGED <<def, unfolded, child_count, calls>>
  /\ Kept /\ NoMenu /\ NoList /\ NoText /\ NoInput
Answered == stage = "asking" /\ shown = "none"
SaveAnswered ==
  /\ Answered /\ ret # KEY_ESC
  /\ stage' = IF ret = 0 THEN "saving" ELSE "not saved"
  /\ UNCHANGED <<def, unfolded, child_count, calls, s_scroll>> /\ Idle
Continued ==
  /\ Answered /\ ret = KEY_ESC
  /\ calls' = <<Called("conf", Root)>> /\ s_scroll' = 0 /\ stage' = "conf"
  /\ UNCHANGED <<def, unfolded, child_count>> /\ Idle

-----------------------------------------------------------------------------
(* The dialogs.                                                            *)
Program ==
  /\ UNCHANGED <<parseVars, def, calls, single, unfolded, child_count, stage>>
  /\ resizes' = resizes + (IF lines' # lines THEN 1 ELSE 0)
  /\ selects' = selects + (IF items' # items THEN 1 ELSE 0)
  /\ resizes' <= MaxResizes /\ selects' <= MaxSelects
OldInput == UNCHANGED <<dialog_input_result, ibox>>
Highlighted(rows) == {items[rows[r].item + 1].data : r \in {r \in DOMAIN rows : rows[r].lit}}
See(rows, slipped) ==
  seen' \in IF slipped THEN {Unseen} ELSE Highlighted(rows)
MenuKeys ==
  /\ MenuKey /\ NoList /\ NoText /\ OldInput /\ UNCHANGED ybox
  /\ IF MenuOpen' \/ ret' \in {KEY_ESC, TooSmall} \/ items = <<>> \/ shown' = "crashed"
     THEN UNCHANGED seen ELSE See(mbox.rows, mbox.slipped)
ListKeys ==
  /\ ListKey /\ NoMenu /\ NoText /\ OldInput /\ UNCHANGED ybox
  /\ IF ListOpen' \/ ret' # 0 THEN UNCHANGED seen ELSE See(cbox.rows, FALSE)
InputKeys == InputKey /\ NoMenu /\ NoList /\ NoText /\ UNCHANGED <<ybox, seen>>
TextKeys  == TextKey /\ NoMenu /\ NoList /\ OldInput /\ UNCHANGED <<ybox, seen>>
YesNoKeys == YesNoKey /\ NoMenu /\ NoList /\ NoText /\ OldInput /\ UNCHANGED seen
Keys == MenuKeys \/ ListKeys \/ InputKeys \/ TextKeys \/ YesNoKeys

MconfInit ==
  /\ lines \in Heights /\ items = <<>> /\ shown = "none" /\ ret = NoRet
  /\ mbox = Closed /\ cbox = Closed /\ ibox = Closed /\ tbox = Closed /\ ybox = Closed
  /\ s_scroll = 0 /\ dialog_input_result = <<>>
  /\ def = NewDef /\ calls = <<>> /\ unfolded = {} /\ child_count = FALSE
  /\ stage = "start" /\ seen = Unseen
  /\ resizes = 0 /\ selects = 0

Parse == ParseNext /\ UNCHANGED <<mconfVars, dialogVars>>
Menus == \/ ConfMenu \/ ConfLeave \/ ConfSubmenu \/ ConfUnfold \/ ConfChoice \/ ConfOther
         \/ ConfHelp \/ ConfSet \/ ConfNothing
Boxes == \/ ChoiceList \/ ChoiceDone \/ ChoiceHelp
         \/ Input \/ InputHelp \/ InputAgain \/ InputLeft
         \/ conf_string \/ conf_load \/ conf_save \/ search_conf
Main  == Start \/ SaveAsked \/ SaveAnswered \/ Continued
Next  == Parse \/ Main \/ Menus \/ Boxes \/ (Keys /\ Program)

-----------------------------------------------------------------------------
(* A key acts on the entry highlighted on the screen: only the symbol of   *)
(* this entry gets another value, and only its menu, choice or box opens.  *)
(* The key is pressed in the box, the items are in a global list, and the  *)
(* symbol is set when the box is gone (mconf.c:610-681, 743-758).          *)
OnlyTheSeen ==
  [][/\ Len(calls') > Len(calls) /\ seen # Unseen => Last(calls').menu = seen
     /\ stage = "conf" /\ def' # def /\ Top.fn # "conf_load" /\ seen # Unseen =>
          \A s \in Names : /\ def'[s].v # def[s].v => s = SymbolAt(seen)
                          /\ def'[s].sel # def[s].sel => def'[s].sel = SymbolAt(seen)]_vars
=============================================================================
