------------------------------ MODULE KconfigConf ------------------------------
(***************************************************************************)
(* The line-oriented configurator (conf.c): it parses the Kconfig file,    *)
(* reads .config, asks about every visible entry in turn, and starts again *)
(* while an answer has made another entry visible that is new.             *)
(*                                                                         *)
(* The recursion of conf and check_conf is a stack of calls.  A question   *)
(* that is refused, or answered with "?", is asked again: no step.         *)
(***************************************************************************)
EXTENDS KconfigParser, KconfigValues

CONSTANTS Replies   \* the strings the user may type for an integer

VARIABLES mode,     \* input_mode
          file,     \* the file conf_read reads, or NoFile
          tty,      \* valid_stdin
          def,      \* the user's values
          calls,    \* <<[fn, menu, at, kid, new]>>
          root,     \* rootEntry
          again,    \* conf_cnt # 0
          stage     \* where main is
confVars == <<mode, file, tty, def, calls, root, again, stage>>
vars == <<parseVars, confVars>>

Asking  == {"ask_all", "ask_new", "ask_silent"}
Filling == {"set_yes", "set_mod", "set_no", "set_random"}
Modes   == Asking \cup Filling \cup {"set_default"}
NoFile  == [s \in {NoSym} |-> "n"]

Now   == [t |-> t, def |-> def]
NoUse == UNCHANGED <<parseVars, file>>

Top  == Last(calls)
Doing(fn, at) == calls # <<>> /\ Top.fn = fn /\ Top.at = at
Call(fn, m) == [fn |-> fn, menu |-> m, at |-> "enter", kid |-> 1, new |-> FALSE]
Goto(at)  == [calls EXCEPT ![Len(calls)].at = at]
Return    == Front(calls)
Sym       == SymOf(t, Top.menu)
PromptType(m) == IF t.menus[m].prompt = NoProp THEN "none" ELSE t.props[t.menus[m].prompt].type

-----------------------------------------------------------------------------
(* main: read .config as the mode says.  -s needs one, and so does -D; the *)
(* all* modes start from nothing unless there is a file of that name, and  *)
(* take it as it is.  -s has nothing to do if the file is up to date, and  *)
(* KCONFIG_NOSILENTUPDATE makes it give up if it is not.                   *)
NewDef == [s \in Names |-> [set |-> FALSE, v |-> "n", sel |-> NoSym]]
Start ==
  /\ result = "parsed" /\ stage = "start" /\ mode # "none"
  /\ IF file = NoFile /\ mode \in {"ask_silent", "set_default"}
     THEN stage' = "exit 1" /\ UNCHANGED <<def, calls, root>>
     ELSE /\ def' = CASE file = NoFile   -> NewDef
                      [] mode \in Filling -> conf_read_simple(t, file)
                      [] OTHER            -> conf_read(t, file)
          /\ IF mode # "ask_silent"
             THEN stage' = "walk" /\ root' = Root /\ calls' = <<Call("conf", Root)>>
             ELSE /\ stage' \in IF conf_unsaved(t, file) THEN {"check", "exit 1"} ELSE {"autoconf"}
                  /\ UNCHANGED <<root, calls>>
  /\ UNCHANGED <<mode, tty, again>> /\ NoUse

(* After the walk through everything, only what is new is asked.           *)
Walked ==
  /\ stage = "walk" /\ calls = <<>>
  /\ IF mode = "ask_all" THEN mode' = "ask_silent" /\ tty' = TRUE
     ELSE UNCHANGED <<mode, tty>>
  /\ stage' = "check"
  /\ UNCHANGED <<def, calls, root, again>> /\ NoUse
Check ==
  /\ stage = "check" /\ calls = <<>>
  /\ calls' = <<Call("check_conf", Root)>>
  /\ again' = FALSE
  /\ stage' = "checking"
  /\ UNCHANGED <<mode, tty, def, root>> /\ NoUse
CheckedOnce ==
  /\ stage = "checking" /\ calls = <<>>
  /\ stage' = "write"
  /\ UNCHANGED <<mode, tty, def, calls, root, again>> /\ NoUse
Checked ==
  /\ stage = "checking" /\ calls = <<>>
  /\ stage' = IF again THEN "check" ELSE "write"
  /\ UNCHANGED <<mode, tty, def, calls, root, again>> /\ NoUse

(* conf_write, which may fail; ask_silent writes auto.conf too.            *)
Write ==
  /\ stage = "write"
  /\ stage' \in {IF mode = "ask_silent" THEN "autoconf" ELSE "exit 0", "exit 1"}
  /\ UNCHANGED <<mode, tty, def, calls, root, again>> /\ NoUse
AutoConf ==
  /\ stage = "autoconf"
  /\ stage' \in {"exit 0", "exit 1"}
  /\ UNCHANGED <<mode, tty, def, calls, root, again>> /\ NoUse

-----------------------------------------------------------------------------
(* conf.                                                                   *)
Same == UNCHANGED <<mode, tty, stage, root, again>> /\ NoUse

(* Which entries are asked; a menu other than the one to be asked is only  *)
(* checked for new entries in ask_silent.                                  *)
Enter ==
  /\ Doing("conf", "enter")
  /\ calls' =
       IF ~menu_is_visible(Now, Top.menu) THEN Return
       ELSE IF PromptType(Top.menu) = "P_MENU" /\ mode = "ask_silent" /\ root # Top.menu
       THEN Append(Return, Call("check_conf", Top.menu))
       ELSE IF Sym = NoSym THEN Goto("kids")
       ELSE IF Sym \notin t.choices THEN Goto("ask")
       ELSE [Goto(IF sym_is_changable(Now, Sym) THEN "ask" ELSE "asked")
               EXCEPT ![Len(calls)].new = ~sym_has_value(Now, Sym)]
  /\ UNCHANGED def /\ Same

(* conf_askvalue: who answers, and what.  "" is an empty line: the value   *)
(* shown is taken.                                                         *)
Fixed == ~sym_is_changable(Now, Sym) \/ mode = "set_default"
            \/ (mode # "ask_all" /\ sym_has_value(Now, Sym))
UserAsked == ~Fixed /\ mode \in Asking
Within(tri) == sym_tristate_within_range(Now, Sym, tri)
FirstWithin(seq) ==
  LET fit == SelectSeq(seq, LAMBDA v : Within(v)) IN IF fit = <<>> THEN {} ELSE {Head(fit)}
YesOrNo ==
  CASE mode = "set_yes" -> FirstWithin(<<2, 0>>)
    [] mode = "set_mod" -> FirstWithin(IF SymType(Now, Sym) = "tristate" THEN <<1, 0>> ELSE <<2, 0>>)
    [] mode = "set_no"  -> FirstWithin(<<0>>)
    [] OTHER            -> {}
Generated ==
  CASE mode = "set_yes" -> FirstWithin(IF SymType(Now, Sym) = "tristate" THEN <<2, 1, 0>> ELSE <<2, 0>>)
    [] mode = "set_mod" -> FirstWithin(IF SymType(Now, Sym) = "tristate" THEN <<1, 0>> ELSE <<2, 0>>)
    [] mode = "set_no"  -> FirstWithin(<<0>>)
    [] OTHER            -> {}
Random == {v \in 0..2 : Within(v)}
TristateAnswers ==
  IF Fixed THEN {Tri(Now, Sym)}
  ELSE IF mode \in Filling THEN IF Generated # {} THEN Generated ELSE Random
  ELSE {v \in 0..2 : AcceptsTristate(Now, Sym, v)}
StringAnswers ==
  {str \in {Value(Now, Sym)} \cup (IF UserAsked THEN Replies ELSE {}) :
     sym_string_within_range(Now, Sym, str)}

Answered == UserAsked => mode # "ask_silent" \/ tty

Set(newdef) ==
  /\ def' = newdef
  /\ UNCHANGED <<mode, tty, stage, root, again>> /\ NoUse
conf_string ==
  /\ Doing("conf", "ask") /\ t.types[Sym] \notin BoolTypes
  /\ Answered
  /\ \E str \in StringAnswers : Set(sym_set_string_value(Now, Sym, str))
  /\ calls' = Goto("kids")
conf_sym ==
  /\ Doing("conf", "ask") /\ t.types[Sym] \in BoolTypes
  /\ Answered
  /\ \E v \in TristateAnswers : Set(sym_set_tristate_value(Now, Sym, v))
  /\ calls' = Goto(IF Sym \in t.choices THEN "asked" ELSE "kids")

(* conf_choice: a choice that is y has one of its values picked, one that  *)
(* is m has them asked one by one.                                         *)
ChoiceAsked ==
  /\ Doing("conf", "asked")
  /\ calls' = CASE Tri(Now, Sym) = 0 -> Return
                [] Tri(Now, Sym) = 1 -> Goto("kids")
                [] Tri(Now, Sym) = 2 -> Goto("choose")
  /\ UNCHANGED def /\ Same

Shown   == SelectSeq(t.kids[Top.menu],
                     LAMBDA k : SymOf(t, k) # NoSym /\ menu_is_visible(Now, k))
Current == {i \in DOMAIN Shown : SymOf(t, Shown[i]) = ChoiceValue(Now, Sym)}
(* With one value to choose from, nobody is asked.                         *)
ChoiceUserAsked ==
  /\ Len(Shown) # 1
  /\ mode = "ask_all" \/ (Top.new /\ mode \in {"ask_new", "ask_silent"})
Picks == IF Len(Shown) = 1 \/ ChoiceUserAsked \/ mode = "set_random"
         THEN DOMAIN Shown ELSE Current
(* Then its own entries are asked: a slip, only from the first one, which  *)
(* is asked as if it were all of them.                                     *)
ChoicePicked ==
  /\ Doing("conf", "choose")
  /\ ChoiceUserAsked => mode # "ask_silent" \/ tty
  /\ \E i \in Picks :
       LET k == Shown[i]
       IN  /\ Set(IF AcceptsTristate(Now, SymOf(t, k), 2)
                  THEN sym_set_tristate_value(Now, SymOf(t, k), 2) ELSE def)
           /\ calls' = IF t.kids[k] = <<>> THEN Return
                       ELSE Append(Return, Call("conf", Head(t.kids[k])))

(* -s without a terminal gives up at the first question.                   *)
check_stdin ==
  /\ mode = "ask_silent" /\ ~tty
  /\ \/ Doing("conf", "ask") /\ UserAsked
     \/ Doing("conf", "choose") /\ ChoiceUserAsked
  /\ stage' = "exit 1" /\ calls' = <<>>
  /\ UNCHANGED <<mode, tty, def, root, again>> /\ NoUse

Kids(fn) ==
  /\ Doing(fn, "kids")
  /\ calls' = IF Top.kid > Len(t.kids[Top.menu]) THEN Return
              ELSE Append([calls EXCEPT ![Len(calls)].kid = @ + 1],
                          Call(fn, t.kids[Top.menu][Top.kid]))
  /\ UNCHANGED def /\ Same

(* check_conf: a new entry has the menu it is in asked.                    *)
NewEntry(m) ==
  LET s == SymOf(t, m)
  IN  /\ s # NoSym /\ ~sym_has_value(Now, s)
      /\ sym_is_changable(Now, s) \/ (s \in t.choices /\ Tri(Now, s) = 2)
CheckEnter ==
  /\ Doing("check_conf", "enter")
  /\ IF ~menu_is_visible(Now, Top.menu)
     THEN calls' = Return /\ UNCHANGED <<root, again>>
     ELSE IF NewEntry(Top.menu)
     THEN /\ again' = TRUE
          /\ root' = menu_get_parent_menu(Now, Top.menu)
          /\ calls' = Append(Goto("kids"), Call("conf", root'))
     ELSE calls' = Goto("kids") /\ UNCHANGED <<root, again>>
  /\ UNCHANGED <<def, mode, tty, stage>> /\ NoUse

-----------------------------------------------------------------------------
ConfInit ==
  /\ def = NewDef
  /\ calls = <<>> /\ root = Root /\ again = FALSE
  /\ stage = "start"

Parse == ParseNext /\ UNCHANGED confVars
Main  == Start \/ Walked \/ Check \/ Checked \/ Write \/ AutoConf
Walk  == \/ Enter \/ check_stdin \/ conf_string \/ conf_sym
         \/ ChoiceAsked \/ ChoicePicked \/ Kids("conf")
         \/ CheckEnter \/ Kids("check_conf")
Next  == Parse \/ Main \/ Walk
=============================================================================
