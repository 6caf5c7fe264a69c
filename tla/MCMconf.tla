------------------------------- MODULE MCMconf -------------------------------
(***************************************************************************)
(* Small Kconfig files in the menus of mconf.                              *)
(***************************************************************************)
EXTENDS Mconf

MenuCfg(s)   == [k |-> "menuconfig", sym |-> s, indent |-> 0]
Cfg(s)       == [k |-> "config", sym |-> s, indent |-> 0]
Stmt(k)      == [k |-> k, indent |-> 0]
Typ(type, e) == [k |-> "type", type |-> type, prompt |-> TRUE, e |-> e, indent |-> 2]
Dep(e)       == [k |-> "depends", e |-> e, indent |-> 2]
Def(v)       == [k |-> "default", type |-> "unknown", value |-> v, e |-> NULL, indent |-> 2]
Rng(lo, hi)  == [k |-> "range", lo |-> lo, hi |-> hi, e |-> NULL, indent |-> 2]

MCNames == {"y", "m", "n", MS, "MODULES", "A", "B", "X", "C", "V1", "V2", "V3", "I", "1", "11"}

(* A menu that an answer makes longer, with a menu in it that may be empty.*)
MenuText ==
  <<Cfg("A"), Typ("boolean", NULL), Stmt("menu"), Cfg("B"), Typ("boolean", Symbol("A")),
    Stmt("endmenu"), Cfg("X"), Typ("boolean", Symbol("A")), Stmt("comment")>>
(* A choice of more values than fit, and an integer.                       *)
ChoiceText ==
  <<[k |-> "choice", sym |-> "C", indent |-> 0], [k |-> "prompt", e |-> NULL, indent |-> 2],
    Cfg("V1"), Typ("boolean", NULL), Cfg("V2"), Typ("boolean", NULL), Cfg("V3"), Typ("boolean", NULL),
    Stmt("endchoice"), Cfg("I"), Typ("integer", Symbol("V2")), Def(Symbol("1")), Rng("1", "11")>>

(* Tristate symbols, one of them with a menu; and nothing to ask for.      *)
ModulesText ==
  <<Cfg("MODULES"), Typ("boolean", NULL), MenuCfg("B"), Typ("tristate", NULL),
    Cfg("X"), Typ("tristate", Symbol("B"))>>
NothingText == <<Cfg("A"), [Typ("boolean", NULL) EXCEPT !.prompt = FALSE]>>

MCTexts == {[lines |-> 10, newline |-> TRUE, height |-> 0], [lines |-> 1, newline |-> FALSE, height |-> 5]}
MCManual  == CHOOSE x \in MCTexts : x.newline
MCMessage == CHOOSE x \in MCTexts : ~x.newline
MCFileName == <<"1", "1", "1">>
MCFiles == {[A |-> "y", X |-> "n", B |-> "m", MODULES |-> "y"]}
MCData    == 0..12

MCInit ==
  /\ text \in {[main |-> x] : x \in {MenuText, ChoiceText, ModulesText, NothingText}}
  /\ single \in BOOLEAN
  /\ (single => text.main = MenuText)
  /\ lines = (IF text.main = MenuText /\ ~single THEN 16 ELSE 21)
  /\ ParseInit /\ MconfInit
Ended ==
  /\ stage \in {"saving", "not saved"} \/ shown = "crashed" \/ result = "rejected"
  /\ UNCHANGED vars
MCSpec == MCInit /\ [][Next \/ Ended]_vars
=============================================================================
