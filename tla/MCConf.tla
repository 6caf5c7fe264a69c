-------------------------------- MODULE MCConf --------------------------------
(***************************************************************************)
(* Small Kconfig files, and what is done with them.                        *)
(***************************************************************************)
EXTENDS KconfigChecks

Cfg(s)        == [k |-> "config", sym |-> s, indent |-> 0]
MenuCfg(s)    == [k |-> "menuconfig", sym |-> s, indent |-> 0]
Chc(s)        == [k |-> "choice", sym |-> s, indent |-> 0]
IfLine(e)     == [k |-> "if", e |-> e, indent |-> 0]
Stmt(k)       == [k |-> k, indent |-> 0]
Src(f)        == [k |-> "source", file |-> f, indent |-> 0]
Typ(type)     == [k |-> "type", type |-> type, prompt |-> TRUE, e |-> NULL, indent |-> 2]
TypIf(type, e) == [Typ(type) EXCEPT !.e = e]
Silent(type)  == [Typ(type) EXCEPT !.prompt = FALSE]
Dep(e)        == [k |-> "depends", e |-> e, indent |-> 2]
Def(v, e)     == [k |-> "default", type |-> "unknown", value |-> v, e |-> e, indent |-> 2]
DefBool(v)    == [k |-> "default", type |-> "boolean", value |-> v, e |-> NULL, indent |-> 2]
Sel(s, e)     == [k |-> "select", sym |-> s, e |-> e, indent |-> 2]
Rng(lo, hi)   == [k |-> "range", lo |-> lo, hi |-> hi, e |-> NULL, indent |-> 2]
Prm           == [k |-> "prompt", e |-> NULL, indent |-> 2]
Mod           == [k |-> "option", what |-> "modules", indent |-> 2]
Opt(k)        == [k |-> k, indent |-> 2]
Hlp           == Opt("help")
Blank         == [k |-> "blank", indent |-> 0]
Txt(n)        == [k |-> "text", indent |-> n]

And(a, b) == Two("E_AND", a, b)
Or(a, b)  == Two("E_OR", a, b)
Eq(s, v)  == Comp("E_EQUAL", s, v)
Ne(s, v)  == Comp("E_UNEQUAL", s, v)
Y(s)      == Symbol(s)

MCNames == {"y", "m", "n", MS, "MODULES", "A", "B", "X", "Y", "C", "V1", "V2", "I", "J",
            "2", "5", "7"}

-----------------------------------------------------------------------------
(* Dependencies: of X on A and B, and of Y on X, with a contradiction that *)
(* only shows when a symbol is m.                                          *)
Base == <<Cfg("MODULES"), Typ("boolean"), Cfg("A"), Typ("boolean"), Cfg("B"), Typ("tristate")>>
Literals == {Y("A"), Y("B"), Not(Y("A")), Not(Y("B")), Eq("B", "m"), Eq("B", "y"),
             Ne("B", "n"), Eq("A", "n"), Y("m")}
Few      == {Y("B"), Not(Y("B")), Ne("B", "m")}
Exprs == Literals \cup {Two(op, a, b) : op \in Junctions, a \in Literals, b \in Few}
           \cup {Not(Two(op, a, b)) : op \in Junctions, a \in Few, b \in Few}
OnX   == {Y("X"), Or(Y("X"), Y("A")), And(Or(Y("B"), Y("X")), And(Not(Y("B")), Not(Y("X"))))}
DepTexts ==
  {[main |-> Base \o <<Cfg("X"), Typ("tristate"), Dep(e1), Cfg("Y"), TypIf("boolean", Ne("B", "n")), Dep(e2)>>] :
    e1 \in Exprs, e2 \in OnX}

(* Submenus: X may become part of the menu of A, which is shown if e1.     *)
SubTexts ==
  {[main |-> <<Cfg("MODULES"), DefBool(Y("y")), Cfg("B"), Typ("tristate"), Cfg("A"), TypIf("boolean", e1), IfLine(e2),
                Cfg("X"), Typ("boolean"), Stmt("comment"), Stmt("endif"), MenuCfg("Y"), Typ(ty), Dep(e3)>>] :
     e1 \in {Y("B"), Not(Y("B")), Eq("B", "n"), NULL},
     e2 \in {Y("A"), And(Not(Y("B")), Or(Y("A"), Y("MODULES"))), Or(Y("A"), Not(Y("B"))), And(Y("B"), Ne("A", "n"))},
     e3 \in {Y("X"), Y("A"), And(Not(Y("B")), Or(Y("A"), Y("J")))}, ty \in {"boolean", "tristate"}}

(* Selects and cycles.                                                     *)
SelTexts ==
  {[main |-> Base \o <<Cfg("X"), Typ(ty), Dep(e1), Sel(s, e2), Stmt("menu"), Dep(e3), Cfg("Y"), Silent("tristate"),
              Def(e4, NULL), Sel("A", NULL), Stmt("endmenu")>>] :
     ty \in {"boolean", "tristate"}, s \in {"B", "Y", "A"}, e1 \in {NULL, Ne("B", "n"), Y("Y")},
     e2 \in {NULL, Y("A"), Eq("B", "m")}, e3 \in {Y("B"), Y("X")}, e4 \in {Y("y"), Y("B"), Eq("X", "y")}}

(* Blocks, in one file and across two.                                     *)
Seqs(S, n) == UNION {[1..k -> S] : k \in 0..n}
BlockLines == {IfLine(Y("A")), Stmt("menu"), Chc("C"), Stmt("endif"), Stmt("endmenu"), Stmt("endchoice"),
               Cfg("X"), Src("sub"), Typ("boolean")}
SubLines   == {IfLine(Y("A")), Stmt("endif"), Stmt("menu"), Stmt("endmenu"), Cfg("X")}
BlockTexts ==
  {[main |-> m] : m \in Seqs(BlockLines, 3)} \cup
  {[main |-> m, sub |-> s] : m \in {m \in Seqs(BlockLines, 3) : Src("sub") \in Range(m)}, s \in Seqs(SubLines, 2)}

(* Help texts, with what looks like a statement in them.                   *)
HelpTexts ==
  {[main |-> <<Cfg("A"), Typ("boolean"), Mod, Blank, Cfg("X"), Typ(ty), Hlp>> \o b \o
             <<Txt(4), a, [Cfg("V1") EXCEPT !.indent = n], Cfg("Y"), Typ("tristate"), Dep(Y("X"))>>] :
     ty \in {"boolean", "tristate"}, b \in {<<>>, <<Blank>>}, a \in {Blank, Txt(6), Txt(2)}, n \in {0, 2, 4, 6}}

-----------------------------------------------------------------------------
(* conf.  Entries that come before what they depend on, a menuconfig and a *)
(* choice whose values an answer hides; integers whose range another one   *)
(* gives; a select, and a symbol modules decide about.                     *)
OrderText ==
  <<Cfg("X"), Typ("tristate"), Dep(Y("B")), Sel("Y", NULL), Cfg("MODULES"), Typ("boolean"),
    Cfg("B"), Typ("tristate"), MenuCfg("A"), Typ("boolean"), Dep(Not(Y("X"))),
    IfLine(Y("A")), Cfg("Y"), TypIf("tristate", Y("m")), Stmt("endif")>>
ChoiceText(options) ==
  <<Stmt("menu"), Cfg("A"), Typ("boolean"), Chc("C"), Prm>> \o options \o
  <<Cfg("V1"), Typ("boolean"), Dep(Not(Y("X"))), Cfg("V2"), Typ("boolean"),
    Cfg("Y"), Typ("boolean"), Dep(Y("V2")), Stmt("endchoice"), Cfg("X"), Typ("boolean"), Stmt("endmenu")>>
IntText ==
  <<Cfg("I"), Typ("integer"), Def(Y("2"), NULL), Rng("2", "J"), Cfg("J"), Typ("integer"),
    Def(Y("5"), NULL), Rng("2", "7"), Cfg("X"), Typ("boolean"), Dep(Eq("I", "5")), Cfg("Y"), Silent("boolean"), Def(Eq("J", "2"), NULL)>>

(* Only ever a module, and y by default.                                   *)
ModuleText ==
  <<Cfg("MODULES"), Typ("boolean"), Cfg("V1"), TypIf("tristate", Y("m")), Def(Y("y"), NULL)>>

(* Each only shown by an answer further down.                              *)
ChainText ==
  <<Cfg("X"), Typ("boolean"), Dep(Y("B")), Cfg("B"), Typ("boolean"), Dep(Y("A")), Cfg("A"), Typ("boolean")>>

(* Files that say nothing of some symbols, or what cannot be.              *)
Yes(S) == [s \in S |-> "y"]
Sessions ==
  {<<OrderText, f>> : f \in {NoFile, Yes({"X", "B"}), [X |-> "m", B |-> "m", MODULES |-> "y", A |-> "n"]}} \cup
  {<<ChoiceText(o), f>> : o \in {<<>>, <<Opt("optional"), Def(Y("V2"), NULL)>>}, f \in {NoFile, Yes({"V1", "X"}), [A |-> "y", V1 |-> "n", V2 |-> "y", X |-> "n"]}} \cup
  {<<ModuleText, NoFile>>, <<ChainText, NoFile>>} \cup
  {<<IntText, f>> : f \in {NoFile, [I |-> "7", J |-> "5"], [I |-> "2", J |-> "3"]}}

MCInit ==
  /\ \/ /\ text \in SubTexts \cup SelTexts \cup BlockTexts \cup DepTexts \cup HelpTexts
        /\ mode = "none" /\ file = NoFile /\ tty = TRUE
     \/ \E u \in Sessions :
          /\ text = [main |-> u[1]] /\ file = u[2]
          /\ mode \in Modes /\ tty \in BOOLEAN
  /\ ParseInit /\ ConfInit
(* Everything else ends here, and a question nobody can answer does not.   *)
Ended ==
  /\ \/ stage \in {"exit 0", "exit 1"} \/ result = "rejected"
     \/ result = "parsed" /\ mode = "none"
  /\ UNCHANGED vars
MCSpec == MCInit /\ [][Next \/ Ended]_vars
=============================================================================
