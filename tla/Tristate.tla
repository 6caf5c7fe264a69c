------------------------------ MODULE Tristate ------------------------------
(***************************************************************************)
(* The three-valued logic of kconfig (expr.h, expr_calc_value in expr.c).  *)
(*                                                                         *)
(* An expression is kept in disjunctive form: a set of conjunctions, each  *)
(* a set of literals.  A literal reads one symbol and maps its value, so   *)
(* FOO, !FOO, FOO=m, FOO!=y and "m" (which menu_check_dep turns into       *)
(* "m && MODULES") are all literals.  min/max on three values form a       *)
(* distributive lattice with De Morgan negation, so every dependency of a  *)
(* Kconfig file has such a form.                                           *)
(***************************************************************************)
EXTENDS Integers

no  == 0
mod == 1
yes == 2
Tri == {no, mod, yes}

E_OR(a, b)  == IF a > b THEN a ELSE b
E_AND(a, b) == IF a < b THEN a ELSE b
E_NOT(a)    == 2 - a

-----------------------------------------------------------------------------
(* Literals and expressions.                                               *)

Literals(S)    == [sym : S, as : [Tri -> Tri]]
Expressions(S) == SUBSET SUBSET Literals(S)

Is(s)      == [sym |-> s, as |-> [x \in Tri |-> x]]
IsNot(s)   == [sym |-> s, as |-> [x \in Tri |-> E_NOT(x)]]
Equals(s, v)    == [sym |-> s, as |-> [x \in Tri |-> IF x = v THEN yes ELSE no]]
NotEquals(s, v) == [sym |-> s, as |-> [x \in Tri |-> IF x = v THEN no ELSE yes]]
Mod(m)     == [sym |-> m, as |-> [x \in Tri |-> E_AND(mod, x)]]

Never  == {}
Always == {{}}

LitValue(l, val) == l.as[val[l.sym]]

ConjValue(c, val) ==
  IF \E l \in c : LitValue(l, val) = no THEN no
  ELSE IF \E l \in c : LitValue(l, val) = mod THEN mod
  ELSE yes

(* expr_calc_value, over the values the symbols of the expression have.    *)
ExprValue(e, val) ==
  IF \E c \in e : ConjValue(c, val) = yes THEN yes
  ELSE IF \E c \in e : ConjValue(c, val) = mod THEN mod
  ELSE no

ExprSymbols(e) == {l.sym : l \in UNION e}
=============================================================================
