----------------------------- MODULE KconfigValues -----------------------------
(***************************************************************************)
(* What sym_calc_value computes for the tree of a parsed Kconfig file      *)
(* (symbol.c), here without its cache: KconfigSymbols has the cache, for   *)
(* booleans and tristates, and shows when it holds these values.           *)
(*                                                                         *)
(* c is [t |-> the tree, def |-> the user's values]: def[s] has set (is    *)
(* SYMBOL_DEF_USER set), v (the value, a string) and, for a choice, sel.   *)
(* Integers are given in decimal; MaxNumber bounds them.                   *)
(***************************************************************************)
EXTENDS KconfigMenu

MaxNumber == 12
IsNumber(str) == \E n \in 0..MaxNumber : ToString(n) = str
strtol(str)   == IF IsNumber(str) THEN CHOOSE n \in 0..MaxNumber : ToString(n) = str ELSE 0
Letter(tri)   == CASE tri = 2 -> "y" [] tri = 1 -> "m" [] OTHER -> "n"
Larger(a, b)  == IF a > b THEN a ELSE b
Smaller(a, b) == IF a < b THEN a ELSE b
BoolTypes     == {"boolean", "tristate"}

sym_has_value(c, s) == c.def[s].set
ChoiceOf(c, s) == c.t.props[Head(PropsOfType(c.t, s, {"P_CHOICE"}))].expr.sym

(* Calc is what each is calculated from, by way of the rules below.        *)
RECURSIVE Calc(_, _, _)
Value(c, s)   == Calc(c, "value", s)
Visible(c, s) == Calc(c, "visible", s)
RevDep(c, s)  == Calc(c, "rev_dep", s)
SymType(c, s) == Calc(c, "type", s)
OwnTri(c, s)  == Calc(c, "own", s)
Tri(c, s)     == TristateOf(Value(c, s))
Eval(c, e)    == expr_calc_value(e, [x \in ExprSymbols(e) |-> Value(c, x)])

HeadOr(seq, none) == IF seq = <<>> THEN none ELSE Head(seq)
FirstHolding(c, s, type) ==
  HeadOr(SelectSeq(PropsOfType(c.t, s, {type}),
                   LAMBDA i : Eval(c, c.t.props[i].visible) # 0), NoProp)
DefaultProp(c, s) == FirstHolding(c, s, "P_DEFAULT")
RangeProp(c, s)   == FirstHolding(c, s, "P_RANGE")

sym_get_type(c, s) ==
  IF c.t.types[s] = "tristate"
     /\ (Tri(c, MS) = 0 \/ (s \in c.t.choicevals /\ Visible(c, s) = 2))
  THEN "boolean" ELSE c.t.types[s]

(* sym_calc_visibility: the prompts, and the lower limit set by selects.   *)
(* That of a choice value is calculated while its choice is not yet done.  *)
MaxOf(S) == CHOOSE v \in S \cup {0} : \A w \in S : w <= v
Prompted(c, s) ==
  LET val(x) == IF s \in c.t.choicevals /\ x = ChoiceOf(c, s)
                THEN Letter(OwnTri(c, x)) ELSE Value(c, x)
      shown(e) == expr_calc_value(e, [x \in ExprSymbols(e) |-> val(x)])
  IN  MaxOf({shown(c.t.props[i].visible) : i \in Range(PropsOfType(c.t, s, Prompts))})
UpIf(raised, tri) == IF tri = 1 /\ raised THEN 2 ELSE tri
sym_calc_visibility(c, s) == UpIf(c.t.types[s] # "tristate" \/ Tri(c, MS) = 0, Prompted(c, s))
sym_calc_rev_dep(c, s) ==
  UpIf(SymType(c, s) = "boolean",
       IF c.t.rev_dep[s] = NULL \/ s \in c.t.choicevals THEN 0 ELSE Eval(c, c.t.rev_dep[s]))

sym_is_changable(c, s) == Visible(c, s) > RevDep(c, s)

(* sym_calc_choice: the user's choice, else a default, else the first, of  *)
(* those visible.                                                          *)
sym_calc_choice(c, s) ==
  LET of(p) == c.t.props[p].expr.sym
      defaults == SelectSeq(PropsOfType(c.t, s, {"P_DEFAULT"}),
                            LAMBDA p : Eval(c, c.t.props[p].visible) # 0)
      wanted == <<c.def[s].sel>> \o [i \in DOMAIN defaults |-> of(defaults[i])]
                  \o c.t.values[s]
  IN  HeadOr(SelectSeq(wanted, LAMBDA v : v # NoSym /\ Visible(c, v) # 0), NoSym)
ChoiceValue(c, s) == Calc(c, "choice", s)

(* A boolean or tristate, before a choice without visible value becomes n. *)
DefaultTri(c, s, p) ==
  IF s \in c.t.choices \/ p = NoProp THEN 0 ELSE Eval(c, c.t.props[p].expr)
DefaultUnlimited(c, s, dflt) ==
  IF Larger(Visible(c, s), RevDep(c, s)) = 0 THEN dflt
  ELSE Larger(IF c.def[s].set THEN Smaller(TristateOf(c.def[s].v), Visible(c, s)) ELSE dflt,
              RevDep(c, s))
Limited(c, s, dflt) ==
  IF Larger(Visible(c, s), RevDep(c, s)) = 0 THEN dflt
  ELSE Larger(Smaller(IF c.def[s].set THEN TristateOf(c.def[s].v) ELSE dflt, Visible(c, s)),
              RevDep(c, s))
calc_tristate(c, s) ==
  UpIf(SymType(c, s) = "boolean",
       IF s \in c.t.choicevals /\ Visible(c, s) = 2
       THEN IF Tri(c, ChoiceOf(c, s)) = 2 /\ ChoiceValue(c, ChoiceOf(c, s)) = s THEN 2 ELSE 0
       ELSE Limited(c, s, DefaultTri(c, s, DefaultProp(c, s))))

(* sym_validate_range: an integer outside its range becomes its bound.     *)
Between(str, lo, hi) ==
  IF strtol(str) < strtol(lo) THEN lo ELSE IF strtol(str) > strtol(hi) THEN hi ELSE str
ValidatedBy(c, str, p) ==
  IF p = NoProp THEN str
  ELSE Between(str, Value(c, c.t.props[p].expr.sym), Value(c, c.t.props[p].expr.with))
sym_validate_range(c, s, str) ==
  IF c.t.types[s] # "integer" THEN str ELSE ValidatedBy(c, str, RangeProp(c, s))

DefaultString(c, p) == IF p = NoProp THEN "" ELSE Value(c, c.t.props[p].expr.sym)

(* An undefined symbol, or a constant, stands for its name.                *)
sym_calc_value(c, s) ==
  IF s \in ConstTri \/ s \notin DOMAIN c.t.types THEN s
  ELSE IF c.t.types[s] = "unknown" THEN s
  ELSE IF c.t.types[s] \in BoolTypes
  THEN Letter(IF s \in c.t.choices /\ OwnTri(c, s) = 2 /\ \A i \in DOMAIN c.t.values[s] :
                                                            Visible(c, c.t.values[s][i]) = 0
              THEN 0 ELSE OwnTri(c, s))
  ELSE sym_validate_range(c, s,
         IF Visible(c, s) # 0 /\ c.def[s].set THEN c.def[s].v
         ELSE DefaultString(c, DefaultProp(c, s)))

Calc(c, what, s) ==
  CASE what = "value"   -> sym_calc_value(c, s)
    [] what = "visible" -> sym_calc_visibility(c, s)
    [] what = "rev_dep" -> sym_calc_rev_dep(c, s)
    [] what = "type"    -> sym_get_type(c, s)
    [] what = "choice"  -> sym_calc_choice(c, s)
    [] what = "own"     -> calc_tristate(c, s)

(* Is s written to .config?                                                *)
Written(c, s) ==
  IF c.t.types[s] \in BoolTypes
  THEN \/ Larger(Visible(c, s), RevDep(c, s)) # 0
       \/ s \notin c.t.choices /\ DefaultProp(c, s) # NoProp
       \/ s \in c.t.choicevals
          /\ Larger(Visible(c, ChoiceOf(c, s)), RevDep(c, ChoiceOf(c, s))) # 0
  ELSE Visible(c, s) # 0 \/ DefaultProp(c, s) # NoProp

-----------------------------------------------------------------------------
(* Setting values.                                                         *)

sym_tristate_within_range(c, s, val) ==
  /\ Visible(c, s) # 0 /\ SymType(c, s) \in BoolTypes
  /\ ~(SymType(c, s) = "boolean" /\ val = 1)
  /\ Visible(c, s) > RevDep(c, s)
  /\ IF s \in c.t.choicevals /\ Visible(c, s) = 2 THEN val = 2
     ELSE val >= RevDep(c, s) /\ val <= Visible(c, s)

AcceptsTristate(c, s, val) == Tri(c, s) = val \/ sym_tristate_within_range(c, s, val)

(* Setting a choice value to y also makes its choice, and all its visible  *)
(* values, no longer new.                                                  *)
SetChosenOnly(c, s, val) ==
  LET cs == IF s \in c.t.choicevals /\ val = 2 THEN {ChoiceOf(c, s)} ELSE {}
  IN  [x \in DOMAIN c.def |->
         [set |-> c.def[x].set \/ x = s \/ x \in cs,
          v   |-> IF x = s THEN Letter(val) ELSE c.def[x].v,
          sel |-> IF x \in cs THEN s ELSE c.def[x].sel]]
sym_set_tristate_value(c, s, val) ==
  LET alsoSet == IF s \in c.t.choicevals /\ val = 2
                 THEN {ChoiceOf(c, s)} \cup
                      {v \in Range(c.t.values[ChoiceOf(c, s)]) : Visible(c, v) # 0}
                 ELSE {}
  IN  [x \in DOMAIN c.def |->
         [set |-> c.def[x].set \/ x = s \/ x \in alsoSet,
          v   |-> IF x = s THEN Letter(val) ELSE c.def[x].v,
          sel |-> IF x \in alsoSet \cap c.t.choices THEN s ELSE c.def[x].sel]]

sym_string_valid(c, s, str) == c.t.types[s] = "integer" => IsNumber(str)
InRange(c, n, p) ==
  p # NoProp => /\ n >= strtol(Value(c, c.t.props[p].expr.sym))
                /\ n <= strtol(Value(c, c.t.props[p].expr.with))
sym_string_within_range(c, s, str) ==
  /\ sym_string_valid(c, s, str)
  /\ c.t.types[s] = "integer" => InRange(c, strtol(str), RangeProp(c, s))
sym_set_string_value(c, s, str) == [c.def EXCEPT ![s].set = TRUE, ![s].v = str]

-----------------------------------------------------------------------------
(* Reading .config: file maps some symbols to values.  The answer to an    *)
(* invisible question is forgotten, and a choice is new if one of its      *)
(* visible values is.  A choice here is boolean, and a file sets at most   *)
(* one of its values to y.                                                 *)
Fits(tree, file, s) ==
  /\ s \in DOMAIN file
  /\ CASE tree.types[s] = "boolean"  -> file[s] \in {"n", "y"}
       [] tree.types[s] = "tristate" -> file[s] \in ConstTri
       [] tree.types[s] = "integer"  -> IsNumber(file[s])
       [] OTHER                      -> TRUE
conf_read_simple(tree, file) ==
  LET chosen(s) == {v \in Range(tree.values[s]) : Fits(tree, file, v) /\ file[v] = "y"}
      fits(s)   == Fits(tree, file, s)
  IN  [s \in DOMAIN tree.types |->
         IF s \in tree.choices
         THEN [set |-> TRUE, v |-> IF chosen(s) = {} THEN "n" ELSE "y",
               sel |-> IF chosen(s) = {} THEN NoSym ELSE CHOOSE v \in chosen(s) : TRUE]
         ELSE [set |-> fits(s), v |-> IF fits(s) THEN file[s] ELSE "n", sel |-> NoSym]]

Forgotten(c, s) ==
  \/ s \notin c.t.choicevals /\ Visible(c, s) = 0
  \/ s \in c.t.choices
     /\ \E v \in Range(c.t.values[s]) : Visible(c, v) # 0 /\ ~c.def[v].set
  \/ /\ c.def[s].set /\ c.t.types[s] \notin BoolTypes
     /\ ~sym_string_within_range(c, s, c.def[s].v)
conf_read(tree, file) ==
  LET c == [t |-> tree, def |-> conf_read_simple(tree, file)]
  IN  [s \in DOMAIN c.def |-> [c.def[s] EXCEPT !.set = @ /\ ~Forgotten(c, s)]]

(* Does the file hold a value that is not one, or some calculated value    *)
(* differ from the saved one?                                              *)
conf_unsaved(tree, file) ==
  LET c == [t |-> tree, def |-> conf_read_simple(tree, file)]
  IN  \/ \E s \in DOMAIN file : ~Fits(tree, file, s)
      \/ \E s \in DOMAIN c.def \ (tree.choices \cup ConstTri \cup {MS}) :
           /\ tree.types[s] # "unknown"
           /\ ~ \/ c.def[s].set /\ Written(c, s) /\ c.def[s].v = Value(c, s)
                \/ ~c.def[s].set /\ ~Written(c, s)

-----------------------------------------------------------------------------
RECURSIVE menu_is_visible(_, _)
menu_is_visible(c, m) ==
  /\ c.t.menus[m].prompt # NoProp
  /\ LET s == SymOf(c.t, m)
     IN  IF s = NoSym THEN Eval(c, PromptVisible(c.t, m)) # 0
         ELSE \/ Eval(c, PromptVisible(c.t, m)) # 0
              \/ /\ Tri(c, s) # 0
                 /\ \E k \in Range(c.t.kids[m]) : menu_is_visible(c, k)

(* The nearest entry shown as a menu, from m itself on.                    *)
RECURSIVE menu_get_parent_menu(_, _)
menu_get_parent_menu(c, m) ==
  IF m = Root \/ (c.t.menus[m].prompt # NoProp /\ c.t.props[c.t.menus[m].prompt].type = "P_MENU")
  THEN m ELSE menu_get_parent_menu(c, c.t.menus[m].parent)
=============================================================================
