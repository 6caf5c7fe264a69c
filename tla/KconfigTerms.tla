------------------------------ MODULE KconfigTerms ------------------------------
(***************************************************************************)
(* The dependency expressions of kconfig as trees, and what the functions  *)
(* of expr.c do to one node of a tree, given what they do to those below   *)
(* it.  KconfigExpr has the recursion.                                     *)
(*                                                                         *)
(* An expression is a record tagged with its type.  Symbols are names;     *)
(* "y", "m" and "n" are symbol_yes, symbol_mod and symbol_no, and types[s] *)
(* is what s has been declared as.                                         *)
(***************************************************************************)
EXTENDS Integers

NULL        == [type |-> "NULL"]
Symbol(s)   == [type |-> "E_SYMBOL", sym |-> s]
Not(e)      == [type |-> "E_NOT", left |-> e]
Two(t, a, b)  == [type |-> t, left |-> a, right |-> b]
Comp(t, s, v) == [type |-> t, sym |-> s, with |-> v]

expr_alloc_and(a, b) ==
  IF a = NULL THEN b ELSE IF b = NULL THEN a ELSE Two("E_AND", a, b)
expr_alloc_or(a, b) ==
  IF a = NULL THEN b ELSE IF b = NULL THEN a ELSE Two("E_OR", a, b)

Junctions   == {"E_AND", "E_OR"}
Comparisons == {"E_EQUAL", "E_UNEQUAL"}
Negated(t)  == IF t = "E_EQUAL" THEN "E_UNEQUAL" ELSE "E_EQUAL"
Dual(t)     == IF t = "E_AND" THEN "E_OR" ELSE "E_AND"
(* x && y = x, x && n = n; x || n = x, x || y = y.                         *)
Unit(t)     == Symbol(IF t = "E_AND" THEN "y" ELSE "n")
Absorber(t) == Unit(Dual(t))

ConstTri == {"y", "m", "n"}
IsConst(types, s) == s \in ConstTri \/ types[s] = "const"
expr_is_yes(e) == e = NULL \/ e = Symbol("y")
expr_is_no(e)  == e = Symbol("n")

-----------------------------------------------------------------------------
(* The value of an expression, when val[s] is that of symbol s: a string,  *)
(* which for boolean and tristate symbols is "n", "m" or "y".              *)
StringOf(val, s) == IF s \in DOMAIN val THEN val[s] ELSE s
TristateOf(str)  == CASE str = "y" -> 2 [] str = "m" -> 1 [] OTHER -> 0

JunctionValue(t, a, b) == IF (t = "E_AND") = (a < b) THEN a ELSE b
(* expr_calc_value (expr.c:943).                                           *)
NodeValue(e, Value(_), val) ==
  CASE e.type = "NULL"      -> 2
    [] e.type = "E_SYMBOL"  -> TristateOf(StringOf(val, e.sym))
    [] e.type = "E_NOT"     -> 2 - Value(e.left)
    [] e.type = "E_EQUAL"   -> IF StringOf(val, e.sym) = StringOf(val, e.with) THEN 2 ELSE 0
    [] e.type = "E_UNEQUAL" -> IF StringOf(val, e.sym) = StringOf(val, e.with) THEN 0 ELSE 2
    [] e.type \in Junctions -> JunctionValue(e.type, Value(e.left), Value(e.right))

-----------------------------------------------------------------------------
(* Constants within an expression, whose operands have none.               *)
WithoutYn(t, l, r) ==
  IF Absorber(t) \in {l, r} THEN Absorber(t)
  ELSE IF l = Unit(t) THEN r
  ELSE IF r = Unit(t) THEN l
  ELSE Two(t, l, r)
(* expr_eliminate_yn (expr.c:236).                                         *)
NodeYn(e, Eliminate(_)) ==
  IF e.type \notin Junctions THEN e
  ELSE WithoutYn(e.type, Eliminate(e.left), Eliminate(e.right))

(* Terms that two trees have in common become y (of &&) or n (of ||) in    *)
(* both (expr.c:135).                                                      *)
NodeEliminateEq(t, a, b, Eliminate(_, _, _), Eq(_, _)) ==
  IF a.type = t
  THEN LET l == Eliminate(t, a.left, b)
           r == Eliminate(t, a.right, l[2])
       IN  <<Two(t, l[1], r[1]), r[2]>>
  ELSE IF b.type = t
  THEN LET l == Eliminate(t, a, b.left)
           r == Eliminate(t, l[1], b.right)
       IN  <<r[1], Two(t, l[2], r[2])>>
  ELSE IF Eq(a, b) /\ a \notin {Symbol("y"), Symbol("n")}
  THEN <<Unit(t), Unit(t)>>
  ELSE <<a, b>>

(* expr_eliminate_eq (expr.c:169), a pass for the operator of each.        *)
EliminateBy(t, p, Eliminate(_, _, _)) ==
  IF t \in Junctions THEN Eliminate(t, p[1], p[2]) ELSE p
EliminateBoth(a, b, Eliminate(_, _, _), Yn(_)) ==
  IF NULL \in {a, b} THEN <<a, b>>
  ELSE LET p == EliminateBy(a.type, <<a, b>>, Eliminate)
           q == EliminateBy(IF p[1].type # p[2].type THEN p[2].type ELSE "none", p, Eliminate)
       IN  <<Yn(q[1]), Yn(q[2])>>

(* expr_eq (expr.c:194).                                                   *)
SameSymbol(p) == p[1].type = "E_SYMBOL" /\ p[1] = p[2]
NodeEq(a, b, Eq(_, _), Both(_, _)) ==
  /\ a.type = b.type
  /\ CASE a.type = "E_NOT"     -> Eq(a.left, b.left)
       [] a.type \in Junctions -> SameSymbol(Both(a, b))
       [] OTHER                -> a = b

-----------------------------------------------------------------------------
(* Negation is pushed down to the symbols, and comparisons of booleans are *)
(* replaced.                                                               *)
(* FOO='y' -> FOO, even if FOO is tristate.                                *)
TransComparisonOfAny(e, types) ==
  IF e.with = "m" \/ e.with \notin ConstTri THEN e
  ELSE IF (e.with = "y") = (e.type = "E_EQUAL") THEN Symbol(e.sym) ELSE Not(Symbol(e.sym))
TransComparison(e, types) ==
  LET same == e.type = "E_EQUAL"
  IN  IF types[e.sym] # "boolean" \/ e.with \notin ConstTri THEN e
      ELSE IF e.with = "m" THEN Symbol(IF same THEN "n" ELSE "y")
      ELSE IF (e.with = "y") = same THEN Symbol(e.sym)
      ELSE Not(Symbol(e.sym))

(* expr_transform (expr.c:641), of which E_NOT is at 703.                  *)
Negation(f, Transform(_)) ==
  CASE f.type = "E_NOT" -> Transform(f.left)
    [] f.type \in Comparisons -> [f EXCEPT !.type = Negated(f.type)]
    [] f.type \in Junctions -> Transform(Two(Dual(f.type), Not(f.left), Not(f.right)))
    [] f = Symbol("y") -> Symbol("n")
    [] f = Symbol("m") -> Symbol("m")
    [] f = Symbol("n") -> Symbol("y")
    [] OTHER -> Not(f)
NodeTransform(e, Transform(_), types) ==
  CASE e.type \in Comparisons -> TransComparison(e, types)
    [] e.type \in Junctions   -> Two(e.type, Transform(e.left), Transform(e.right))
    [] e.type = "E_NOT"       -> Negation(Transform(e.left), Transform)
    [] OTHER -> e

(* expr_trans_bool (expr.c:322): FOO!=n -> FOO, where only whether it is n *)
(* matters.                                                                *)
NodeBool(e, Bool(_), types) ==
  CASE e.type \in Junctions -> Two(e.type, Bool(e.left), Bool(e.right))
    [] e.type = "E_NOT"     -> Not(Bool(e.left))
    [] e.type = "E_UNEQUAL" /\ e.with = "n" /\ types[e.sym] = "tristate" -> Symbol(e.sym)
    [] OTHER -> e

(* expr_trans_compare (expr.c:882): e = 'n', or e != 'n' (symbol_no is the *)
(* only one it is called with).                                            *)
Signed(t, f) == IF t = "E_UNEQUAL" THEN Not(f) ELSE f
NodeCompare(e, t, Compare(_, _)) ==
  CASE e.type = "NULL" -> Signed(t, Symbol("n"))
    [] e.type \in Junctions ->
         Signed(t, Two(Dual(e.type), Compare(e.left, "E_EQUAL"), Compare(e.right, "E_EQUAL")))
    [] e.type = "E_NOT" -> Compare(e.left, Negated(t))
    [] e.type \in Comparisons -> IF t = "E_EQUAL" THEN Not(e) ELSE e
    [] e.type = "E_SYMBOL" -> Comp(t, e.sym, "n")

-----------------------------------------------------------------------------
(* Two terms of || or && that make one: NULL if they do not.               *)
Literal(e) == e.type \in {"E_SYMBOL"} \cup Comparisons
Joinable(a, b) ==
  /\ Literal(a) \/ (a.type = "E_NOT" /\ Literal(a.left))
  /\ Literal(b) \/ (b.type = "E_NOT" /\ b.left.type = "E_SYMBOL")
LiteralSym(e) == IF e.type = "E_NOT" THEN e.left.sym ELSE e.sym
Third(v, w) == CHOOSE u \in ConstTri : u \notin {v, w}

(* a and b compare with two different ones of y, m, n in the same way.     *)
BothCompare(t, a, b) ==
  a.type = t /\ b.type = t /\ a.with # b.with /\ {a.with, b.with} \subseteq ConstTri
Complements(a, b) ==
  \/ a.type = "E_NOT" /\ a.left = b /\ b.type = "E_SYMBOL"
  \/ b.type = "E_NOT" /\ b.left = a /\ a.type = "E_SYMBOL"

expr_join_or(a, b, types) ==
  LET s == LiteralSym(a)
  IN  CASE types[s] = "tristate" /\ BothCompare("E_EQUAL", a, b) ->
             Comp("E_UNEQUAL", s, Third(a.with, b.with))
        [] types[s] = "boolean" /\ Complements(a, b) -> Symbol("y")
        [] OTHER -> NULL

SymbolAnd(t, v, a, b) ==
  \/ a.type = "E_SYMBOL" /\ b.type = t /\ b.with = v
  \/ b.type = "E_SYMBOL" /\ a.type = t /\ a.with = v
expr_join_and(a, b, types) ==
  LET s == LiteralSym(a)
  IN  IF types[s] \notin {"boolean", "tristate"} THEN NULL
      ELSE CASE SymbolAnd("E_EQUAL", "y", a, b)   -> Comp("E_EQUAL", s, "y")
             [] SymbolAnd("E_UNEQUAL", "n", a, b) -> Symbol(s)
             [] SymbolAnd("E_UNEQUAL", "m", a, b) -> Comp("E_EQUAL", s, "y")
             [] types[s] = "tristate" /\ {a.type, b.type} = Comparisons ->
                  LET eq == IF a.type = "E_EQUAL" THEN a ELSE b
                      ne == IF a.type = "E_EQUAL" THEN b ELSE a
                  IN  IF ~IsConst(types, eq.with) \/ ~IsConst(types, ne.with) THEN NULL
                      ELSE IF eq.with = ne.with THEN Symbol("n")
                      ELSE eq
             [] types[s] = "tristate" /\ BothCompare("E_UNEQUAL", a, b) ->
                  Comp("E_EQUAL", s, Third(a.with, b.with))
             [] OTHER -> NULL

(* How expr_join_or and expr_join_and begin (expr.c:356, 420).             *)
NodeJoin(t, a, b, types, Eq(_, _)) ==
  IF Eq(a, b) THEN a
  ELSE IF ~Joinable(a, b) \/ LiteralSym(a) # LiteralSym(b) THEN NULL
  ELSE IF t = "E_OR" THEN expr_join_or(a, b, types) ELSE expr_join_and(a, b, types)
=============================================================================
