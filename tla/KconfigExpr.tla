------------------------------ MODULE KconfigExpr ------------------------------
(***************************************************************************)
(* The expressions of kconfig and their simplifier (expr.c): the recursion *)
(* over the nodes of KconfigTerms, and what works on two trees at a time.  *)
(*                                                                         *)
(* The code rewrites an expression in place, through pointers into one     *)
(* tree: where two of them may point into the same tree                    *)
(* (expr_eliminate_dups), they are paths from its root.                    *)
(***************************************************************************)
EXTENDS KconfigTerms, Sequences

RECURSIVE expr_calc_value(_, _)
expr_calc_value(e, val) == NodeValue(e, LAMBDA f : expr_calc_value(f, val), val)

RECURSIVE ExprSymbols(_)
ExprSymbols(e) ==
  CASE e.type = "NULL"         -> {}
    [] e.type = "E_SYMBOL"     -> {e.sym}
    [] e.type \in Comparisons  -> {e.sym, e.with}
    [] e.type = "E_NOT"        -> ExprSymbols(e.left)
    [] e.type \in Junctions    -> ExprSymbols(e.left) \cup ExprSymbols(e.right)

expr_contains_symbol(e, s) == s \in ExprSymbols(e)

(* Is e n whenever s is?                                                   *)
RECURSIVE expr_depends_symbol(_, _)
expr_depends_symbol(e, s) ==
  CASE e.type = "E_AND"     -> expr_depends_symbol(e.left, s) \/ expr_depends_symbol(e.right, s)
    [] e.type = "E_SYMBOL"  -> e.sym = s
    [] e.type = "E_EQUAL"   -> e.sym = s /\ e.with \in {"y", "m"}
    [] e.type = "E_UNEQUAL" -> e.sym = s /\ e.with = "n"
    [] OTHER                -> FALSE

-----------------------------------------------------------------------------
RECURSIVE expr_eliminate_yn(_)
expr_eliminate_yn(e) == NodeYn(e, expr_eliminate_yn)

RECURSIVE expr_transform(_, _)
expr_transform(e, types) == NodeTransform(e, LAMBDA f : expr_transform(f, types), types)

RECURSIVE expr_trans_bool(_, _)
expr_trans_bool(e, types) == NodeBool(e, LAMBDA f : expr_trans_bool(f, types), types)

RECURSIVE expr_trans_compare(_, _)
expr_trans_compare(e, t) == NodeCompare(e, t, expr_trans_compare)

RECURSIVE expr_eq(_, _), EliminateEq(_, _, _)
EliminateEq(t, a, b) == NodeEliminateEq(t, a, b, EliminateEq, expr_eq)
expr_eliminate_eq(a, b) == EliminateBoth(a, b, EliminateEq, expr_eliminate_yn)
expr_eq(a, b) == NodeEq(a, b, expr_eq, expr_eliminate_eq)

(* What two trees have in common, and what is left of each.                *)
RECURSIVE ExtractEq(_, _, _, _)
ExtractEq(t, common, a, b) ==
  IF a.type = t
  THEN LET l == ExtractEq(t, common, a.left, b)
           r == ExtractEq(t, l[1], a.right, l[3])
       IN  <<r[1], Two(t, l[2], r[2]), r[3]>>
  ELSE IF b.type = t
  THEN LET l == ExtractEq(t, common, a, b.left)
           r == ExtractEq(t, l[1], l[2], b.right)
       IN  <<r[1], r[2], Two(t, l[3], r[3])>>
  ELSE IF expr_eq(a, b)
  THEN <<IF common = NULL THEN a ELSE Two(t, common, a), Unit(t), Unit(t)>>
  ELSE <<common, a, b>>
ExtractedYn(x) ==
  IF x[1] = NULL THEN x ELSE <<x[1], expr_eliminate_yn(x[2]), expr_eliminate_yn(x[3])>>
expr_extract_eq(t, a, b) == ExtractedYn(ExtractEq(t, NULL, a, b))

-----------------------------------------------------------------------------
Join(t, a, b, types) == NodeJoin(t, a, b, types, expr_eq)

(* Duplicates within one tree.  st is [e |-> the tree, n |-> trans_count]. *)
RECURSIVE At(_, _), Put(_, _, _)
At(e, p) == IF p = <<>> THEN e ELSE At(e[Head(p)], Tail(p))
Put(e, p, f) ==
  IF p = <<>> THEN f ELSE [e EXCEPT ![Head(p)] = Put(@, Tail(p), f)]
L(p) == Append(p, "left")
R(p) == Append(p, "right")

Replaced(t, st, p1, p2, joined) ==
  IF joined = NULL THEN st
  ELSE [e |-> Put(Put(st.e, p1, Unit(t)), p2, joined), n |-> st.n + 1]

(* Every pair of terms of the tree's outermost operator t is joined, once  *)
(* the terms have been treated themselves.                                 *)
RECURSIVE expr_eliminate_dups1(_, _, _, _, _)
expr_eliminate_dups1(t, st, p1, p2, types) ==
  LET a == At(st.e, p1)
      b == At(st.e, p2)
  IN  CASE a.type = t ->
             expr_eliminate_dups1(t, expr_eliminate_dups1(t, st, L(p1), p2, types),
                                  R(p1), p2, types)
        [] a.type # t /\ b.type = t ->
             expr_eliminate_dups1(t, expr_eliminate_dups1(t, st, p1, L(p2), types),
                                  p1, R(p2), types)
        [] OTHER ->
             IF p1 = p2 THEN st
             ELSE LET in == IF a.type \in Junctions
                            THEN expr_eliminate_dups1(a.type, st, p1, p1, types)
                            ELSE st
                  IN  Replaced(t, in, p1, p2, Join(t, At(in.e, p1), b, types))

(* (FOO || BAR) && (!FOO && !BAR) -> n, and                                *)
(* (FOO && BAR) || (!FOO || !BAR) -> y.  There is no return after the      *)
(* operands of a second term of type t, so the whole of it is tried too.   *)
RECURSIVE expr_eliminate_dups2(_, _, _, _, _)
expr_eliminate_dups2(t, st, p1, p2, types) ==
  IF At(st.e, p1).type = t
  THEN expr_eliminate_dups2(t, expr_eliminate_dups2(t, st, L(p1), p2, types),
                            R(p1), p2, types)
  ELSE LET s1 == IF At(st.e, p2).type = t
                 THEN expr_eliminate_dups2(t, expr_eliminate_dups2(t, st, p1, L(p2), types),
                                           p1, R(p2), types)
                 ELSE st
           op == At(s1.e, p1).type
       IN  IF p1 = p2 \/ op \notin Junctions THEN s1
           ELSE LET s2 == expr_eliminate_dups2(op, s1, p1, p1, types)
                    x  == expr_extract_eq(Dual(op), expr_transform(Not(At(s2.e, p1)), types),
                                          At(s2.e, p2))
                IN  IF x[2] = Unit(Dual(op))
                    THEN [e |-> Put(s2.e, p1, Absorber(Dual(op))), n |-> s2.n + 1]
                    ELSE s2

RECURSIVE expr_eliminate_dups(_, _)
UntilNone(st, types) ==
  IF st.n = 0 THEN st.e ELSE expr_eliminate_dups(expr_eliminate_yn(st.e), types)
expr_eliminate_dups(e, types) ==
  IF e.type \notin Junctions THEN e
  ELSE UntilNone(
         expr_eliminate_dups2(e.type,
           expr_eliminate_dups1(e.type, [e |-> e, n |-> 0], <<>>, <<>>, types),
           <<>>, <<>>, types),
         types)

-----------------------------------------------------------------------------
(* The text shown for an expression, as tokens: parentheses where the      *)
(* operator around it binds more tightly.                                  *)
BindingAlike(t) == CASE t \in {"NULL", "E_NONE"} -> 0 [] t = "E_OR" -> 2 [] t = "E_AND" -> 2
                     [] t = "E_NOT" -> 3 [] OTHER -> 4
Binding(t) == CASE t \in {"NULL", "E_NONE"} -> 0 [] t = "E_OR" -> 1 [] t = "E_AND" -> 2
                [] t = "E_NOT" -> 3 [] OTHER -> 4

RECURSIVE expr_print(_, _)
expr_print(e, prev) ==
  LET text ==
        CASE e.type = "NULL"      -> <<"y">>
          [] e.type = "E_SYMBOL"  -> <<e.sym>>
          [] e.type = "E_NOT"     -> <<"!">> \o expr_print(e.left, "E_NOT")
          [] e.type = "E_EQUAL"   -> <<e.sym, "=", e.with>>
          [] e.type = "E_UNEQUAL" -> <<e.sym, "!=", e.with>>
          [] e.type \in Junctions ->
               expr_print(e.left, e.type)
                 \o <<IF e.type = "E_AND" THEN "&&" ELSE "||">>
                 \o expr_print(e.right, e.type)
  IN  IF Binding(prev) > Binding(e.type) /\ e.type \in Junctions
      THEN <<"(">> \o text \o <<")">> ELSE text

(* How the grammar of zconf.tab.c reads such tokens: || binds less than    *)
(* &&, both to the left, and ! less than a comparison.  Each returns the   *)
(* expression and the position after it.                                   *)
RECURSIVE ParseOr(_, _), ParseAnd(_, _), ParseNot(_, _),
          MoreOr(_, _, _), MoreAnd(_, _, _)
TokenAt(toks, i) == IF i <= Len(toks) THEN toks[i] ELSE "end"
MoreOr(toks, e, i) ==
  IF TokenAt(toks, i) # "||" THEN <<e, i>>
  ELSE LET r == ParseAnd(toks, i + 1) IN MoreOr(toks, Two("E_OR", e, r[1]), r[2])
MoreAnd(toks, e, i) ==
  IF TokenAt(toks, i) # "&&" THEN <<e, i>>
  ELSE LET r == ParseNot(toks, i + 1) IN MoreAnd(toks, Two("E_AND", e, r[1]), r[2])
ParseOr(toks, i)  == LET a == ParseAnd(toks, i) IN MoreOr(toks, a[1], a[2])
ParseAnd(toks, i) == LET a == ParseNot(toks, i) IN MoreAnd(toks, a[1], a[2])
ParseNot(toks, i) ==
  CASE toks[i] = "!" -> LET a == ParseNot(toks, i + 1) IN <<Not(a[1]), a[2]>>
    [] toks[i] = "(" -> LET a == ParseOr(toks, i + 1) IN <<a[1], a[2] + 1>>
    [] OTHER ->
         CASE TokenAt(toks, i + 1) = "="  -> <<Comp("E_EQUAL", toks[i], toks[i + 2]), i + 3>>
           [] TokenAt(toks, i + 1) = "!=" -> <<Comp("E_UNEQUAL", toks[i], toks[i + 2]), i + 3>>
           [] OTHER -> <<Symbol(toks[i]), i + 1>>
Parsed(toks) == ParseOr(toks, 1)[1]
=============================================================================
