-------------------------- MODULE KconfigTerms_proofs --------------------------
(***************************************************************************)
(* The simplifier of expr.c keeps the value of every expression, however   *)
(* large: expr_transform, expr_eliminate_yn, expr_trans_bool,              *)
(* expr_trans_compare, expr_eq, expr_eliminate_eq, and what                *)
(* expr_eliminate_dups1 makes of two terms.                                *)
(*                                                                         *)
(* The recursive functions of expr.c are functions on a set of trees here, *)
(* of which nothing is known but that they do to each node what            *)
(* KconfigTerms says: that determines them, as trees are finite.           *)
(***************************************************************************)
EXTENDS KconfigTerms, WellFoundedInduction, TLAPS

(* E is the set of the finite trees over the symbols S.  The weight w of a *)
(* tree is more than that of each of its parts, and a negation outweighs   *)
(* that of its parts (!(a && b) more than !a || !b).                       *)
Leaf(e, S) ==
  \/ \E s \in S : e = Symbol(s)
  \/ \E t \in Comparisons, s, v \in S : e = Comp(t, s, v)
Inner(e, E) ==
  \/ \E a \in E : e = Not(a)
  \/ \E t \in Junctions, a, b \in E : e = Two(t, a, b)
Trees(E, S, w) ==
  /\ ConstTri \subseteq S
  /\ \A e : e \in E <=> Leaf(e, S) \/ Inner(e, E)
  /\ w \in [E -> Nat \ {0}]
  /\ \A s \in S : w[Symbol(s)] = 1
  /\ \A t \in Comparisons, s, v \in S : w[Comp(t, s, v)] = 2
  /\ \A a \in E : w[Not(a)] = 2 * w[a]
  /\ \A t \in Junctions, a, b \in E : w[Two(t, a, b)] = w[a] + w[b] + 1

(* V is expr_calc_value for the values val of the symbols.                 *)
Evaluates(V, E, val) ==
  /\ V \in [E -> 0..2]
  /\ \A e \in E : V[e] = NodeValue(e, LAMBDA f : V[f], val)

(* Values that symbols of these types may have (sym_calc_value); y, m and  *)
(* n have no type (symbol.c:14).                                           *)
Suits(val, types, S) ==
  \A s \in S :
    /\ s \in ConstTri => types[s] = "unknown"
    /\ IsConst(types, s) => StringOf(val, s) = s
    /\ types[s] = "boolean" => StringOf(val, s) \in {"y", "n"}
    /\ types[s] = "tristate" => StringOf(val, s) \in ConstTri

-----------------------------------------------------------------------------
(* Trees.                                                                  *)

(* What holds for a tree if it does for all that weigh less, holds for     *)
(* all.                                                                    *)
LEMMA TreeInduction ==
  ASSUME NEW E, NEW S, NEW w, Trees(E, S, w), NEW P,
         \A e \in E : (\A d \in E : w[d] < w[e] => d \in P) => e \in P
  PROVE  E \subseteq P
<1>1. SUFFICES ASSUME E \ P # {} PROVE FALSE
  OBVIOUS
<1> DEFINE T == {w[e] : e \in E \ P}
<1>2. w \in [E -> Nat \ {0}]
  BY DEF Trees
<1>3. T \subseteq Nat /\ T # {}
  BY <1>1, <1>2
<1>4. PICK n \in T : \A m \in T : ~(<<m, n>> \in OpToRel(<, Nat))
  BY <1>3, NatLessThanWellFounded, WFMin
<1>5. OpToRel(<, Nat) = {p \in Nat \X Nat : p[1] < p[2]}
  BY DEF OpToRel
<1>6. \A m \in T : ~(m < n)
  BY <1>3, <1>4, <1>5
<1>7. PICK e \in E \ P : n = w[e]
  BY <1>4
<1>8. \A d \in E : w[d] < w[e] => d \in P
  BY <1>6, <1>7
<1>9. QED
  BY <1>7, <1>8

LEMMA TreeForms ==
  ASSUME NEW E, NEW S, NEW w, Trees(E, S, w)
  PROVE  /\ \A s \in S : Symbol(s) \in E
         /\ \A t \in Comparisons, s, v \in S : Comp(t, s, v) \in E
         /\ \A a \in E : Not(a) \in E
         /\ \A t \in Junctions, a, b \in E : Two(t, a, b) \in E
         /\ \A e \in E : w[e] \in Nat \ {0}
         /\ {"y", "m", "n"} \subseteq S
BY DEF Trees, Leaf, Inner, ConstTri

LEMMA TreeCases ==
  ASSUME NEW E, NEW S, NEW w, Trees(E, S, w), NEW e \in E
  PROVE  \/ \E s \in S : e = Symbol(s)
         \/ \E t \in Comparisons, s, v \in S : e = Comp(t, s, v)
         \/ \E a \in E : e = Not(a)
         \/ \E t \in Junctions, a, b \in E : e = Two(t, a, b)
BY DEF Trees, Leaf, Inner

LEMMA NoNull ==
  ASSUME NEW E, NEW S, NEW w, Trees(E, S, w)
  PROVE  NULL \notin E
BY TreeCases DEF NULL, Symbol, Comp, Not, Two, Comparisons, Junctions

-----------------------------------------------------------------------------
(* Values.                                                                 *)

LEMMA ValueOf ==
  ASSUME NEW E, NEW S, NEW w, Trees(E, S, w), NEW val, NEW V, Evaluates(V, E, val)
  PROVE  /\ \A s \in S : V[Symbol(s)] = TristateOf(StringOf(val, s))
         /\ \A s, v \in S : V[Comp("E_EQUAL", s, v)] =
                              IF StringOf(val, s) = StringOf(val, v) THEN 2 ELSE 0
         /\ \A s, v \in S : V[Comp("E_UNEQUAL", s, v)] =
                              IF StringOf(val, s) = StringOf(val, v) THEN 0 ELSE 2
         /\ \A a \in E : V[Not(a)] = 2 - V[a]
         /\ \A t \in Junctions, a, b \in E : V[Two(t, a, b)] = JunctionValue(t, V[a], V[b])
         /\ \A e \in E : V[e] \in 0..2
<1>0. /\ \A s \in S : Symbol(s) \in E
      /\ \A t \in Comparisons, s, v \in S : Comp(t, s, v) \in E
      /\ \A a \in E : Not(a) \in E
      /\ \A t \in Junctions, a, b \in E : Two(t, a, b) \in E
  BY TreeForms
<1>1. \A s \in S : V[Symbol(s)] = TristateOf(StringOf(val, s))
  BY <1>0 DEF Evaluates, NodeValue, Symbol, Junctions
<1>2. \A s, v \in S : V[Comp("E_EQUAL", s, v)] =
                        IF StringOf(val, s) = StringOf(val, v) THEN 2 ELSE 0
  BY <1>0 DEF Evaluates, NodeValue, Comp, Comparisons, Junctions
<1>3. \A s, v \in S : V[Comp("E_UNEQUAL", s, v)] =
                        IF StringOf(val, s) = StringOf(val, v) THEN 0 ELSE 2
  BY <1>0 DEF Evaluates, NodeValue, Comp, Comparisons, Junctions
<1>4. \A a \in E : V[Not(a)] = 2 - V[a]
  BY <1>0 DEF Evaluates, NodeValue, Not, Junctions
<1>5. \A t \in Junctions, a, b \in E : V[Two(t, a, b)] = JunctionValue(t, V[a], V[b])
  BY <1>0 DEF Evaluates, NodeValue, Two, Junctions
<1>6. QED
  BY <1>1, <1>2, <1>3, <1>4, <1>5 DEF Evaluates

(* The constants y, m and n are what their names say.                      *)
LEMMA ConstValues ==
  ASSUME NEW E, NEW S, NEW w, Trees(E, S, w), NEW val, NEW V, Evaluates(V, E, val),
         NEW types, Suits(val, types, S)
  PROVE  V[Symbol("y")] = 2 /\ V[Symbol("m")] = 1 /\ V[Symbol("n")] = 0
<1>1. \A s \in {"y", "m", "n"} : StringOf(val, s) = s
  BY TreeForms DEF Suits, IsConst, ConstTri
<1>2. QED
  BY <1>1, TreeForms, ValueOf DEF TristateOf

(* The smaller of two values for &&, the greater for ||.                   *)
LEMMA JunctionValues ==
  ASSUME NEW a \in 0..2, NEW b \in 0..2
  PROVE  /\ JunctionValue("E_AND", a, b) = IF a < b THEN a ELSE b
         /\ JunctionValue("E_OR", a, b) = IF a < b THEN b ELSE a
BY DEF JunctionValue

(* !(a && b) is !a || !b, and !(a || b) is !a && !b, also for m.           *)
LEMMA DeMorgan ==
  ASSUME NEW t \in Junctions, NEW a \in 0..2, NEW b \in 0..2
  PROVE  /\ Dual(t) \in Junctions
         /\ JunctionValue(Dual(t), 2 - a, 2 - b) = 2 - JunctionValue(t, a, b)
BY DEF Dual, JunctionValue, Junctions

-----------------------------------------------------------------------------
(* expr_transform.                                                         *)

Transforms(f, E, types) ==
  \A e \in E : f[e] = NodeTransform(e, LAMBDA d : f[d], types)
NegationBy(f, g) == Negation(g, LAMBDA d : f[d])

(* N are the trees in which only symbols other than y, m and n are         *)
(* negated, and no boolean is compared with one of these.                  *)
Normal(N, E, types) ==
  \A e : e \in N <=>
    /\ e \in E
    /\ e.type \in Junctions => e.left \in N /\ e.right \in N
    /\ e.type = "E_NOT" => e.left.type = "E_SYMBOL" /\ e.left.sym \notin ConstTri
    /\ e.type \in Comparisons => types[e.sym] # "boolean" \/ e.with \notin ConstTri

LEMMA NormalForms ==
  ASSUME NEW E, NEW S, NEW w, Trees(E, S, w), NEW types, NEW N, Normal(N, E, types)
  PROVE  /\ N \subseteq E
         /\ \A s \in S : Symbol(s) \in N
         /\ \A s \in S \ ConstTri : Not(Symbol(s)) \in N
         /\ \A a \in E : Not(a) \in N => \E s \in S \ ConstTri : a = Symbol(s)
         /\ \A t \in Comparisons, s, v \in S :
              Comp(t, s, v) \in N <=> types[s] # "boolean" \/ v \notin ConstTri
         /\ \A t \in Junctions, a, b \in E : Two(t, a, b) \in N <=> a \in N /\ b \in N
<1>0. /\ \A s \in S : Symbol(s) \in E
      /\ \A t \in Comparisons, s, v \in S : Comp(t, s, v) \in E
      /\ \A a \in E : Not(a) \in E
      /\ \A t \in Junctions, a, b \in E : Two(t, a, b) \in E
  BY TreeForms
<1>1. N \subseteq E
  BY DEF Normal
<1>2. \A s \in S : Symbol(s) \in N
  BY <1>0 DEF Normal, Symbol, Junctions, Comparisons
<1>3. \A s \in S \ ConstTri : Not(Symbol(s)) \in N
  BY <1>0 DEF Normal, Symbol, Not, Junctions, Comparisons
<1>4. ASSUME NEW a \in E, Not(a) \in N
      PROVE  \E s \in S \ ConstTri : a = Symbol(s)
  <2>1. a.type = "E_SYMBOL" /\ a.sym \notin ConstTri
    BY <1>4 DEF Normal, Not
  <2>2. PICK s \in S : a = Symbol(s)
    BY <2>1, TreeCases DEF Symbol, Comp, Not, Two, Comparisons, Junctions
  <2>3. QED
    BY <2>1, <2>2 DEF Symbol
<1>5. \A t \in Comparisons, s, v \in S :
        Comp(t, s, v) \in N <=> types[s] # "boolean" \/ v \notin ConstTri
  BY <1>0 DEF Normal, Comp, Junctions, Comparisons
<1>6. \A t \in Junctions, a, b \in E : Two(t, a, b) \in N <=> a \in N /\ b \in N
  BY <1>0 DEF Normal, Two, Junctions, Comparisons
<1>7. QED
  BY <1>1, <1>2, <1>3, <1>4, <1>5, <1>6

LEMMA TransformOf ==
  ASSUME NEW E, NEW S, NEW w, Trees(E, S, w), NEW types, NEW f, Transforms(f, E, types)
  PROVE  /\ \A s \in S : f[Symbol(s)] = Symbol(s)
         /\ \A t \in Comparisons, s, v \in S :
              f[Comp(t, s, v)] = TransComparison(Comp(t, s, v), types)
         /\ \A t \in Junctions, a, b \in E : f[Two(t, a, b)] = Two(t, f[a], f[b])
         /\ \A a \in E : f[Not(a)] = NegationBy(f, f[a])
<1>0. /\ \A s \in S : Symbol(s) \in E
      /\ \A t \in Comparisons, s, v \in S : Comp(t, s, v) \in E
      /\ \A a \in E : Not(a) \in E
      /\ \A t \in Junctions, a, b \in E : Two(t, a, b) \in E
  BY TreeForms
<1>1. \A s \in S : f[Symbol(s)] = Symbol(s)
  BY <1>0 DEF Transforms, NodeTransform, Symbol, Junctions, Comparisons
<1>2. ASSUME NEW t \in Comparisons, NEW s \in S, NEW v \in S
      PROVE  f[Comp(t, s, v)] = TransComparison(Comp(t, s, v), types)
  <2>1. Comp(t, s, v).type = t
    BY DEF Comp
  <2>2. QED
    BY <1>0, <2>1 DEF Transforms, NodeTransform, Junctions, Comparisons
<1>3. ASSUME NEW t \in Junctions, NEW a \in E, NEW b \in E
      PROVE  f[Two(t, a, b)] = Two(t, f[a], f[b])
  <2>1. Two(t, a, b).type = t /\ Two(t, a, b).left = a /\ Two(t, a, b).right = b
    BY DEF Two
  <2>2. QED
    BY <1>0, <2>1 DEF Transforms, NodeTransform, Junctions, Comparisons
<1>4. \A a \in E : f[Not(a)] = NegationBy(f, f[a])
  BY <1>0 DEF Transforms, NegationBy, NodeTransform, Not, Junctions, Comparisons
<1>5. QED
  BY <1>1, <1>2, <1>3, <1>4

(* A comparison of a boolean with y, m or n is a symbol, or its negation.  *)
LEMMA ComparisonKept ==
  ASSUME NEW E, NEW S, NEW w, Trees(E, S, w), NEW val, NEW V, Evaluates(V, E, val),
         NEW types, Suits(val, types, S), NEW N, Normal(N, E, types),
         NEW t \in Comparisons, NEW s \in S, NEW v \in S
  PROVE  LET r == TransComparison(Comp(t, s, v), types)
         IN  r \in N /\ w[r] <= 2 /\ V[r] = V[Comp(t, s, v)]
<1> DEFINE e == Comp(t, s, v)
           r == TransComparison(e, types)
<1>1. e.type = t /\ e.sym = s /\ e.with = v /\ w[e] = 2
  BY DEF Comp, Trees
<1>2. /\ \A x \in S : w[Symbol(x)] = 1 /\ Symbol(x) \in E
      /\ \A x \in S : w[Not(Symbol(x))] = 2
  <2>1. \A x \in S : Symbol(x) \in E
    BY TreeForms
  <2>2. /\ \A x \in S : w[Symbol(x)] = 1
        /\ \A a \in E : w[Not(a)] = 2 * w[a]
    BY DEF Trees
  <2>3. QED
    BY <2>1, <2>2
<1>3. CASE types[s] # "boolean" \/ v \notin ConstTri
  <2>1. r = e
    BY <1>1, <1>3 DEF TransComparison
  <2>2. e \in N
    BY <1>3, NormalForms
  <2>3. QED
    BY <2>1, <2>2, <1>1
<1>4. CASE types[s] = "boolean" /\ v \in ConstTri
  <2>1. StringOf(val, s) \in {"y", "n"} /\ StringOf(val, v) = v /\ v \in {"y", "m", "n"}
    BY <1>4 DEF Suits, IsConst, ConstTri
  <2>2. /\ V[e] = IF (t = "E_EQUAL") = (StringOf(val, s) = v) THEN 2 ELSE 0
        /\ V[Symbol(s)] = IF StringOf(val, s) = "y" THEN 2 ELSE 0
        /\ V[Not(Symbol(s))] = IF StringOf(val, s) = "y" THEN 0 ELSE 2
    <3>1. /\ V[Symbol(s)] = TristateOf(StringOf(val, s))
          /\ V[Comp("E_EQUAL", s, v)] = IF StringOf(val, s) = StringOf(val, v) THEN 2 ELSE 0
          /\ V[Comp("E_UNEQUAL", s, v)] = IF StringOf(val, s) = StringOf(val, v) THEN 0 ELSE 2
          /\ V[Not(Symbol(s))] = 2 - V[Symbol(s)]
      BY <1>2, ValueOf
    <3>2. QED
      BY <2>1, <3>1 DEF TristateOf, Comparisons
  <2>3. s \notin ConstTri
    BY <1>4 DEF Suits
  <2>4. CASE v = "m"
    <3>1. r = Symbol(IF t = "E_EQUAL" THEN "n" ELSE "y")
      BY <1>1, <1>4, <2>4 DEF TransComparison
    <3>2. V[r] = V[e]
      BY <3>1, <2>1, <2>2, <2>4, ConstValues
    <3>3. QED
      BY <3>1, <3>2, <1>2, TreeForms, NormalForms
  <2>5. CASE (v = "y") = (t = "E_EQUAL") /\ v # "m"
    <3>1. r = Symbol(s)
      BY <1>1, <1>4, <2>5 DEF TransComparison
    <3>2. V[r] = V[e]
      BY <3>1, <2>1, <2>2, <2>5
    <3>3. QED
      BY <3>1, <3>2, <1>2, NormalForms
  <2>6. CASE (v = "y") # (t = "E_EQUAL") /\ v # "m"
    <3>1. r = Not(Symbol(s))
      BY <1>1, <1>4, <2>6 DEF TransComparison
    <3>2. V[r] = V[e]
      BY <3>1, <2>1, <2>2, <2>6
    <3>3. QED
      BY <3>1, <3>2, <2>3, <1>2, NormalForms
  <2>7. QED
    BY <2>4, <2>5, <2>6
<1>5. QED
  BY <1>3, <1>4

(* What expr_transform does to a negation, when its operand has become g.  *)
LEMMA NegationKept ==
  ASSUME NEW E, NEW S, NEW w, Trees(E, S, w), NEW val, NEW V, Evaluates(V, E, val),
         NEW types, Suits(val, types, S), NEW N, Normal(N, E, types), NEW f,
         NEW g \in N,
         \A d \in E : w[d] < 2 * w[g] => f[d] \in N /\ w[f[d]] <= w[d] /\ V[f[d]] = V[d]
  PROVE  LET r == NegationBy(f, g)
         IN  r \in N /\ w[r] <= 2 * w[g] /\ V[r] = 2 - V[g]
<1> DEFINE r == NegationBy(f, g)
<1>0. /\ g \in E /\ N \subseteq E
      /\ \A a \in E : Not(a) \in E /\ w[a] \in Nat \ {0}
      /\ \A t \in Junctions, a, b \in E : Two(t, a, b) \in E
  BY TreeForms, NormalForms
<1>1. /\ \A s \in S : w[Symbol(s)] = 1
      /\ \A t \in Comparisons, s, v \in S : w[Comp(t, s, v)] = 2
      /\ \A a \in E : w[Not(a)] = 2 * w[a]
      /\ \A t \in Junctions, a, b \in E : w[Two(t, a, b)] = w[a] + w[b] + 1
  BY DEF Trees
<1>2. CASE \E s \in S : g = Symbol(s)
  <2>1. PICK s \in S : g = Symbol(s)
    BY <1>2
  <2>2. g.type = "E_SYMBOL" /\ \A v : Symbol(v) = g => v = s
    BY <2>1 DEF Symbol
  <2>3. CASE s \in ConstTri
    <3>1. r = Symbol(CASE s = "y" -> "n" [] s = "m" -> "m" [] s = "n" -> "y")
      BY <2>1, <2>2, <2>3 DEF NegationBy, Negation, Junctions, Comparisons, ConstTri
    <3>2. V[r] = 2 - V[g]
      BY <2>1, <2>3, <3>1, ConstValues DEF ConstTri
    <3>3. r \in N /\ w[r] = 1
      BY <2>3, <3>1, <1>1, TreeForms, NormalForms DEF ConstTri
    <3>4. QED
      BY <3>2, <3>3, <1>0
  <2>4. CASE s \notin ConstTri
    <3>1. r = Not(g)
      BY <2>1, <2>2, <2>4 DEF NegationBy, Negation, Junctions, Comparisons, ConstTri
    <3>2. r \in N
      BY <2>1, <2>4, <3>1, NormalForms
    <3>3. w[r] = 2 * w[g] /\ V[r] = 2 - V[g]
      BY <3>1, <1>0, <1>1, ValueOf
    <3>4. QED
      BY <3>2, <3>3, <1>0
  <2>5. QED
    BY <2>3, <2>4
<1>3. CASE \E t \in Comparisons, s, v \in S : g = Comp(t, s, v)
  <2>1. PICK t \in Comparisons, s \in S, v \in S : g = Comp(t, s, v)
    BY <1>3
  <2>2. r = Comp(Negated(t), s, v) /\ Negated(t) \in Comparisons
    <3>1. g.type = t /\ [g EXCEPT !.type = Negated(t)] = Comp(Negated(t), s, v)
      BY <2>1 DEF Comp
    <3>2. Negated(t) \in Comparisons
      BY DEF Negated, Comparisons
    <3>3. QED
      BY <2>1, <3>1, <3>2 DEF NegationBy, Negation, Symbol, Junctions, Comparisons
  <2>3. r \in N
    BY <2>1, <2>2, NormalForms
  <2>4. V[r] = 2 - V[g]
    <3>1. \/ t = "E_EQUAL" /\ Negated(t) = "E_UNEQUAL"
          \/ t = "E_UNEQUAL" /\ Negated(t) = "E_EQUAL"
      BY <2>1 DEF Negated, Comparisons
    <3>2. QED
      BY <2>1, <2>2, <3>1, ValueOf
  <2>5. w[r] = 2 /\ w[g] = 2
    BY <2>1, <2>2, <1>1
  <2>6. QED
    BY <2>3, <2>4, <2>5
<1>4. CASE \E a \in E : g = Not(a)
  <2>1. PICK a \in E : g = Not(a)
    BY <1>4
  <2>2. r = f[a]
    <3>1. g.type = "E_NOT" /\ g.left = a
      BY <2>1 DEF Not
    <3>2. QED
      BY <3>1 DEF NegationBy, Negation, Symbol, Junctions, Comparisons
  <2>3. w[a] < 2 * w[g] /\ w[a] <= w[g]
    BY <2>1, <1>0, <1>1
  <2>4. V[g] = 2 - V[a] /\ V[a] \in 0..2
    BY <2>1, ValueOf
  <2>5. f[a] \in N /\ w[f[a]] <= w[a] /\ V[f[a]] = V[a] /\ w[f[a]] \in Nat
    BY <2>3, <1>0
  <2>6. QED
    BY <2>2, <2>3, <2>4, <2>5, <1>0
<1>5. CASE \E t \in Junctions, a, b \in E : g = Two(t, a, b)
  <2>1. PICK t \in Junctions, a \in E, b \in E : g = Two(t, a, b)
    BY <1>5
  <2> DEFINE x == Two(Dual(t), Not(a), Not(b))
  <2>2. r = f[x]
    <3>1. g.type = t /\ g.left = a /\ g.right = b
      BY <2>1 DEF Two
    <3>2. QED
      BY <2>1, <3>1 DEF NegationBy, Negation, Symbol, Junctions, Comparisons
  <2>3. V[a] \in 0..2 /\ V[b] \in 0..2 /\ V[Not(a)] = 2 - V[a] /\ V[Not(b)] = 2 - V[b]
    BY ValueOf
  <2>4. Dual(t) \in Junctions /\ x \in E
    BY <1>0, <2>3, DeMorgan
  <2>5. V[x] = 2 - V[g]
    <3>1. /\ V[x] = JunctionValue(Dual(t), V[Not(a)], V[Not(b)])
          /\ V[g] = JunctionValue(t, V[a], V[b])
      <4>1. Not(a) \in E /\ Not(b) \in E
        BY <1>0
      <4>2. QED
        BY <2>1, <2>4, <4>1, ValueOf
    <3>2. QED
      BY <3>1, <2>3, DeMorgan
  <2>6. w[x] = 2 * w[a] + 2 * w[b] + 1 /\ w[g] = w[a] + w[b] + 1
    <3>1. w[x] = w[Not(a)] + w[Not(b)] + 1
      <4>1. Not(a) \in E /\ Not(b) \in E
        BY <1>0
      <4>2. QED
        BY <2>4, <4>1, <1>1
    <3>2. w[g] = w[a] + w[b] + 1
      BY <2>1, <1>1
    <3>3. QED
      BY <3>1, <3>2, <1>0, <1>1
  <2>7. w[x] < 2 * w[g] /\ w[x] \in Nat
    BY <2>6, <1>0
  <2>8. f[x] \in N /\ w[f[x]] <= w[x] /\ V[f[x]] = V[x] /\ w[f[x]] \in Nat
    BY <2>4, <2>7, <1>0
  <2>9. QED
    BY <2>2, <2>5, <2>7, <2>8, <1>0
<1>6. QED
  BY <1>0, <1>2, <1>3, <1>4, <1>5, TreeCases

(* expr_transform keeps the value of every expression, for all values of   *)
(* the symbols that fit their types, and leaves no negation but of symbols *)
(* and no boolean compared with y, m or n (expr.c:641).                    *)
THEOREM TransformKeeps ==
  ASSUME NEW E, NEW S, NEW w, Trees(E, S, w), NEW val, NEW V, Evaluates(V, E, val),
         NEW types, Suits(val, types, S), NEW N, Normal(N, E, types),
         NEW f, Transforms(f, E, types)
  PROVE  \A e \in E : f[e] \in N /\ V[f[e]] = V[e]
<1> DEFINE P == {e \in E : f[e] \in N /\ w[f[e]] <= w[e] /\ V[f[e]] = V[e]}
<1>0. /\ \A a \in E : w[a] \in Nat \ {0}
      /\ N \subseteq E
  BY TreeForms, NormalForms
<1>1. ASSUME NEW e \in E, \A d \in E : w[d] < w[e] => d \in P
      PROVE  e \in P
  <2>1. CASE \E s \in S : e = Symbol(s)
    <3>1. f[e] = e /\ e \in N
      BY <2>1, TransformOf, NormalForms
    <3>2. QED
      BY <3>1, <1>0
  <2>2. CASE \E t \in Comparisons, s, v \in S : e = Comp(t, s, v)
    <3>1. PICK t \in Comparisons, s \in S, v \in S : e = Comp(t, s, v)
      BY <2>2
    <3>2. f[e] = TransComparison(Comp(t, s, v), types)
      BY <3>1, TransformOf
    <3>3. w[e] = 2
      BY <3>1 DEF Trees
    <3>4. QED
      BY <3>1, <3>2, <3>3, ComparisonKept
  <2>3. CASE \E a \in E : e = Not(a)
    <3>1. PICK a \in E : e = Not(a)
      BY <2>3
    <3>2. w[e] = 2 * w[a]
      BY <3>1 DEF Trees
    <3>3. a \in P
      BY <3>2, <1>0, <1>1
    <3>4. \A d \in E : w[d] < 2 * w[f[a]] => f[d] \in N /\ w[f[d]] <= w[d] /\ V[f[d]] = V[d]
      BY <3>2, <3>3, <1>0, <1>1
    <3>5. /\ f[e] \in N
          /\ w[f[e]] <= 2 * w[f[a]]
          /\ V[f[e]] = 2 - V[f[a]]
      <4>1. f[e] = NegationBy(f, f[a])
        BY <3>1, TransformOf
      <4>2. f[a] \in N
        BY <3>3
      <4>3. QED
        BY <4>1, <4>2, <3>4, NegationKept
    <3>6. V[e] = 2 - V[a]
      BY <3>1, ValueOf
    <3>7. QED
      BY <3>2, <3>3, <3>5, <3>6, <1>0
  <2>4. CASE \E t \in Junctions, a, b \in E : e = Two(t, a, b)
    <3>1. PICK t \in Junctions, a \in E, b \in E : e = Two(t, a, b)
      BY <2>4
    <3>2. w[e] = w[a] + w[b] + 1
      BY <3>1 DEF Trees
    <3>3. a \in P /\ b \in P
      BY <3>2, <1>0, <1>1
    <3>4. f[e] = Two(t, f[a], f[b])
      BY <3>1, TransformOf
    <3>5. f[e] \in N
      BY <3>3, <3>4, <1>0, NormalForms
    <3>6. w[f[e]] = w[f[a]] + w[f[b]] + 1
      BY <3>3, <3>4, <1>0 DEF Trees
    <3>7. V[f[e]] = JunctionValue(t, V[f[a]], V[f[b]]) /\ V[e] = JunctionValue(t, V[a], V[b])
      BY <3>1, <3>3, <3>4, <1>0, ValueOf
    <3>8. QED
      BY <3>2, <3>3, <3>5, <3>6, <3>7, <1>0
  <2>5. QED
    BY <2>1, <2>2, <2>3, <2>4, TreeCases
<1>2. E \subseteq P
  <2> HIDE DEF P
  <2>1. QED
    BY <1>1, TreeInduction
<1>3. QED
  BY <1>2

-----------------------------------------------------------------------------
(* expr_eliminate_yn.                                                      *)

Eliminates(h, E) ==
  \A e \in E : h[e] = NodeYn(e, LAMBDA d : h[d])

(* M are the trees in which no operand of && and || is y or n.             *)
NoYn(M, E) ==
  \A e : e \in M <=>
    /\ e \in E
    /\ e.type \in Junctions =>
         {e.left, e.right} \subseteq M \ {Symbol("y"), Symbol("n")}

LEMMA WithoutYnKept ==
  ASSUME NEW E, NEW S, NEW w, Trees(E, S, w), NEW val, NEW V, Evaluates(V, E, val),
         NEW types, Suits(val, types, S), NEW M, NoYn(M, E),
         NEW t \in Junctions, NEW l \in M, NEW r \in M
  PROVE  WithoutYn(t, l, r) \in M /\ V[WithoutYn(t, l, r)] = JunctionValue(t, V[l], V[r])
<1> DEFINE x == WithoutYn(t, l, r)
<1>0. /\ l \in E /\ r \in E /\ Two(t, l, r) \in E
      /\ Symbol("y") \in E /\ Symbol("n") \in E
  BY TreeForms DEF NoYn
<1>1. V[l] \in 0..2 /\ V[r] \in 0..2
  BY <1>0, ValueOf
<1>2. /\ Unit(t) \in {Symbol("y"), Symbol("n")} /\ Absorber(t) \in {Symbol("y"), Symbol("n")}
      /\ V[Unit(t)] = IF t = "E_AND" THEN 2 ELSE 0
      /\ V[Absorber(t)] = IF t = "E_AND" THEN 0 ELSE 2
      /\ {Unit(t), Absorber(t)} = {Symbol("y"), Symbol("n")}
  BY ConstValues DEF Unit, Absorber, Dual, Junctions
<1>3. Symbol("y") \in M /\ Symbol("n") \in M
  BY <1>0 DEF NoYn, Symbol, Junctions
<1>4. CASE Absorber(t) \in {l, r}
  <2>1. x = Absorber(t)
    BY <1>4 DEF WithoutYn
  <2>2. QED
    BY <2>1, <1>1, <1>2, <1>3, <1>4, JunctionValues DEF Junctions
<1>5. CASE Absorber(t) \notin {l, r} /\ l = Unit(t)
  <2>1. x = r
    BY <1>5 DEF WithoutYn
  <2>2. QED
    BY <2>1, <1>1, <1>2, <1>5, JunctionValues DEF Junctions
<1>6. CASE Absorber(t) \notin {l, r} /\ l # Unit(t) /\ r = Unit(t)
  <2>1. x = l
    BY <1>6 DEF WithoutYn
  <2>2. QED
    BY <2>1, <1>1, <1>2, <1>6, JunctionValues DEF Junctions
<1>7. CASE Absorber(t) \notin {l, r} /\ l # Unit(t) /\ r # Unit(t)
  <2>1. x = Two(t, l, r)
    BY <1>7 DEF WithoutYn
  <2>2. {l, r} \subseteq M \ {Symbol("y"), Symbol("n")}
    BY <1>2, <1>7
  <2>3. x.left = l /\ x.right = r
    BY <2>1 DEF Two
  <2>4. x \in M
    BY <2>1, <2>2, <2>3, <1>0 DEF NoYn
  <2>5. QED
    BY <2>1, <2>4, <1>0, ValueOf
<1>8. QED
  BY <1>4, <1>5, <1>6, <1>7

(* expr_eliminate_yn keeps the value of every expression, and leaves y and *)
(* n nowhere below && and || (expr.c:236).                                 *)
THEOREM EliminateYnKeeps ==
  ASSUME NEW E, NEW S, NEW w, Trees(E, S, w), NEW val, NEW V, Evaluates(V, E, val),
         NEW types, Suits(val, types, S), NEW M, NoYn(M, E), NEW h, Eliminates(h, E)
  PROVE  \A e \in E : h[e] \in M /\ V[h[e]] = V[e]
<1> DEFINE P == {e \in E : h[e] \in M /\ V[h[e]] = V[e]}
<1>0. \A a \in E : w[a] \in Nat \ {0}
  BY TreeForms
<1>1. ASSUME NEW e \in E, \A d \in E : w[d] < w[e] => d \in P
      PROVE  e \in P
  <2>1. CASE e.type \notin Junctions
    <3>1. h[e] = e
      BY <2>1 DEF Eliminates, NodeYn
    <3>2. e \in M
      BY <2>1 DEF NoYn
    <3>3. QED
      BY <3>1, <3>2
  <2>2. CASE \E t \in Junctions, a, b \in E : e = Two(t, a, b)
    <3>1. PICK t \in Junctions, a \in E, b \in E : e = Two(t, a, b)
      BY <2>2
    <3>2. w[e] = w[a] + w[b] + 1
      BY <3>1 DEF Trees
    <3>3. a \in P /\ b \in P
      BY <3>2, <1>0, <1>1
    <3>4. e.type = t /\ e.left = a /\ e.right = b
      BY <3>1 DEF Two
    <3>5. h[e] = WithoutYn(t, h[a], h[b])
      BY <3>1, <3>4 DEF Eliminates, NodeYn
    <3>6. V[e] = JunctionValue(t, V[a], V[b])
      BY <3>1, ValueOf
    <3>7. QED
      BY <3>1, <3>3, <3>5, <3>6, WithoutYnKept
  <2>3. e.type \in Junctions => \E t \in Junctions, a, b \in E : e = Two(t, a, b)
    BY TreeCases DEF Symbol, Comp, Not, Comparisons, Junctions
  <2>4. QED
    BY <2>1, <2>2, <2>3
<1>2. E \subseteq P
  <2> HIDE DEF P
  <2>1. QED
    BY <1>1, TreeInduction
<1>3. QED
  BY <1>2

-----------------------------------------------------------------------------
(* expr_trans_bool.                                                        *)

TransBools(g, E, types) ==
  \A e \in E : g[e] = NodeBool(e, LAMBDA d : g[d], types)

(* FOO!=n becomes FOO only where it does not matter: of a transformed      *)
(* expression it stays whether it is n, all that counts for a boolean      *)
(* (expr.c:322).                                                           *)
THEOREM TransBoolKeeps ==
  ASSUME NEW E, NEW S, NEW w, Trees(E, S, w), NEW val, NEW V, Evaluates(V, E, val),
         NEW types, Suits(val, types, S), NEW N, Normal(N, E, types),
         NEW g, TransBools(g, E, types)
  PROVE  \A e \in N : g[e] \in E /\ (V[g[e]] = 0 <=> V[e] = 0)
<1> DEFINE P == {e \in E : e \in N => g[e] \in E /\ (V[g[e]] = 0 <=> V[e] = 0)}
<1>0. /\ \A a \in E : w[a] \in Nat \ {0}
      /\ N \subseteq E
      /\ \A s \in S : Symbol(s) \in E
      /\ \A t \in Comparisons, s, v \in S : Comp(t, s, v) \in E
  BY TreeForms, NormalForms
<1>1. \A s \in S : g[Symbol(s)] = Symbol(s)
  BY <1>0 DEF TransBools, NodeBool, Symbol, Junctions
<1>2. ASSUME NEW e \in N, \A d \in E : w[d] < w[e] => d \in P
      PROVE  g[e] \in E /\ (V[g[e]] = 0 <=> V[e] = 0)
  <2>0. e \in E
    BY <1>0
  <2>1. CASE \E s \in S : e = Symbol(s)
    BY <2>1, <1>0, <1>1
  <2>2. CASE \E t \in Comparisons, s, v \in S : e = Comp(t, s, v)
    <3>1. PICK t \in Comparisons, s \in S, v \in S : e = Comp(t, s, v)
      BY <2>2
    <3>2. e.type = t /\ e.sym = s /\ e.with = v
      BY <3>1 DEF Comp
    <3>3. CASE t = "E_UNEQUAL" /\ v = "n" /\ types[s] = "tristate"
      <4>1. g[e] = Symbol(s)
        BY <2>0, <3>2, <3>3 DEF TransBools, NodeBool, Junctions
      <4>2. StringOf(val, s) \in {"y", "m", "n"} /\ StringOf(val, v) = "n"
        BY <3>3 DEF Suits, IsConst, ConstTri
      <4>3. V[Symbol(s)] = TristateOf(StringOf(val, s))
        BY ValueOf
      <4>4. V[e] = IF StringOf(val, s) = StringOf(val, v) THEN 0 ELSE 2
        BY <3>1, <3>3, ValueOf
      <4>5. QED
        BY <4>1, <4>2, <4>3, <4>4, <1>0 DEF TristateOf
    <3>4. CASE ~(t = "E_UNEQUAL" /\ v = "n" /\ types[s] = "tristate")
      <4>1. g[e] = e
        BY <2>0, <3>2, <3>4 DEF TransBools, NodeBool, Junctions, Comparisons
      <4>2. QED
        BY <4>1, <2>0
    <3>5. QED
      BY <3>3, <3>4
  <2>3. CASE \E a \in E : e = Not(a)
    <3>1. PICK a \in E : e = Not(a)
      BY <2>3
    <3>2. PICK s \in S : a = Symbol(s)
      BY <3>1, NormalForms
    <3>3. e.type = "E_NOT" /\ e.left = a
      BY <3>1 DEF Not
    <3>4. g[e] = Not(g[a])
      BY <2>0, <3>3 DEF TransBools, NodeBool, Junctions
    <3>5. g[e] = e
      BY <3>1, <3>2, <3>4, <1>1
    <3>6. QED
      BY <3>5, <2>0
  <2>4. CASE \E t \in Junctions, a, b \in E : e = Two(t, a, b)
    <3>1. PICK t \in Junctions, a \in E, b \in E : e = Two(t, a, b)
      BY <2>4
    <3>2. w[e] = w[a] + w[b] + 1
      BY <3>1 DEF Trees
    <3>3. a \in P /\ b \in P
      BY <3>2, <1>0, <1>2
    <3>4. a \in N /\ b \in N
      BY <3>1, NormalForms
    <3>5. e.type = t /\ e.left = a /\ e.right = b
      BY <3>1 DEF Two
    <3>6. g[e] = Two(t, g[a], g[b])
      BY <2>0, <3>1, <3>5 DEF TransBools, NodeBool, Junctions
    <3>7. g[a] \in E /\ g[b] \in E
      BY <3>3, <3>4
    <3>8. g[e] \in E
      BY <3>1, <3>6, <3>7, TreeForms
    <3>9. V[g[e]] = JunctionValue(t, V[g[a]], V[g[b]]) /\ V[e] = JunctionValue(t, V[a], V[b])
      BY <3>1, <3>6, <3>7, ValueOf
    <3>10. /\ V[a] \in 0..2 /\ V[b] \in 0..2 /\ V[g[a]] \in 0..2 /\ V[g[b]] \in 0..2
           /\ V[g[a]] = 0 <=> V[a] = 0
           /\ V[g[b]] = 0 <=> V[b] = 0
      BY <3>3, <3>4, <3>7, ValueOf
    <3>11. V[g[e]] = 0 <=> V[e] = 0
      BY <3>1, <3>9, <3>10 DEF JunctionValue, Junctions
    <3>12. QED
      BY <3>8, <3>11
  <2>5. QED
    BY <2>0, <2>1, <2>2, <2>3, <2>4, TreeCases
<1>3. \A e \in E : (\A d \in E : w[d] < w[e] => d \in P) => e \in P
  BY <1>2
<1>4. E \subseteq P
  <2> HIDE DEF P
  <2>1. QED
    BY <1>3, TreeInduction
<1>5. QED
  BY <1>0, <1>4

-----------------------------------------------------------------------------
(* expr_trans_compare.                                                     *)

Compares(k, E) ==
  \A e \in E, t \in Comparisons : k[t][e] = NodeCompare(e, t, LAMBDA d, u : k[u][d])

(* B are the trees that negate nothing that is m, and read no number and   *)
(* no text but to compare it.                                              *)
NegatesNoModule(B, E, V, val) ==
  \A e : e \in B <=>
    /\ e \in E
    /\ e.type = "E_SYMBOL" => StringOf(val, e.sym) \in ConstTri
    /\ e.type = "E_NOT" => e.left \in B /\ V[e.left] # 1
    /\ e.type \in Junctions => e.left \in B /\ e.right \in B

(* Where nothing is negated that is m, the comparison of an expression     *)
(* with n that is made for finding submenus (menu.c:282) is one: y if it   *)
(* holds, else n.  It is none for !FOO if FOO is m, which becomes FOO='n'  *)
(* (expr.c:913).                                                           *)
THEOREM TransCompareKeeps ==
  ASSUME NEW E, NEW S, NEW w, Trees(E, S, w), NEW val, NEW V, Evaluates(V, E, val),
         NEW types, Suits(val, types, S), NEW B, NegatesNoModule(B, E, V, val), NEW k, Compares(k, E)
  PROVE  \A e \in B, t \in Comparisons :
           k[t][e] \in E /\ V[k[t][e]] = IF (t = "E_EQUAL") = (V[e] = 0) THEN 2 ELSE 0
<1> DEFINE Right(e, t) ==
             k[t][e] \in E /\ V[k[t][e]] = IF (t = "E_EQUAL") = (V[e] = 0) THEN 2 ELSE 0
           P == {e \in E : e \in B => \A t \in Comparisons : Right(e, t)}
<1>0. /\ \A a \in E : w[a] \in Nat \ {0}
      /\ B \subseteq E
      /\ \A t \in Comparisons, s, v \in S : Comp(t, s, v) \in E
      /\ \A a \in E : Not(a) \in E
      /\ "n" \in S
  <2>3. B \subseteq E
    BY DEF NegatesNoModule
  <2>4. QED
    BY <2>3, TreeForms
<1>1. ASSUME NEW e \in B, \A d \in E : w[d] < w[e] => d \in P, NEW t \in Comparisons
      PROVE  Right(e, t)
  <2>1. e \in E
    BY <1>0
  <2>2. k[t][e] = NodeCompare(e, t, LAMBDA d, u : k[u][d])
    BY <2>1, <1>1 DEF Compares
  <2>3. CASE \E s \in S : e = Symbol(s)
    <3>1. PICK s \in S : e = Symbol(s)
      BY <2>3
    <3>2. e.type = "E_SYMBOL" /\ e.sym = s
      BY <3>1 DEF Symbol
    <3>3. k[t][e] = Comp(t, s, "n")
      BY <2>2, <3>2 DEF NodeCompare, Junctions, Comparisons
    <3>4. StringOf(val, s) \in {"y", "m", "n"} /\ StringOf(val, "n") = "n"
      BY <3>2, <1>0 DEF NegatesNoModule, Suits, IsConst, ConstTri
    <3>5. V[e] = TristateOf(StringOf(val, s))
      BY <3>1, ValueOf
    <3>6. V[Comp(t, s, "n")] = IF (t = "E_EQUAL") = (StringOf(val, s) = "n") THEN 2 ELSE 0
      BY <3>4, <1>0, <1>1, ValueOf DEF Comparisons
    <3>7. QED
      BY <3>3, <3>4, <3>5, <3>6, <1>0, <1>1 DEF TristateOf
  <2>4. CASE \E u \in Comparisons, s, v \in S : e = Comp(u, s, v)
    <3>1. PICK u \in Comparisons, s \in S, v \in S : e = Comp(u, s, v)
      BY <2>4
    <3>2. e.type = u
      BY <3>1 DEF Comp
    <3>3. k[t][e] = IF t = "E_EQUAL" THEN Not(e) ELSE e
      BY <2>2, <3>1, <3>2 DEF NodeCompare, Junctions, Comparisons
    <3>4. V[e] \in {0, 2}
      <4>1. u = "E_EQUAL" \/ u = "E_UNEQUAL"
        BY <3>1 DEF Comparisons
      <4>2. QED
        BY <3>1, <4>1, ValueOf
    <3>5. V[Not(e)] = 2 - V[e]
      BY <2>1, ValueOf
    <3>6. QED
      BY <3>3, <3>4, <3>5, <1>0, <2>1, <1>1 DEF Comparisons
  <2>5. CASE \E a \in E : e = Not(a)
    <3>1. PICK a \in E : e = Not(a)
      BY <2>5
    <3>2. e.type = "E_NOT" /\ e.left = a
      BY <3>1 DEF Not
    <3>3. k[t][e] = k[Negated(t)][a]
      BY <2>2, <3>2 DEF NodeCompare, Junctions, Comparisons
    <3>4. a \in B /\ w[e] = 2 * w[a]
      BY <3>1, <3>2 DEF NegatesNoModule, Trees
    <3>5. a \in P
      BY <3>4, <1>0, <1>1
    <3>6. Negated(t) \in Comparisons /\ (Negated(t) = "E_EQUAL" <=> t # "E_EQUAL")
      BY <1>1 DEF Negated, Comparisons
    <3>7. V[e] = 2 - V[a] /\ V[a] \in {0, 2} /\ Right(a, Negated(t))
      <4>1. V[a] \in 0..2 /\ V[a] # 1 /\ V[e] = 2 - V[a]
        BY <2>1, <3>1, <3>2, ValueOf DEF NegatesNoModule
      <4>2. QED
        BY <4>1, <3>4, <3>5, <3>6
    <3>8. QED
      BY <3>3, <3>6, <3>7
  <2>6. CASE \E j \in Junctions, a, b \in E : e = Two(j, a, b)
    <3>1. PICK j \in Junctions, a \in E, b \in E : e = Two(j, a, b)
      BY <2>6
    <3>2. e.type = j /\ e.left = a /\ e.right = b
      BY <3>1 DEF Two
    <3> DEFINE l == k["E_EQUAL"][a]
               r == k["E_EQUAL"][b]
               d == Two(Dual(j), l, r)
    <3>3. k[t][e] = IF t = "E_UNEQUAL" THEN Not(d) ELSE d
      BY <2>2, <3>1, <3>2 DEF NodeCompare, Signed, Junctions, Comparisons
    <3>4. a \in B /\ b \in B /\ w[e] = w[a] + w[b] + 1
      BY <3>1, <3>2 DEF NegatesNoModule, Trees
    <3>5. a \in P /\ b \in P
      BY <3>4, <1>0, <1>1
    <3>6. /\ V[a] \in 0..2 /\ Right(a, "E_EQUAL")
          /\ V[b] \in 0..2 /\ Right(b, "E_EQUAL")
      BY <3>1, <3>4, <3>5, ValueOf DEF Comparisons
    <3>7. Dual(j) \in Junctions /\ d \in E
      BY <3>1, <3>6, DeMorgan, TreeForms
    <3>8. /\ V[d] = JunctionValue(Dual(j), V[l], V[r])
          /\ V[e] = JunctionValue(j, V[a], V[b])
          /\ V[Not(d)] = 2 - V[d]
      BY <3>1, <3>6, <3>7, ValueOf
    <3>9. V[d] = IF V[e] = 0 THEN 2 ELSE 0
      <4>1. /\ V[l] = IF V[a] = 0 THEN 2 ELSE 0
            /\ V[r] = IF V[b] = 0 THEN 2 ELSE 0
        BY <3>6
      <4>2. QED
        BY <3>1, <3>6, <3>8, <4>1 DEF JunctionValue, Junctions, Dual
    <3>10. QED
      BY <3>3, <3>7, <3>8, <3>9, <1>0, <1>1 DEF Comparisons
  <2>7. QED
    BY <2>1, <2>3, <2>4, <2>5, <2>6, TreeCases
<1>2. \A e \in E : (\A d \in E : w[d] < w[e] => d \in P) => e \in P
  <2> SUFFICES ASSUME NEW e \in E, \A d \in E : w[d] < w[e] => d \in P, e \in B
               PROVE  \A t \in Comparisons : Right(e, t)
    OBVIOUS
  <2>1. QED
    BY <1>1
<1>3. E \subseteq P
  <2> HIDE DEF P
  <2>1. QED
    BY <1>2, TreeInduction
<1>4. QED
  BY <1>0, <1>3

-----------------------------------------------------------------------------
(* expr_join_or and expr_join_and.                                         *)

LEMMA ThirdValue ==
  ASSUME NEW u \in ConstTri, NEW v \in ConstTri, u # v
  PROVE  Third(u, v) \in ConstTri /\ ConstTri = {u, v, Third(u, v)}
<1>1. \E x \in ConstTri : x \notin {u, v} /\ ConstTri = {u, v, x}
  BY DEF ConstTri
<1>2. Third(u, v) \in ConstTri /\ Third(u, v) \notin {u, v}
  BY <1>1 DEF Third
<1>3. QED
  BY <1>1, <1>2

(* A tree is known by its type.                                            *)
LEMMA TypedTree ==
  ASSUME NEW E, NEW S, NEW w, Trees(E, S, w), NEW e \in E
  PROVE  /\ e.type = "E_SYMBOL" => e.sym \in S /\ e = Symbol(e.sym)
         /\ e.type \in Comparisons =>
              e.sym \in S /\ e.with \in S /\ e = Comp(e.type, e.sym, e.with)
         /\ e.type = "E_NOT" => e.left \in E /\ e = Not(e.left)
BY TreeCases DEF Symbol, Comp, Not, Two, Comparisons, Junctions

LEMMA ComparedValues ==
  ASSUME NEW E, NEW S, NEW w, Trees(E, S, w), NEW val, NEW V, Evaluates(V, E, val),
         NEW types, Suits(val, types, S), NEW s \in S, NEW v \in S, IsConst(types, v)
  PROVE  /\ V[Comp("E_EQUAL", s, v)] = IF StringOf(val, s) = v THEN 2 ELSE 0
         /\ V[Comp("E_UNEQUAL", s, v)] = IF StringOf(val, s) = v THEN 0 ELSE 2
         /\ V[Symbol(s)] = TristateOf(StringOf(val, s))
         /\ v \in ConstTri => IsConst(types, v)
<1>1. StringOf(val, v) = v
  BY DEF Suits
<1>2. QED
  BY <1>1, ValueOf

(* What expr_join_or replaces two terms on one symbol by has the value of  *)
(* their ||, m included, and is as simple as they are (expr.c:351).        *)
THEOREM JoinOrKeeps ==
  ASSUME NEW E, NEW S, NEW w, Trees(E, S, w), NEW val, NEW V, Evaluates(V, E, val),
         NEW types, Suits(val, types, S), NEW N, Normal(N, E, types),
         NEW a \in E, NEW b \in E, LiteralSym(a) = LiteralSym(b),
         expr_join_or(a, b, types) # NULL
  PROVE  /\ expr_join_or(a, b, types) \in N
         /\ V[expr_join_or(a, b, types)] = JunctionValue("E_OR", V[a], V[b])
<1> DEFINE s == LiteralSym(a)
           r == expr_join_or(a, b, types)
<1>0. V[a] \in 0..2 /\ V[b] \in 0..2
  BY ValueOf
<1>1. CASE types[s] = "tristate" /\ BothCompare("E_EQUAL", a, b)
  <2>1. /\ a.type = "E_EQUAL" /\ b.type = "E_EQUAL" /\ a.with # b.with
        /\ a.with \in ConstTri /\ b.with \in ConstTri
    BY <1>1 DEF BothCompare
  <2>2. s = a.sym /\ s = b.sym
    BY <2>1 DEF LiteralSym
  <2>3. /\ s \in S /\ a.with \in S /\ b.with \in S
        /\ a = Comp("E_EQUAL", s, a.with) /\ b = Comp("E_EQUAL", s, b.with)
    <3>1. a.type \in Comparisons /\ b.type \in Comparisons
      BY <2>1 DEF Comparisons
    <3>2. /\ a.sym \in S /\ a.with \in S /\ a = Comp(a.type, a.sym, a.with)
          /\ b.sym \in S /\ b.with \in S /\ b = Comp(b.type, b.sym, b.with)
      BY <3>1, TypedTree
    <3>3. QED
      BY <3>2, <2>1, <2>2
  <2> DEFINE v == Third(a.with, b.with)
  <2>4. r = Comp("E_UNEQUAL", s, v)
    BY <1>1 DEF expr_join_or
  <2>5. v \in ConstTri /\ ConstTri = {a.with, b.with, v} /\ v \in S
    BY <2>1, ThirdValue, TreeForms DEF ConstTri
  <2>6. StringOf(val, s) \in ConstTri
    BY <1>1, <2>3 DEF Suits
  <2>7. /\ V[a] = IF StringOf(val, s) = a.with THEN 2 ELSE 0
        /\ V[b] = IF StringOf(val, s) = b.with THEN 2 ELSE 0
        /\ V[r] = IF StringOf(val, s) = v THEN 0 ELSE 2
    BY <2>1, <2>3, <2>4, <2>5, ComparedValues DEF IsConst
  <2>8. v # a.with /\ v # b.with
    BY <2>1, <2>5 DEF ConstTri
  <2>9. V[r] = JunctionValue("E_OR", V[a], V[b])
    BY <2>1, <2>5, <2>6, <2>7, <2>8 DEF JunctionValue
  <2>10. r \in N
    BY <1>1, <2>3, <2>4, <2>5, NormalForms DEF Comparisons
  <2>11. QED
    BY <2>9, <2>10
<1>2. CASE types[s] = "boolean" /\ Complements(a, b)
  <2>1. r = Symbol("y")
    BY <1>2 DEF expr_join_or
  <2>2. PICK c \in E : /\ c.type = "E_SYMBOL" /\ c.sym = s
                       /\ \/ a = c /\ b = Not(c)
                          \/ b = c /\ a = Not(c)
    <3>1. CASE a.type = "E_NOT" /\ a.left = b /\ b.type = "E_SYMBOL"
      BY <3>1, TypedTree DEF LiteralSym
    <3>2. CASE b.type = "E_NOT" /\ b.left = a /\ a.type = "E_SYMBOL"
      BY <3>2, TypedTree DEF LiteralSym
    <3>3. QED
      BY <1>2, <3>1, <3>2 DEF Complements
  <2>3. s \in S /\ c = Symbol(s)
    BY <2>2, TypedTree
  <2>4. StringOf(val, s) \in {"y", "n"}
    BY <1>2, <2>3 DEF Suits
  <2>5. V[c] = TristateOf(StringOf(val, s)) /\ V[Not(c)] = 2 - V[c]
    BY <2>2, <2>3, ValueOf
  <2>6. V[r] = 2
    BY <2>1, ConstValues
  <2>7. V[r] = JunctionValue("E_OR", V[a], V[b])
    BY <2>2, <2>4, <2>5, <2>6 DEF JunctionValue, TristateOf
  <2>8. r \in N
    BY <2>1, TreeForms, NormalForms
  <2>9. QED
    BY <2>7, <2>8
<1>3. QED
  BY <1>1, <1>2 DEF expr_join_or

(* Two comparisons, or a symbol and a comparison, in either order.         *)
LEMMA SymbolAndTerms ==
  ASSUME NEW E, NEW S, NEW w, Trees(E, S, w), NEW a \in E, NEW b \in E,
         LiteralSym(a) = LiteralSym(b), NEW t \in Comparisons, NEW v, SymbolAnd(t, v, a, b)
  PROVE  LET s == LiteralSym(a)
         IN  /\ s \in S /\ v \in S
             /\ \/ a = Symbol(s) /\ b = Comp(t, s, v)
                \/ b = Symbol(s) /\ a = Comp(t, s, v)
<1>1. CASE a.type = "E_SYMBOL" /\ b.type = t /\ b.with = v
  <2>1. LiteralSym(a) = a.sym /\ LiteralSym(b) = b.sym
    BY <1>1 DEF LiteralSym, Comparisons
  <2>2. a.sym \in S /\ a = Symbol(a.sym)
    BY <1>1, TypedTree
  <2>3. b.sym \in S /\ b.with \in S /\ b = Comp(b.type, b.sym, b.with)
    BY <1>1, TypedTree
  <2>4. QED
    BY <1>1, <2>1, <2>2, <2>3
<1>2. CASE b.type = "E_SYMBOL" /\ a.type = t /\ a.with = v
  <2>1. LiteralSym(a) = a.sym /\ LiteralSym(b) = b.sym
    BY <1>2 DEF LiteralSym, Comparisons
  <2>2. b.sym \in S /\ b = Symbol(b.sym)
    BY <1>2, TypedTree
  <2>3. a.sym \in S /\ a.with \in S /\ a = Comp(a.type, a.sym, a.with)
    BY <1>2, TypedTree
  <2>4. QED
    BY <1>2, <2>1, <2>2, <2>3
<1>3. QED
  BY <1>1, <1>2 DEF SymbolAnd

LEMMA ComparisonTerms ==
  ASSUME NEW E, NEW S, NEW w, Trees(E, S, w), NEW a \in E, NEW b \in E,
         LiteralSym(a) = LiteralSym(b), a.type \in Comparisons, b.type \in Comparisons
  PROVE  LET s == LiteralSym(a)
         IN  /\ s \in S /\ a.with \in S /\ b.with \in S
             /\ a = Comp(a.type, s, a.with) /\ b = Comp(b.type, s, b.with)
<1>1. LiteralSym(a) = a.sym /\ LiteralSym(b) = b.sym
  BY DEF LiteralSym, Comparisons
<1>2. /\ a.sym \in S /\ a.with \in S /\ a = Comp(a.type, a.sym, a.with)
      /\ b.sym \in S /\ b.with \in S /\ b = Comp(b.type, b.sym, b.with)
  BY TypedTree
<1>3. QED
  BY <1>1, <1>2

(* What expr_join_and replaces two terms on one symbol by has the value of *)
(* their &&, m included (expr.c:415), and is as simple as they are.        *)
THEOREM JoinAndKeeps ==
  ASSUME NEW E, NEW S, NEW w, Trees(E, S, w), NEW val, NEW V, Evaluates(V, E, val),
         NEW types, Suits(val, types, S), NEW N, Normal(N, E, types),
         NEW a \in E, NEW b \in E, LiteralSym(a) = LiteralSym(b),
         expr_join_and(a, b, types) # NULL
  PROVE  LET r == expr_join_and(a, b, types)
         IN  /\ r \in E /\ V[r] = JunctionValue("E_AND", V[a], V[b])
             /\ a \in N /\ b \in N => r \in N
<1> DEFINE s == LiteralSym(a)
           r == expr_join_and(a, b, types)
           sv == StringOf(val, s)
<1>0. types[s] \in {"boolean", "tristate"}
  BY DEF expr_join_and
<1>1. ASSUME s \in S PROVE sv \in {"y", "m", "n"} /\ V[Symbol(s)] = TristateOf(sv)
  BY <1>0, <1>1, ValueOf DEF Suits, ConstTri
<1>2. ASSUME s \in S, NEW v \in ConstTri
      PROVE  /\ Comp("E_EQUAL", s, v) \in E /\ Comp("E_UNEQUAL", s, v) \in E
             /\ V[Comp("E_EQUAL", s, v)] = IF sv = v THEN 2 ELSE 0
             /\ V[Comp("E_UNEQUAL", s, v)] = IF sv = v THEN 0 ELSE 2
             /\ types[s] # "boolean" => Comp("E_EQUAL", s, v) \in N /\ Comp("E_UNEQUAL", s, v) \in N
             /\ types[s] = "boolean" => Comp("E_EQUAL", s, v) \notin N /\ Comp("E_UNEQUAL", s, v) \notin N
  <2>1. v \in S /\ IsConst(types, v)
    BY <1>2, TreeForms DEF ConstTri, IsConst
  <2>2. "E_EQUAL" \in Comparisons /\ "E_UNEQUAL" \in Comparisons
    BY DEF Comparisons
  <2>3. Comp("E_EQUAL", s, v) \in E /\ Comp("E_UNEQUAL", s, v) \in E
    BY <1>2, <2>1, <2>2, TreeForms
  <2>4. /\ V[Comp("E_EQUAL", s, v)] = IF sv = v THEN 2 ELSE 0
        /\ V[Comp("E_UNEQUAL", s, v)] = IF sv = v THEN 0 ELSE 2
    BY <1>2, <2>1, ComparedValues
  <2>5. /\ types[s] # "boolean" => Comp("E_EQUAL", s, v) \in N /\ Comp("E_UNEQUAL", s, v) \in N
        /\ types[s] = "boolean" => Comp("E_EQUAL", s, v) \notin N /\ Comp("E_UNEQUAL", s, v) \notin N
    BY <1>2, <2>1, <2>2, NormalForms
  <2>6. QED
    BY <2>3, <2>4, <2>5
<1>3. CASE SymbolAnd("E_EQUAL", "y", a, b)
  <2>1. /\ s \in S
        /\ \/ a = Symbol(s) /\ b = Comp("E_EQUAL", s, "y")
           \/ b = Symbol(s) /\ a = Comp("E_EQUAL", s, "y")
    BY <1>3, SymbolAndTerms DEF Comparisons
  <2>2. r = Comp("E_EQUAL", s, "y")
    BY <1>0, <1>3, <2>1 DEF expr_join_and, SymbolAnd, BothCompare, Comparisons, Symbol, Comp
  <2>3. V[r] = JunctionValue("E_AND", V[a], V[b])
    BY <2>1, <2>2, <1>1, <1>2 DEF JunctionValue, TristateOf, ConstTri
  <2>4. r \in E /\ (a \in N /\ b \in N => r \in N)
    BY <2>1, <2>2, <1>2 DEF ConstTri
  <2>5. QED
    BY <2>3, <2>4
<1>4. CASE SymbolAnd("E_UNEQUAL", "n", a, b)
  <2>1. /\ s \in S
        /\ \/ a = Symbol(s) /\ b = Comp("E_UNEQUAL", s, "n")
           \/ b = Symbol(s) /\ a = Comp("E_UNEQUAL", s, "n")
    BY <1>4, SymbolAndTerms DEF Comparisons
  <2>2. r = Symbol(s)
    BY <1>0, <1>4, <2>1 DEF expr_join_and, SymbolAnd, BothCompare, Comparisons, Symbol, Comp
  <2>3. V[r] = JunctionValue("E_AND", V[a], V[b])
    BY <2>1, <2>2, <1>1, <1>2 DEF JunctionValue, TristateOf, ConstTri
  <2>4. r \in E /\ r \in N
    BY <2>1, <2>2, TreeForms, NormalForms
  <2>5. QED
    BY <2>3, <2>4
<1>5. CASE SymbolAnd("E_UNEQUAL", "m", a, b)
  <2>1. /\ s \in S
        /\ \/ a = Symbol(s) /\ b = Comp("E_UNEQUAL", s, "m")
           \/ b = Symbol(s) /\ a = Comp("E_UNEQUAL", s, "m")
    BY <1>5, SymbolAndTerms DEF Comparisons
  <2>2. r = Comp("E_EQUAL", s, "y")
    BY <1>0, <1>5, <2>1 DEF expr_join_and, SymbolAnd, BothCompare, Comparisons, Symbol, Comp
  <2>3. V[r] = JunctionValue("E_AND", V[a], V[b])
    BY <2>1, <2>2, <1>1, <1>2 DEF JunctionValue, TristateOf, ConstTri
  <2>4. r \in E /\ (a \in N /\ b \in N => r \in N)
    BY <2>1, <2>2, <1>2 DEF ConstTri
  <2>5. QED
    BY <2>3, <2>4
<1> DEFINE eq == IF a.type = "E_EQUAL" THEN a ELSE b
           ne == IF a.type = "E_EQUAL" THEN b ELSE a
<1>6. CASE types[s] = "tristate" /\ {a.type, b.type} = Comparisons
  <2>1. /\ eq.type = "E_EQUAL" /\ ne.type = "E_UNEQUAL"
        /\ \/ a = eq /\ b = ne
           \/ b = eq /\ a = ne
    BY <1>6 DEF Comparisons
  <2>2. /\ s \in S /\ eq.with \in S /\ ne.with \in S
        /\ eq = Comp("E_EQUAL", s, eq.with) /\ ne = Comp("E_UNEQUAL", s, ne.with)
    BY <2>1, <1>6, ComparisonTerms DEF Comparisons
  <2>3. r = IF ~IsConst(types, eq.with) \/ ~IsConst(types, ne.with) THEN NULL
            ELSE IF eq.with = ne.with THEN Symbol("n") ELSE eq
    BY <1>6, <2>1 DEF expr_join_and, SymbolAnd, BothCompare, Comparisons
  <2>4. IsConst(types, eq.with) /\ IsConst(types, ne.with)
    BY <2>3
  <2>5. /\ V[eq] = IF sv = eq.with THEN 2 ELSE 0
        /\ V[ne] = IF sv = ne.with THEN 0 ELSE 2
    BY <2>2, <2>4, ComparedValues
  <2>6. r = IF eq.with = ne.with THEN Symbol("n") ELSE eq
    BY <2>3, <2>4
  <2>7. V[r] = JunctionValue("E_AND", V[a], V[b])
    BY <2>1, <2>5, <2>6, ConstValues DEF JunctionValue
  <2>8. r \in E /\ (a \in N /\ b \in N => r \in N)
    BY <2>1, <2>6, TreeForms, NormalForms
  <2>9. QED
    BY <2>7, <2>8
<1>7. CASE types[s] = "tristate" /\ BothCompare("E_UNEQUAL", a, b)
  <2>1. /\ a.type = "E_UNEQUAL" /\ b.type = "E_UNEQUAL" /\ a.with # b.with
        /\ a.with \in ConstTri /\ b.with \in ConstTri
    BY <1>7 DEF BothCompare
  <2>2. s \in S /\ a = Comp("E_UNEQUAL", s, a.with) /\ b = Comp("E_UNEQUAL", s, b.with)
    BY <2>1, ComparisonTerms DEF Comparisons
  <2> DEFINE v == Third(a.with, b.with)
  <2>3. r = Comp("E_EQUAL", s, v)
    BY <1>7, <2>1 DEF expr_join_and, SymbolAnd, Comparisons
  <2>4. v \in ConstTri /\ ConstTri = {a.with, b.with, v}
    BY <2>1, ThirdValue
  <2>5. v # a.with /\ v # b.with
    BY <2>1, <2>4 DEF ConstTri
  <2>6. /\ V[a] = IF sv = a.with THEN 0 ELSE 2
        /\ V[b] = IF sv = b.with THEN 0 ELSE 2
        /\ V[r] = IF sv = v THEN 2 ELSE 0
    BY <2>1, <2>2, <2>3, <2>4, <1>2
  <2>7. sv \in {a.with, b.with, v}
    BY <2>2, <2>4, <1>1 DEF ConstTri
  <2>8. V[r] = JunctionValue("E_AND", V[a], V[b])
    BY <2>1, <2>5, <2>6, <2>7 DEF JunctionValue
  <2>9. r \in E /\ r \in N
    BY <1>7, <2>2, <2>3, <2>4, <1>2
  <2>10. QED
    BY <2>8, <2>9
<1>8. QED
  BY <1>0, <1>3, <1>4, <1>5, <1>6, <1>7 DEF expr_join_and

-----------------------------------------------------------------------------
(* expr_eq and expr_eliminate_eq, which call each other: eq are the pairs  *)
(* found equal, el[t][a][b] is what __expr_eliminate_eq(t) leaves of a and *)
(* b.                                                                      *)
PassBy(el, eq, t, a, b) ==
  NodeEliminateEq(t, a, b, LAMBDA u, c, d : el[u][c][d], LAMBDA c, d : <<c, d>> \in eq)
EliminatesEq(el, eq, E) ==
  \A t \in Junctions : \A a, b \in E : el[t][a][b] = PassBy(el, eq, t, a, b)
BothBy(el, h, a, b) == EliminateBoth(a, b, LAMBDA t, c, d : el[t][c][d], LAMBDA d : h[d])
Equals(eq, el, h, E) ==
  \A a, b \in E :
    <<a, b>> \in eq <=> NodeEq(a, b, LAMBDA c, d : <<c, d>> \in eq,
                                     LAMBDA c, d : BothBy(el, h, c, d))

(* p is a and b without a term they had in common, of value c.             *)
Reduces(p, t, a, b, E, w, V) ==
  /\ p[1] \in E /\ p[2] \in E
  /\ w[p[1]] <= w[a] /\ w[p[2]] <= w[b]
  /\ a.type = t => p[1].type = t
  /\ b.type = t => p[2].type = t
  /\ \E c \in 0..2 : /\ V[a] = JunctionValue(t, V[p[1]], c)
                     /\ V[b] = JunctionValue(t, V[p[2]], c)

(* Both facts of a pair of trees.                                          *)
PairKept(a, b, el, eq, E, w, V) ==
  /\ \A t \in Junctions : Reduces(el[t][a][b], t, a, b, E, w, V)
  /\ <<a, b>> \in eq => V[a] = V[b]

PairsKept(el, eq, E, w, V) == \A a, b \in E : PairKept(a, b, el, eq, E, w, V)

PairByPair(P, E, w) ==
  \A a, b \in E :
    (\A c, d \in E : w[c] + w[d] < w[a] + w[b] => <<c, d>> \in P) => <<a, b>> \in P
LEMMA PairInduction ==
  ASSUME NEW E, NEW S, NEW w, Trees(E, S, w), NEW P, PairByPair(P, E, w)
  PROVE  E \X E \subseteq P
<1> DEFINE T == {n \in Nat : \E a, b \in E : <<a, b>> \notin P /\ n = w[a] + w[b]}
<1>1. SUFFICES ASSUME NEW u \in E, NEW v \in E, <<u, v>> \notin P PROVE FALSE
  OBVIOUS
<1>2. w \in [E -> Nat \ {0}]
  BY DEF Trees
<1>3. T \subseteq Nat /\ w[u] + w[v] \in T
  <2>1. w[u] \in Nat /\ w[v] \in Nat
    BY <1>2
  <2>2. w[u] + w[v] \in Nat
    BY <2>1
  <2>3. QED
    BY <1>1, <2>2
<1>4. PICK n \in T : \A m \in T : ~(<<m, n>> \in OpToRel(<, Nat))
  <2> HIDE DEF T
  <2>1. T \subseteq Nat /\ T # {}
    BY <1>3
  <2>2. QED
    BY <2>1, NatLessThanWellFounded, WFMin
<1>5. OpToRel(<, Nat) = {p \in Nat \X Nat : p[1] < p[2]}
  BY DEF OpToRel
<1>6. \A m \in T : ~(m < n)
  BY <1>3, <1>4, <1>5
<1>7. PICK a \in E, b \in E : <<a, b>> \notin P /\ n = w[a] + w[b]
  BY <1>4
<1>8. ASSUME NEW c \in E, NEW d \in E, w[c] + w[d] < w[a] + w[b]
      PROVE  <<c, d>> \in P
  <2>1. w[c] \in Nat /\ w[d] \in Nat
    BY <1>2
  <2>2. w[c] + w[d] \in Nat
    BY <2>1
  <2>3. w[c] + w[d] \notin T
    <3> HIDE DEF T
    <3>1. QED
      BY <1>6, <1>7, <1>8
  <2>4. QED
    BY <2>2, <2>3
<1>9. QED
  BY <1>7, <1>8 DEF PairByPair

(* && and || of three values: in any order, and never less of more.        *)
LEMMA JunctionLaws ==
  ASSUME NEW t \in Junctions, NEW a \in 0..2, NEW b \in 0..2, NEW c \in 0..2, NEW d \in 0..2
  PROVE  /\ JunctionValue(t, a, b) \in 0..2
         /\ JunctionValue(t, a, b) = JunctionValue(t, b, a)
         /\ JunctionValue(t, a, a) = a
         /\ JunctionValue(t, JunctionValue(t, a, b), c) = JunctionValue(t, a, JunctionValue(t, b, c))
         /\ a <= b => JunctionValue(t, a, c) <= JunctionValue(t, b, c)
         /\ JunctionValue(t, JunctionValue(t, a, c), JunctionValue(t, b, d)) =
              JunctionValue(t, JunctionValue(t, a, b), JunctionValue(t, c, d))
<1>1. /\ JunctionValue("E_AND", a, b) \in 0..2 /\ JunctionValue("E_OR", a, b) \in 0..2
  BY DEF JunctionValue
<1>2. CASE t = "E_AND"
  <2>1. \A u, v \in 0..2 : JunctionValue(t, u, v) = IF u < v THEN u ELSE v
    BY <1>2 DEF JunctionValue
  <2> HIDE <1>2
  <2>2. QED
    BY <2>1
<1>3. CASE t = "E_OR"
  <2>1. \A u, v \in 0..2 : JunctionValue(t, u, v) = IF u < v THEN v ELSE u
    BY <1>3 DEF JunctionValue
  <2>2. QED
    BY <2>1
<1>4. QED
  BY <1>2, <1>3 DEF Junctions

(* First the terms of a, if a is a list of them; otherwise those of b.     *)
LEMMA ReducesLeft ==
  ASSUME NEW E, NEW S, NEW w, Trees(E, S, w), NEW val, NEW V, Evaluates(V, E, val),
         NEW t \in Junctions, NEW x \in E, NEW y \in E, NEW b \in E,
         NEW l, Reduces(l, t, x, b, E, w, V),
         NEW r, Reduces(r, t, y, l[2], E, w, V)
  PROVE  Reduces(<<Two(t, l[1], r[1]), r[2]>>, t, Two(t, x, y), b, E, w, V)
<1> DEFINE a == Two(t, x, y)
           p == Two(t, l[1], r[1])
<1>0. SUFFICES Reduces(<<p, r[2]>>, t, a, b, E, w, V)
  OBVIOUS
<1>1. /\ \A d \in E : w[d] \in Nat \ {0}
      /\ \A c, d \in E : Two(t, c, d) \in E /\ w[Two(t, c, d)] = w[c] + w[d] + 1
  BY TreeForms DEF Trees
<1>2. /\ l[1] \in E /\ l[2] \in E /\ r[1] \in E /\ r[2] \in E
      /\ w[l[1]] <= w[x] /\ w[l[2]] <= w[b] /\ w[r[1]] <= w[y] /\ w[r[2]] <= w[l[2]]
      /\ b.type = t => r[2].type = t
  BY DEF Reduces
<1>3. p \in E /\ w[p] <= w[a] /\ w[r[2]] <= w[b]
  <2>1. /\ w[p] = w[l[1]] + w[r[1]] + 1 /\ w[a] = w[x] + w[y] + 1 /\ p \in E
    BY <1>1, <1>2
  <2> HIDE DEF p, a
  <2>2. /\ w[l[1]] \in Nat /\ w[l[2]] \in Nat /\ w[r[1]] \in Nat /\ w[r[2]] \in Nat
        /\ w[x] \in Nat /\ w[y] \in Nat /\ w[b] \in Nat
    BY <1>1, <1>2
  <2>3. QED
    BY <2>1, <2>2, <1>2
<1>4. PICK c \in 0..2 : V[x] = JunctionValue(t, V[l[1]], c) /\ V[b] = JunctionValue(t, V[l[2]], c)
  BY DEF Reduces
<1>5. PICK d \in 0..2 : V[y] = JunctionValue(t, V[r[1]], d) /\ V[l[2]] = JunctionValue(t, V[r[2]], d)
  BY DEF Reduces
<1>6. V[a] = JunctionValue(t, V[x], V[y]) /\ V[p] = JunctionValue(t, V[l[1]], V[r[1]])
  BY <1>2, ValueOf
<1>7. V[l[1]] \in 0..2 /\ V[l[2]] \in 0..2 /\ V[r[1]] \in 0..2 /\ V[r[2]] \in 0..2
  BY <1>2, ValueOf
<1> DEFINE k == JunctionValue(t, c, d)
<1>8. k \in 0..2 /\ k = JunctionValue(t, d, c)
  BY JunctionLaws
<1>9. V[a] = JunctionValue(t, V[p], k)
  BY <1>4, <1>5, <1>6, <1>7, JunctionLaws
<1>10. V[b] = JunctionValue(t, V[r[2]], JunctionValue(t, d, c))
  BY <1>4, <1>5, <1>7, JunctionLaws
<1>11. p.type = t
  BY DEF Two
<1> HIDE DEF k, p, a
<1>12. QED
  BY <1>2, <1>3, <1>8, <1>9, <1>10, <1>11 DEF Reduces

LEMMA ReducesRight ==
  ASSUME NEW E, NEW S, NEW w, Trees(E, S, w), NEW val, NEW V, Evaluates(V, E, val),
         NEW t \in Junctions, NEW x \in E, NEW y \in E, NEW a \in E, a.type # t,
         NEW l, Reduces(l, t, a, x, E, w, V),
         NEW r, Reduces(r, t, l[1], y, E, w, V)
  PROVE  Reduces(<<r[1], Two(t, l[2], r[2])>>, t, a, Two(t, x, y), E, w, V)
<1> DEFINE b == Two(t, x, y)
           p == Two(t, l[2], r[2])
<1>0. SUFFICES Reduces(<<r[1], p>>, t, a, b, E, w, V)
  OBVIOUS
<1>1. /\ \A d \in E : w[d] \in Nat \ {0}
      /\ \A c, d \in E : Two(t, c, d) \in E /\ w[Two(t, c, d)] = w[c] + w[d] + 1
  BY TreeForms DEF Trees
<1>2. /\ l[1] \in E /\ l[2] \in E /\ r[1] \in E /\ r[2] \in E
      /\ w[l[1]] <= w[a] /\ w[l[2]] <= w[x] /\ w[r[1]] <= w[l[1]] /\ w[r[2]] <= w[y]
  BY DEF Reduces
<1>3. p \in E /\ w[p] <= w[b] /\ w[r[1]] <= w[a]
  <2>1. /\ w[p] = w[l[2]] + w[r[2]] + 1 /\ w[b] = w[x] + w[y] + 1 /\ p \in E
    BY <1>1, <1>2
  <2> HIDE DEF p, b
  <2>2. /\ w[l[1]] \in Nat /\ w[l[2]] \in Nat /\ w[r[1]] \in Nat /\ w[r[2]] \in Nat
        /\ w[x] \in Nat /\ w[y] \in Nat /\ w[a] \in Nat
    BY <1>1, <1>2
  <2>3. QED
    BY <2>1, <2>2, <1>2
<1>4. PICK c \in 0..2 : V[a] = JunctionValue(t, V[l[1]], c) /\ V[x] = JunctionValue(t, V[l[2]], c)
  BY DEF Reduces
<1>5. PICK d \in 0..2 : V[l[1]] = JunctionValue(t, V[r[1]], d) /\ V[y] = JunctionValue(t, V[r[2]], d)
  BY DEF Reduces
<1>6. V[b] = JunctionValue(t, V[x], V[y]) /\ V[p] = JunctionValue(t, V[l[2]], V[r[2]])
  BY <1>2, ValueOf
<1>7. V[l[1]] \in 0..2 /\ V[l[2]] \in 0..2 /\ V[r[1]] \in 0..2 /\ V[r[2]] \in 0..2
  BY <1>2, ValueOf
<1> DEFINE k == JunctionValue(t, c, d)
<1>8. k \in 0..2 /\ k = JunctionValue(t, d, c)
  BY JunctionLaws
<1>9. V[b] = JunctionValue(t, V[p], k)
  BY <1>4, <1>5, <1>6, <1>7, JunctionLaws
<1>10. V[a] = JunctionValue(t, V[r[1]], JunctionValue(t, d, c))
  BY <1>4, <1>5, <1>7, JunctionLaws
<1>11. p.type = t
  BY DEF Two
<1> HIDE DEF k, p, b
<1>12. QED
  BY <1>2, <1>3, <1>8, <1>9, <1>10, <1>11 DEF Reduces

LEMMA ReducesFirst ==
  ASSUME NEW E, NEW S, NEW w, Trees(E, S, w), NEW val, NEW V, Evaluates(V, E, val),
         NEW el, NEW eq, EliminatesEq(el, eq, E), NEW t \in Junctions,
         NEW a \in E, NEW b \in E, a.type = t,
         \A c, d \in E : w[c] + w[d] < w[a] + w[b] => PairKept(c, d, el, eq, E, w, V)
  PROVE  Reduces(el[t][a][b], t, a, b, E, w, V)
<1>1. PICK x \in E, y \in E : a = Two(t, x, y)
  BY TreeCases DEF Symbol, Comp, Not, Two, Comparisons, Junctions
<1>2. PICK l : l = el[t][x][b]
  OBVIOUS
<1>3. PICK r : r = el[t][y][l[2]]
  OBVIOUS
<1>4. el[t][a][b] = <<Two(t, l[1], r[1]), r[2]>>
  <2>1. a.left = x /\ a.right = y
    BY <1>1 DEF Two
  <2>2. PassBy(el, eq, t, a, b) = <<Two(t, l[1], r[1]), r[2]>>
    BY <2>1, <1>2, <1>3 DEF PassBy, NodeEliminateEq
  <2>3. QED
    BY <2>2 DEF EliminatesEq
<1>5. w[x] \in Nat \ {0} /\ w[y] \in Nat \ {0} /\ w[b] \in Nat \ {0} /\ w[a] = w[x] + w[y] + 1
  <2>1. w[x] \in Nat \ {0} /\ w[y] \in Nat \ {0} /\ w[b] \in Nat \ {0}
    BY TreeForms
  <2>2. QED
    BY <2>1, <1>1 DEF Trees
<1>6. Reduces(l, t, x, b, E, w, V)
  <2>1. w[x] + w[b] < w[a] + w[b]
    BY <1>5
  <2>2. PairKept(x, b, el, eq, E, w, V)
    BY <2>1
  <2>3. QED
    BY <2>2, <1>2 DEF PairKept
<1>7. Reduces(r, t, y, l[2], E, w, V)
  <2>1. l[2] \in E /\ w[l[2]] <= w[b] /\ w[l[2]] \in Nat
    BY <1>6, TreeForms DEF Reduces
  <2>2. w[y] + w[l[2]] < w[a] + w[b]
    BY <2>1, <1>5
  <2>3. QED
    BY <2>1, <2>2, <1>3 DEF PairKept
<1>8. QED
  BY <1>1, <1>4, <1>6, <1>7, ReducesLeft

LEMMA ReducesSecond ==
  ASSUME NEW E, NEW S, NEW w, Trees(E, S, w), NEW val, NEW V, Evaluates(V, E, val),
         NEW el, NEW eq, EliminatesEq(el, eq, E), NEW t \in Junctions,
         NEW a \in E, NEW b \in E, a.type # t, b.type = t,
         \A c, d \in E : w[c] + w[d] < w[a] + w[b] => PairKept(c, d, el, eq, E, w, V)
  PROVE  Reduces(el[t][a][b], t, a, b, E, w, V)
<1>1. PICK x \in E, y \in E : b = Two(t, x, y)
  BY TreeCases DEF Symbol, Comp, Not, Two, Comparisons, Junctions
<1>2. PICK l : l = el[t][a][x]
  OBVIOUS
<1>3. PICK r : r = el[t][l[1]][y]
  OBVIOUS
<1>4. el[t][a][b] = <<r[1], Two(t, l[2], r[2])>>
  <2>1. b.left = x /\ b.right = y
    BY <1>1 DEF Two
  <2>2. PassBy(el, eq, t, a, b) = <<r[1], Two(t, l[2], r[2])>>
    BY <2>1, <1>2, <1>3 DEF PassBy, NodeEliminateEq
  <2>3. QED
    BY <2>2 DEF EliminatesEq
<1>5. w[x] \in Nat \ {0} /\ w[y] \in Nat \ {0} /\ w[a] \in Nat \ {0} /\ w[b] = w[x] + w[y] + 1
  <2>1. w[x] \in Nat \ {0} /\ w[y] \in Nat \ {0} /\ w[a] \in Nat \ {0}
    BY TreeForms
  <2>2. QED
    BY <2>1, <1>1 DEF Trees
<1>6. Reduces(l, t, a, x, E, w, V)
  <2>1. w[a] + w[x] < w[a] + w[b]
    BY <1>5
  <2>2. PairKept(a, x, el, eq, E, w, V)
    BY <2>1
  <2>3. QED
    BY <2>2, <1>2 DEF PairKept
<1>7. Reduces(r, t, l[1], y, E, w, V)
  <2>1. l[1] \in E /\ w[l[1]] <= w[a] /\ w[l[1]] \in Nat
    BY <1>6, TreeForms DEF Reduces
  <2>2. w[l[1]] + w[y] < w[a] + w[b]
    BY <2>1, <1>5
  <2>3. QED
    BY <2>1, <2>2, <1>3 DEF PairKept
<1>8. QED
  BY <1>1, <1>4, <1>6, <1>7, ReducesRight

(* Two trees that are terms: they are the same, or nothing happens.        *)
LEMMA ReducesTerms ==
  ASSUME NEW E, NEW S, NEW w, Trees(E, S, w), NEW val, NEW V, Evaluates(V, E, val),
         NEW types, Suits(val, types, S),
         NEW el, NEW eq, EliminatesEq(el, eq, E), NEW t \in Junctions,
         NEW a \in E, NEW b \in E, a.type # t, b.type # t,
         <<a, b>> \in eq => V[a] = V[b]
  PROVE  Reduces(el[t][a][b], t, a, b, E, w, V)
<1>1. /\ Unit(t) \in E /\ w[Unit(t)] = 1
      /\ \A d \in E : w[d] \in Nat \ {0} /\ V[d] \in 0..2
  <2>1. \A s \in {"y", "n"} : Symbol(s) \in E
    BY TreeForms
  <2>2. {"y", "n"} \subseteq S
    BY TreeForms
  <2>3. \A s \in S : w[Symbol(s)] = 1
    BY DEF Trees
  <2>4. Unit(t) \in {Symbol("y"), Symbol("n")}
    BY DEF Unit
  <2>5. \A d \in E : w[d] \in Nat \ {0} /\ V[d] \in 0..2
    BY TreeForms, ValueOf
  <2>6. QED
    BY <2>1, <2>2, <2>3, <2>4, <2>5
<1>2. \A v \in 0..2 : JunctionValue(t, V[Unit(t)], v) = v /\ JunctionValue(t, v, V[Unit(t)]) = v
  <2>1. V[Unit(t)] = IF t = "E_AND" THEN 2 ELSE 0
    BY ConstValues DEF Unit
  <2>2. QED
    BY <2>1, JunctionValues DEF Junctions
<1> DEFINE p == el[t][a][b]
<1>3. p = IF <<a, b>> \in eq /\ a \notin {Symbol("y"), Symbol("n")}
          THEN <<Unit(t), Unit(t)>> ELSE <<a, b>>
  <2>1. PassBy(el, eq, t, a, b) =
          IF <<a, b>> \in eq /\ a \notin {Symbol("y"), Symbol("n")}
          THEN <<Unit(t), Unit(t)>> ELSE <<a, b>>
    BY DEF PassBy, NodeEliminateEq
  <2>2. QED
    BY <2>1 DEF EliminatesEq
<1>4. CASE <<a, b>> \in eq /\ a \notin {Symbol("y"), Symbol("n")}
  <2>1. p[1] = Unit(t) /\ p[2] = Unit(t)
    BY <1>3, <1>4
  <2>2. V[a] \in 0..2 /\ V[b] = V[a] /\ V[a] = JunctionValue(t, V[Unit(t)], V[a])
    BY <1>1, <1>2, <1>4
  <2>3. w[Unit(t)] <= w[a] /\ w[Unit(t)] <= w[b]
    BY <1>1
  <2>4. QED
    BY <2>1, <2>2, <2>3, <1>1 DEF Reduces
<1>5. CASE ~(<<a, b>> \in eq /\ a \notin {Symbol("y"), Symbol("n")})
  <2>1. p[1] = a /\ p[2] = b
    BY <1>3, <1>5
  <2>2. /\ V[Unit(t)] \in 0..2
        /\ V[a] = JunctionValue(t, V[a], V[Unit(t)])
        /\ V[b] = JunctionValue(t, V[b], V[Unit(t)])
    BY <1>1, <1>2
  <2>3. w[a] <= w[a] /\ w[b] <= w[b]
    BY <1>1
  <2>4. QED
    BY <2>1, <2>2, <2>3 DEF Reduces
<1>6. QED
  BY <1>4, <1>5

(* Trees found equal, when what they are found equal by is right.          *)
LEMMA EqualKept ==
  ASSUME NEW E, NEW S, NEW w, Trees(E, S, w), NEW val, NEW V, Evaluates(V, E, val),
         NEW types, Suits(val, types, S), NEW M, NoYn(M, E), NEW h, Eliminates(h, E),
         NEW el, NEW eq, EliminatesEq(el, eq, E), Equals(eq, el, h, E),
         NEW a \in E, NEW b \in E, <<a, b>> \in eq,
         \A c, d \in E : w[c] + w[d] < w[a] + w[b] => PairKept(c, d, el, eq, E, w, V)
  PROVE  V[a] = V[b]
<1>1. NodeEq(a, b, LAMBDA c, d : <<c, d>> \in eq, LAMBDA c, d : BothBy(el, h, c, d))
  BY DEF Equals
<1>2. /\ a.type = b.type
      /\ a.type = "E_NOT" => <<a.left, b.left>> \in eq
      /\ a.type \in Junctions => SameSymbol(BothBy(el, h, a, b))
      /\ a.type # "E_NOT" /\ a.type \notin Junctions => a = b
  BY <1>1 DEF NodeEq, Junctions
<1>3. CASE a.type = "E_NOT"
  <2>1. PICK x \in E : a = Not(x)
    BY <1>3, TreeCases DEF Symbol, Comp, Not, Two, Comparisons, Junctions
  <2>2. PICK y \in E : b = Not(y)
    <3>1. b.type = "E_NOT"
      BY <1>2, <1>3
    <3>2. QED
      BY <3>1, TreeCases DEF Symbol, Comp, Not, Two, Comparisons, Junctions
  <2>3. <<x, y>> \in eq
    <3>1. a.left = x /\ b.left = y
      BY <2>1, <2>2 DEF Not
    <3>2. QED
      BY <3>1, <1>2, <1>3
  <2>4. w[x] + w[y] < w[a] + w[b]
    <3>1. w[x] \in Nat \ {0} /\ w[y] \in Nat \ {0}
      BY TreeForms
    <3>2. w[a] = 2 * w[x] /\ w[b] = 2 * w[y]
      BY <2>1, <2>2 DEF Trees
    <3>3. QED
      BY <3>1, <3>2
  <2>5. V[x] = V[y]
    BY <2>3, <2>4 DEF PairKept
  <2>6. V[a] = 2 - V[x] /\ V[b] = 2 - V[y]
    BY <2>1, <2>2, ValueOf
  <2>7. QED
    BY <2>5, <2>6
<1>4. CASE a.type \in Junctions
  <2> DEFINE t == a.type
             p == el[t][a][b]
  <2>1. Reduces(p, t, a, b, E, w, V)
    BY <1>4, ReducesFirst
  <2>2. p[1].type = t /\ p[2].type = t /\ p[1] \in E /\ p[2] \in E
    BY <2>1, <1>2 DEF Reduces
  <2>3. BothBy(el, h, a, b) = <<h[p[1]], h[p[2]]>>
    <3>1. a # NULL /\ b # NULL
      BY NoNull
    <3>2. QED
      BY <2>2, <3>1, <1>4 DEF BothBy, EliminateBoth, EliminateBy, Junctions
  <2>4. h[p[1]] = h[p[2]]
    BY <2>3, <1>2, <1>4 DEF SameSymbol
  <2>5. V[h[p[1]]] = V[p[1]] /\ V[h[p[2]]] = V[p[2]]
    <3>1. \A d \in E : V[h[d]] = V[d]
      BY EliminateYnKeeps
    <3>2. QED
      BY <2>2, <3>1
  <2>6. PICK c \in 0..2 : V[a] = JunctionValue(t, V[p[1]], c) /\ V[b] = JunctionValue(t, V[p[2]], c)
    BY <2>1 DEF Reduces
  <2>7. QED
    BY <2>4, <2>5, <2>6
<1>5. QED
  BY <1>2, <1>3, <1>4

LEMMA AllPairsKept ==
  ASSUME NEW E, NEW S, NEW w, Trees(E, S, w), NEW val, NEW V, Evaluates(V, E, val),
         NEW types, Suits(val, types, S), NEW M, NoYn(M, E), NEW h, Eliminates(h, E),
         NEW el, NEW eq, EliminatesEq(el, eq, E), Equals(eq, el, h, E)
  PROVE  PairsKept(el, eq, E, w, V)
<1> DEFINE P == {p \in E \X E : PairKept(p[1], p[2], el, eq, E, w, V)}
<1>1. ASSUME NEW a \in E, NEW b \in E,
             \A c, d \in E : w[c] + w[d] < w[a] + w[b] => <<c, d>> \in P
      PROVE  <<a, b>> \in P
  <2>1. \A c, d \in E : w[c] + w[d] < w[a] + w[b] => PairKept(c, d, el, eq, E, w, V)
    BY <1>1
  <2>2. <<a, b>> \in eq => V[a] = V[b]
    BY <2>1, EqualKept
  <2>3. ASSUME NEW t \in Junctions
        PROVE  Reduces(el[t][a][b], t, a, b, E, w, V)
    <3>1. CASE a.type = t
      BY <2>1, <3>1, ReducesFirst
    <3>2. CASE a.type # t /\ b.type = t
      BY <2>1, <3>2, ReducesSecond
    <3>3. CASE a.type # t /\ b.type # t
      BY <2>2, <3>3, ReducesTerms
    <3>4. QED
      BY <3>1, <3>2, <3>3
  <2>4. PairKept(a, b, el, eq, E, w, V)
    BY <2>2, <2>3 DEF PairKept
  <2>5. QED
    BY <2>4
<1>2. E \X E \subseteq P
  <2> HIDE DEF P
  <2>1. PairByPair(P, E, w)
    BY <1>1 DEF PairByPair
  <2>2. QED
    BY <2>1, PairInduction
<1>3. \A a, b \in E : <<a, b>> \in P
  <2> HIDE DEF P
  <2>1. QED
    BY <1>2
<1>4. \A a, b \in E : <<a, b>> \in P => PairKept(a, b, el, eq, E, w, V)
  OBVIOUS
<1>5. QED
  BY <1>3, <1>4 DEF PairsKept

(* Expressions that expr_eq calls equal have the same value, whatever the  *)
(* symbols are: so have those of which expr_eliminate_eq leaves the same   *)
(* symbol, in whatever order their terms stand (expr.c:194).               *)
THEOREM ExprEqKeeps ==
  ASSUME NEW E, NEW S, NEW w, Trees(E, S, w), NEW val, NEW V, Evaluates(V, E, val),
         NEW types, Suits(val, types, S), NEW M, NoYn(M, E), NEW h, Eliminates(h, E),
         NEW el, NEW eq, EliminatesEq(el, eq, E), Equals(eq, el, h, E)
  PROVE  \A a, b \in E : <<a, b>> \in eq => V[a] = V[b]
BY AllPairsKept DEF PairsKept, PairKept

(* One pass of expr_eliminate_eq, over the terms of operator t.            *)
EliminatedBy(el, t, p) == EliminateBy(t, p, LAMBDA u, c, d : el[u][c][d])

LEMMA PassKept ==
  ASSUME NEW E, NEW V, NEW w, NEW el, NEW eq,
         PairsKept(el, eq, E, w, V), V \in [E -> 0..2],
         NEW t, NEW o, o[1] \in E, o[2] \in E, NEW p, p = EliminatedBy(el, t, o)
  PROVE  p[1] \in E /\ p[2] \in E /\ (V[p[1]] <= V[p[2]] => V[o[1]] <= V[o[2]])
<1> DEFINE a == o[1]
           b == o[2]
<1>1. CASE t \in Junctions
  <2>1. p = el[t][a][b]
    BY <1>1 DEF EliminatedBy, EliminateBy
  <2>2. Reduces(p, t, a, b, E, w, V)
    BY <1>1, <2>1 DEF PairsKept, PairKept
  <2>3. p[1] \in E /\ p[2] \in E /\ V[p[1]] \in 0..2 /\ V[p[2]] \in 0..2
    BY <2>2 DEF Reduces
  <2>4. PICK c \in 0..2 : V[a] = JunctionValue(t, V[p[1]], c) /\ V[b] = JunctionValue(t, V[p[2]], c)
    BY <2>2 DEF Reduces
  <2>5. QED
    BY <1>1, <2>3, <2>4, JunctionLaws
<1>2. CASE t \notin Junctions
  <2>1. p = o
    BY <1>2 DEF EliminatedBy, EliminateBy
  <2>2. QED
    BY <2>1
<1>3. QED
  BY <1>1, <1>2

(* What expr_eliminate_eq leaves of two expressions is in the order that   *)
(* they are in: if it is y of the second, the first implies the second,    *)
(* which is when menu_finalize makes a menu entry a submenu (menu.c:299).  *)
THEOREM EliminateEqKeeps ==
  ASSUME NEW E, NEW S, NEW w, Trees(E, S, w), NEW val, NEW V, Evaluates(V, E, val),
         NEW types, Suits(val, types, S), NEW M, NoYn(M, E), NEW h, Eliminates(h, E),
         NEW el, NEW eq, EliminatesEq(el, eq, E), Equals(eq, el, h, E)
  PROVE  \A a, b \in E :
           LET p == BothBy(el, h, a, b)
           IN  /\ p[1] \in E /\ p[2] \in E
               /\ V[p[1]] <= V[p[2]] => V[a] <= V[b]
               /\ expr_is_yes(p[2]) => V[a] <= V[b]
<1>1. SUFFICES ASSUME NEW a \in E, NEW b \in E, NEW r, r = BothBy(el, h, a, b)
               PROVE  /\ r[1] \in E /\ r[2] \in E
                      /\ V[r[1]] <= V[r[2]] => V[a] <= V[b]
                      /\ expr_is_yes(r[2]) => V[a] <= V[b]
  OBVIOUS
<1>2. PICK o, p : o = <<a, b>> /\ p = EliminatedBy(el, a.type, o)
  OBVIOUS
<1>3. PICK t : t = IF p[1].type # p[2].type THEN p[2].type ELSE "none"
  OBVIOUS
<1>4. PICK q : q = EliminatedBy(el, t, p)
  OBVIOUS
<1>5. r = <<h[q[1]], h[q[2]]>>
  <2>1. a # NULL /\ b # NULL
    BY NoNull
  <2>2. QED
    BY <2>1, <1>1, <1>2, <1>3, <1>4 DEF BothBy, EliminateBoth, EliminatedBy
<1>6. V \in [E -> 0..2]
  BY DEF Evaluates
<1>7. PairsKept(el, eq, E, w, V)
  BY AllPairsKept
<1>8. p[1] \in E /\ p[2] \in E /\ (V[p[1]] <= V[p[2]] => V[a] <= V[b])
  <2>1. o[1] = a /\ o[2] = b
    BY <1>2
  <2>2. QED
    BY <2>1, <1>2, <1>6, <1>7, PassKept
<1>9. q[1] \in E /\ q[2] \in E /\ (V[q[1]] <= V[q[2]] => V[p[1]] <= V[p[2]])
  BY <1>4, <1>6, <1>7, <1>8, PassKept
<1>10. \A d \in E : h[d] \in E /\ V[h[d]] = V[d]
  <2>1. \A d \in E : h[d] \in M /\ V[h[d]] = V[d]
    BY EliminateYnKeeps
  <2>2. M \subseteq E
    BY DEF NoYn
  <2>3. QED
    BY <2>1, <2>2
<1>11. /\ r[1] \in E /\ r[2] \in E
       /\ V[r[1]] <= V[r[2]] => V[a] <= V[b]
  BY <1>5, <1>8, <1>9, <1>10
<1>12. expr_is_yes(r[2]) => V[r[2]] = 2
  BY <1>11, NoNull, ConstValues DEF expr_is_yes
<1>13. QED
  BY <1>6, <1>11, <1>12

(* Two terms of && or || that expr_eliminate_dups1 makes one: y or n in    *)
(* place of the first and their join in place of the second have the value *)
(* of both (expr.c:535).                                                   *)
JoinBy(eq, t, a, b, types) == NodeJoin(t, a, b, types, LAMBDA c, d : <<c, d>> \in eq)

THEOREM JoinKeeps ==
  ASSUME NEW E, NEW S, NEW w, Trees(E, S, w), NEW val, NEW V, Evaluates(V, E, val),
         NEW types, Suits(val, types, S), NEW N, Normal(N, E, types),
         NEW M, NoYn(M, E), NEW h, Eliminates(h, E),
         NEW el, NEW eq, EliminatesEq(el, eq, E), Equals(eq, el, h, E),
         NEW t \in Junctions, NEW a \in N, NEW b \in N,
         NEW r, r = JoinBy(eq, t, a, b, types), r # NULL
  PROVE  r \in N /\ JunctionValue(t, V[Unit(t)], V[r]) = JunctionValue(t, V[a], V[b])
<1>0. a \in E /\ b \in E /\ V[a] \in 0..2 /\ V[b] \in 0..2
  BY NormalForms, ValueOf
<1>1. r \in N /\ V[r] = JunctionValue(t, V[a], V[b])
  <2>1. CASE <<a, b>> \in eq
    <3>1. r = a
      BY <2>1 DEF JoinBy, NodeJoin
    <3>2. V[a] = V[b]
      BY <2>1, <1>0, ExprEqKeeps
    <3>3. QED
      BY <3>1, <3>2, <1>0, JunctionLaws
  <2>2. CASE <<a, b>> \notin eq
    <3>1. /\ LiteralSym(a) = LiteralSym(b)
          /\ r = IF t = "E_OR" THEN expr_join_or(a, b, types) ELSE expr_join_and(a, b, types)
      BY <2>2 DEF JoinBy, NodeJoin
    <3>2. CASE t = "E_OR"
      BY <3>1, <3>2, <1>0, JoinOrKeeps
    <3>3. CASE t = "E_AND"
      BY <3>1, <3>3, <1>0, JoinAndKeeps
    <3>4. QED
      BY <3>2, <3>3 DEF Junctions
  <2>3. QED
    BY <2>1, <2>2
<1>2. V[Unit(t)] = IF t = "E_AND" THEN 2 ELSE 0
  BY ConstValues DEF Unit
<1>3. V[r] \in 0..2
  <2>1. r \in E
    BY <1>1, NormalForms
  <2>2. QED
    BY <2>1, ValueOf
<1>4. JunctionValue(t, V[Unit(t)], V[r]) = V[r]
  BY <1>2, <1>3, JunctionValues DEF Junctions
<1>5. QED
  BY <1>1, <1>4
=============================================================================
