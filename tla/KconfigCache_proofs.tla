------------------------- MODULE KconfigCache_proofs -------------------------
(***************************************************************************)
(* The cache of the symbol table is coherent, for every Kconfig file: what *)
(* is valid agrees with a fresh evaluation, whatever the user answers,     *)
(* loads and saves, and in whatever order symbols are calculated.          *)
(***************************************************************************)
EXTENDS KconfigSymbols, WellFoundedInduction, TLAPS

-----------------------------------------------------------------------------
(* Helpers.                                                                *)

(* The first index of a nonempty set of them is in the set.                *)
LEMMA FirstIn ==
  ASSUME NEW I \in SUBSET Nat, I # {}
  PROVE  First(I) \in I
<1>1. \E i \in I : \A j \in I : ~(<<j, i>> \in OpToRel(<, Nat))
  BY NatLessThanWellFounded, WFMin
<1>2. OpToRel(<, Nat) = {p \in Nat \X Nat : p[1] < p[2]}
  BY DEF OpToRel
<1>3. ASSUME NEW i \in Nat, NEW j \in Nat, ~(<<j, i>> \in OpToRel(<, Nat))
      PROVE  i <= j
  <2>1. ~(j < i)
    BY <1>2, <1>3
  <2>2. QED
    BY <2>1
<1>4. \E i \in I : \A j \in I : i <= j
  BY <1>1, <1>3
<1>5. QED
  BY <1>4 DEF First

(* An expression has one of the three values.                              *)
LEMMA ExprTri == ASSUME NEW e, NEW val PROVE ExprValue(e, val) \in Tri
  BY DEF ExprValue, Tri, yes, mod, no

(* It depends on the values of its symbols only.                           *)
LEMMA ExprLocal ==
  ASSUME NEW e, NEW f, NEW g, \A s \in ExprSymbols(e) : f[s] = g[s]
  PROVE  ExprValue(e, f) = ExprValue(e, g)
<1>1. \A c \in e : \A l \in c : LitValue(l, f) = LitValue(l, g)
  BY DEF LitValue, ExprSymbols
<1>2. \A c \in e : ConjValue(c, f) = ConjValue(c, g)
  BY <1>1 DEF ConjValue
<1>3. QED
  BY <1>2 DEF ExprValue

(* E_AND and E_OR are the minimum and the maximum.                         *)
LEMMA AndOr ==
  ASSUME NEW a \in Tri, NEW b \in Tri
  PROVE  /\ E_AND(a, b) \in Tri /\ E_OR(a, b) \in Tri
         /\ E_AND(a, b) <= a /\ E_AND(a, b) <= b
         /\ a <= E_OR(a, b) /\ b <= E_OR(a, b)
         /\ E_AND(a, b) \in {a, b} /\ E_OR(a, b) \in {a, b}
  BY DEF E_AND, E_OR, Tri, yes, mod, no

LEMMA NoModuleTri ==
  ASSUME NEW t \in Tri, NEW b \in BOOLEAN
  PROVE  NoModule(t, b) \in Tri /\ (b => NoModule(t, b) # mod)
  BY DEF NoModule, Tri, yes, mod, no

(* The values and the default values of a choice are sequences of values.  *)
LEMMA ChoiceSequences ==
  ASSUME NEW c \in Choices
  PROVE  /\ DOMAIN Values[c] \subseteq Nat
         /\ \A i \in DOMAIN Values[c] :
              Values[c][i] \in Symbols \ (Choices \cup {Modules})
         /\ DOMAIN ChoiceDefaults[c] \subseteq Nat
         /\ \A i \in DOMAIN ChoiceDefaults[c] :
              ChoiceDefaults[c][i].sym \in ValueSet(c)
<1>1. Values[c] \in Seq(Symbols \ (Choices \cup {Modules}))
  BY KconfigAssumption
<1> DEFINE D == [sym : ValueSet(c), cond : Expressions(Symbols)]
<1>2. ChoiceDefaults[c] \in Seq(D)
  BY KconfigAssumption
<1>3. \A d \in D : d.sym \in ValueSet(c)
  OBVIOUS
<1> HIDE DEF D
<1>4. QED
  BY <1>1, <1>2, <1>3

LEMMA DefaultSequences ==
  ASSUME NEW s \in Symbols PROVE DOMAIN Defaults[s] \subseteq Nat
<1> DEFINE D == [value : Expressions(Symbols), cond : Expressions(Symbols)]
<1>1. Defaults[s] \in Seq(D)
  BY KconfigAssumption
<1> HIDE DEF D
<1>2. QED
  BY <1>1

(* A choice value has one choice.                                          *)
LEMMA ChoiceOfValue ==
  ASSUME NEW c \in Choices, NEW v \in ValueSet(c)
  PROVE  /\ IsChoiceValue(v) /\ ChoiceOf(v) = c
         /\ v \in Symbols \ (Choices \cup {Modules})
         /\ v \in Tristates <=> c \in Tristates
         /\ Defaults[v] = <<>>
<1>1. IsChoiceValue(v)
  BY DEF IsChoiceValue
<1>2. ChoiceOf(v) \in Choices /\ v \in ValueSet(ChoiceOf(v))
  BY <1>1 DEF IsChoiceValue, ChoiceOf
<1>3. v \in Symbols \ (Choices \cup {Modules})
  BY ChoiceSequences DEF ValueSet
<1>4. QED
  BY <1>1, <1>2, <1>3, KconfigAssumption

LEMMA ChoiceValue ==
  ASSUME NEW v, IsChoiceValue(v)
  PROVE  ChoiceOf(v) \in Choices /\ v \in ValueSet(ChoiceOf(v))
  BY DEF IsChoiceValue, ChoiceOf

-----------------------------------------------------------------------------
(* What one evaluation yields.                                             *)

LEMMA VisibilityTri ==
  ASSUME TypeOK, NEW s \in Symbols, NEW t \in Tri
  PROVE  PromptValue(s, t) \in Tri /\ Visibility(s) \in Tri
<1>1. \A x \in Tri : PromptValue(s, x) \in Tri
  <2> SUFFICES ASSUME NEW x \in Tri PROVE PromptValue(s, x) \in Tri
    OBVIOUS
  <2>1. ExprValue(Prompt[s], curr) \in Tri
    BY ExprTri
  <2>2. E_AND(x, ExprValue(Prompt[s], curr)) \in Tri
    BY <2>1, AndOr
  <2>3. QED
    BY <2>1, <2>2, NoModuleTri DEF PromptValue
<1>2. IsChoiceValue(s) => curr[ChoiceOf(s)] \in Tri
  BY ChoiceValue, KconfigAssumption DEF TypeOK
<1>3. QED
  BY <1>1, <1>2 DEF Visibility, Tri

LEMMA LowerBoundTri ==
  ASSUME TypeOK, NEW s \in Symbols
  PROVE  LowerBound(s) \in Tri
<1> DEFINE e == ExprValue(Selects[s], curr)
           p == E_AND(ExprValue(Prompt[s], curr), mod)
           r == IF s \in Choices \ OptionalChoices THEN E_OR(e, p) ELSE e
<1>1. e \in Tri /\ p \in Tri
  BY ExprTri, AndOr DEF Tri
<1>2. r \in Tri
  BY <1>1, AndOr
<1> HIDE DEF r
<1>3. NoModule(r, IsBoolean(s, Visibility(s))) \in Tri
  BY <1>2 DEF NoModule, Tri
<1>4. QED
  BY <1>3 DEF LowerBound, TypeOK, r

LEMMA UserOrDefaultTri ==
  ASSUME TypeOK, NEW s \in Symbols
  PROVE  UserOrDefault(s) \in Tri /\ DefaultValue(s) \in Tri
<1>1. DefaultValue(s) \in Tri
  BY ExprTri DEF DefaultValue, Tri
<1>2. QED
  BY <1>1 DEF UserOrDefault, TypeOK, Tri

LEMMA BaseValueTri ==
  ASSUME TypeOK, NEW s \in Symbols
  PROVE  BaseValue(s) \in Tri /\ NewValue(s) \in Tri
<1>1. DefaultValue(s) \in Tri /\ UserOrDefault(s) \in Tri
  BY UserOrDefaultTri
<1>3. E_OR(E_AND(UserOrDefault(s), Visibility(s)), LowerBound(s)) \in Tri
  BY <1>1, VisibilityTri, LowerBoundTri, AndOr
<1>4. BaseValue(s) \in Tri
  BY <1>1, <1>3 DEF BaseValue, NoModule, Tri
<1>5. QED
  BY <1>4 DEF NewValue, Tri

(* sym_calc_choice yields a visible value of the choice, if any.           *)
LEMMA CalcChoiceValue ==
  ASSUME NEW c \in Choices, def_sel[c] \in ValueSet(c) \cup {None},
         CalcChoice(c) # None
  PROVE  CalcChoice(c) \in ValueSet(c) /\ Shown(CalcChoice(c))
<1>1. LiveChoices(c) \in SUBSET Nat /\ ShownValues(c) \in SUBSET Nat
  BY ChoiceSequences DEF LiveChoices, ShownValues
<1>2. ASSUME LiveChoices(c) # {}
      PROVE  LET v == ChoiceDefaults[c][First(LiveChoices(c))].sym
             IN  v \in ValueSet(c) /\ Shown(v)
  <2>1. First(LiveChoices(c)) \in LiveChoices(c)
    BY <1>1, <1>2, FirstIn
  <2>2. QED
    BY <2>1, ChoiceSequences DEF LiveChoices
<1>3. ASSUME ShownValues(c) # {}
      PROVE  LET v == Values[c][First(ShownValues(c))]
             IN  v \in ValueSet(c) /\ Shown(v)
  <2>1. First(ShownValues(c)) \in ShownValues(c)
    BY <1>1, <1>3, FirstIn
  <2>2. QED
    BY <2>1 DEF ShownValues, ValueSet
<1>4. QED
  BY <1>2, <1>3 DEF CalcChoice

LEMMA SelectedType ==
  ASSUME TypeOK, NEW c \in Choices
  PROVE  /\ CalcChoice(c) # None =>
              CalcChoice(c) \in Symbols /\ Shown(CalcChoice(c))
         /\ NewSelected(c) \in Symbols \cup {None}
<1>1. ASSUME LiveChoices(c) # {}
      PROVE  LET v == ChoiceDefaults[c][First(LiveChoices(c))].sym
             IN  v \in Symbols /\ Shown(v)
  <2>1. LiveChoices(c) \in SUBSET Nat
    BY ChoiceSequences DEF LiveChoices
  <2>2. First(LiveChoices(c)) \in LiveChoices(c)
    BY <1>1, <2>1, FirstIn
  <2>3. QED
    BY <2>2, ChoiceOfValue, ChoiceSequences DEF LiveChoices
<1>2. ASSUME ShownValues(c) # {}
      PROVE  LET v == Values[c][First(ShownValues(c))]
             IN  v \in Symbols /\ Shown(v)
  <2>1. ShownValues(c) \in SUBSET Nat
    BY ChoiceSequences DEF ShownValues
  <2>2. First(ShownValues(c)) \in ShownValues(c)
    BY <1>2, <2>1, FirstIn
  <2>3. QED
    BY <2>2, ChoiceSequences DEF ShownValues
<1>3. QED
  BY <1>1, <1>2 DEF CalcChoice, NewSelected, TypeOK

-----------------------------------------------------------------------------
(* The table holds values of the right kind in every state.                *)

LEMMA TypeOperation == ASSUME TypeOK, Operation PROVE ops' \in Nat
  BY DEF TypeOK, Operation

LEMMA TypeInit == ASSUME Init PROVE TypeOK
<1>1. file \in FileLines \cup {NoFile}
  BY KconfigAssumption DEF Init
<1>2. 0 \in Nat
  OBVIOUS
<1>3. no \in Tri
  BY DEF Tri
<1>4. QED
  BY <1>1, <1>2, <1>3, Zenon DEF Init, TypeOK

LEMMA TypeCalc ==
  ASSUME TypeOK, NEW s \in Symbols, sym_calc_value(s)
  PROVE  TypeOK'
<1>1. /\ Visibility(s) \in Tri /\ LowerBound(s) \in Tri /\ NewValue(s) \in Tri
      /\ \A v \in Symbols : PromptValue(v, yes) \in Tri
  BY VisibilityTri, LowerBoundTri, BaseValueTri DEF Tri
<1>2. s \in Choices => NewSelected(s) \in Symbols \cup {None}
  BY SelectedType
<1>3. selected' \in [Choices -> Symbols \cup {None}]
  BY <1>2 DEF sym_calc_value, TypeOK
<1>4. visible' \in [Symbols -> Tri]
  BY <1>1 DEF sym_calc_value, TypeOK
<1>5. NewWrite(s) \subseteq Symbols
  BY ChoiceOfValue DEF NewWrite, TypeOK
<1>6. /\ curr' \in [Symbols -> Tri] /\ rev_dep' \in [Symbols -> Tri]
      /\ modules_val' \in Tri /\ forced' \in BOOLEAN
      /\ valid' \subseteq Symbols /\ stale' \subseteq Symbols
  BY <1>1 DEF sym_calc_value, TypeOK
<1>7. write' \subseteq Symbols
  BY <1>5 DEF sym_calc_value
<1>8. asked' \in [sym : Symbols, val : Tri, clean : BOOLEAN] \cup {None}
  <2>1. Doubted(asked) \in [sym : Symbols, val : Tri, clean : BOOLEAN] \cup {None}
    BY DEF Doubted, TypeOK
  <2>2. asked' \in {asked, Doubted(asked)}
    BY DEF sym_calc_value
  <2>3. QED
    BY <2>1, <2>2 DEF TypeOK
<1>9. QED
  BY <1>3, <1>4, <1>6, <1>7, <1>8 DEF sym_calc_value, TypeOK, ioVars, userVars

LEMMA TypeAccept ==
  ASSUME TypeOK, NEW s \in Symbols, NEW val \in Tri, Accept(s, val)
  PROVE  TypeOK'
<1>1. def_user' \subseteq Symbols
  BY ChoiceValue, ChoiceOfValue, KconfigAssumption DEF Accept, TypeOK
<1>2. def_sel' \in [Choices -> Symbols \cup {None}]
  BY DEF Accept, TypeOK
<1>3. /\ def' \in [Symbols -> Tri] /\ valid' \subseteq Symbols
      /\ stale' \subseteq Symbols /\ forced' \in BOOLEAN /\ changed' \in BOOLEAN
  <2>1. def' \in [Symbols -> Tri]
    BY DEF Accept, TypeOK
  <2>2. CASE curr[s] # val
    BY <2>1, <2>2 DEF Accept, sym_clear_all_valid, TypeOK
  <2>3. CASE curr[s] = val
    BY <2>1, <2>3, KconfigAssumption DEF Accept, TypeOK
  <2>4. QED
    BY <2>2, <2>3
<1>4. /\ asked' \in [sym : Symbols, val : Tri, clean : BOOLEAN] \cup {None}
      /\ reread' \in {0, 1, 2} /\ ops' \in Nat
  BY DEF Accept, Operation, TypeOK
<1>5. QED
  BY <1>1, <1>2, <1>3, <1>4 DEF Accept, ioVars, TypeOK

(* sym_toggle_tristate_value ends up accepting some value.                 *)
LEMMA ToggleAccepts ==
  ASSUME TypeOK, NEW s \in Symbols, sym_toggle_tristate_value(s)
  PROVE  /\ Idle /\ OnScreen(s)
         /\ \E val \in Tri : Accept(s, val)
<1> DEFINE next(k) == Following(curr[s], k)
           ok      == {k \in 1..3 : k = 3 \/ WithinRange(s, next(k))}
<1>1. ok \in SUBSET Nat /\ ok # {}
  <2>1. 3 \in ok
    OBVIOUS
  <2>2. QED
    BY <2>1
<1>2. First(ok) \in ok
  BY <1>1, FirstIn
<1> HIDE DEF ok
<1>3. First(ok) \in 1..3
  BY <1>2 DEF ok
<1>4. \A k \in 1..3 : next(k) \in Tri
  BY DEF Following, TypeOK, Tri, no, mod, yes
<1>5. Accept(s, next(First(ok)))
  BY DEF sym_toggle_tristate_value, ok
<1>6. QED
  BY <1>3, <1>4, <1>5 DEF sym_toggle_tristate_value

LEMMA TypeReadSimple ==
  ASSUME TypeOK, conf_read_simple
  PROVE  TypeOK'
<1>1. file \in FileLines
  BY DEF conf_read_simple, TypeOK
<1>2. \A s \in Named : LineValue(s) \in Tri
  BY <1>1 DEF LineValue, Accepted, FileLines, Tri
<1>3. def' \in [Symbols -> Tri]
  BY <1>2 DEF conf_read_simple, Tri
<1>4. ASSUME NEW c \in Choices, SetValues(c) # {}
      PROVE  Values[c][First(SetValues(c))] \in Symbols
  <2>1. SetValues(c) \in SUBSET Nat
    BY ChoiceSequences DEF SetValues
  <2>2. First(SetValues(c)) \in SetValues(c)
    BY <1>4, <2>1, FirstIn
  <2>3. QED
    BY <2>2, ChoiceSequences DEF SetValues
<1>5. def_sel' \in [Choices -> Symbols \cup {None}]
  BY <1>4 DEF conf_read_simple
<1>6. def_user' \subseteq Symbols
  BY KconfigAssumption DEF conf_read_simple, Named
<1>7. unsaved' \in BOOLEAN
  BY DEF conf_read_simple
<1>8. QED
  BY <1>3, <1>5, <1>6, <1>7, TypeOperation DEF conf_read_simple, TypeOK

LEMMA TypeNext == ASSUME TypeOK, [Next]_vars PROVE TypeOK'
<1>1. CASE \E s \in Symbols : sym_calc_value(s)
  BY <1>1, TypeCalc
<1>2. CASE \E s \in Symbols, val \in Tri : sym_set_tristate_value(s, val)
  BY <1>2, TypeAccept DEF sym_set_tristate_value
<1>3. CASE \E s \in Symbols : sym_toggle_tristate_value(s)
  BY <1>3, ToggleAccepts, TypeAccept
<1>4. CASE conf_read_missing
  BY <1>4, TypeOperation DEF conf_read_missing, tableVars, userVars, TypeOK
<1>5. CASE conf_read_absent
  BY <1>5, TypeOperation DEF conf_read_absent, tableVars, userVars, ioVars, TypeOK
<1>6. CASE conf_read_simple
  BY <1>6, TypeReadSimple
<1>7. ASSUME NEW s \in Symbols, ReadCheck(s) PROVE TypeOK'
  <2>1. /\ def_user' \subseteq Symbols /\ stale' \subseteq Symbols
        /\ todo' \subseteq Symbols /\ unsaved' \in BOOLEAN
    BY <1>7 DEF ReadCheck, TypeOK
  <2>2. QED
    BY <1>7, <2>1 DEF ReadCheck, tableVars, TypeOK
<1>8. CASE conf_read_done
  BY <1>8 DEF conf_read_done, tableVars, userVars, TypeOK
<1>9. CASE conf_write_begin
  BY <1>9, TypeOperation
     DEF conf_write_begin, sym_clear_all_valid, userVars, TypeOK
<1>10. CASE conf_write_end
  <2>1. file' \in FileLines
    BY <1>10 DEF conf_write_end, FileLines, Named, TypeOK
  <2>2. QED
    BY <1>10, <2>1 DEF conf_write_end, tableVars, userVars, TypeOK
<1>11. CASE conf_write_failed
  BY <1>11 DEF conf_write_failed, tableVars, userVars, TypeOK
<1>12. CASE UNCHANGED vars
  BY <1>12 DEF vars, tableVars, userVars, ioVars, TypeOK
<1>13. QED
  BY <1>1, <1>2, <1>3, <1>4, <1>5, <1>6, <1>7, <1>8, <1>9, <1>10, <1>11,
     <1>12 DEF Next

(* Every variable of the symbol table keeps its type.                      *)
THEOREM TypeCorrect == Spec => []TypeOK
  BY TypeInit, TypeNext, PTL DEF Spec

-----------------------------------------------------------------------------
(* An evaluation depends on the inputs of its symbol only.                 *)

SameInputs(t) ==
  /\ \A u \in Deps(t) : curr'[u] = curr[u]
  /\ t \in Tristates => modules_val' = modules_val
  /\ IsChoiceValue(t) => /\ rev_dep'[t] = rev_dep[t]
                         /\ selected'[ChoiceOf(t)] = selected[ChoiceOf(t)]

LEMMA DepsOf ==
  ASSUME NEW t \in Symbols
  PROVE  /\ ExprSymbols(Prompt[t]) \subseteq Deps(t)
         /\ ~IsChoiceValue(t) => ExprSymbols(Selects[t]) \subseteq Deps(t)
         /\ t \in Choices =>
              /\ ~IsChoiceValue(t)
              /\ \A v \in ValueSet(t) : ExprSymbols(Prompt[v]) \subseteq Deps(t)
              /\ \A i \in DOMAIN ChoiceDefaults[t] :
                   ExprSymbols(ChoiceDefaults[t][i].cond) \subseteq Deps(t)
         /\ t \notin Choices =>
              \A i \in DOMAIN Defaults[t] :
                /\ ExprSymbols(Defaults[t][i].cond) \subseteq Deps(t)
                /\ ExprSymbols(Defaults[t][i].value) \subseteq Deps(t)
         /\ IsChoiceValue(t) => ChoiceOf(t) \in Deps(t)
<1>1. /\ ExprSymbols(Prompt[t]) \subseteq Deps(t)
      /\ ~IsChoiceValue(t) => ExprSymbols(Selects[t]) \subseteq Deps(t)
      /\ IsChoiceValue(t) => ChoiceOf(t) \in Deps(t)
  BY DEF Deps
<1>2. t \in Choices => ~IsChoiceValue(t)
  BY ChoiceValue, ChoiceOfValue
<1>3. ASSUME t \in Choices, NEW v \in ValueSet(t)
      PROVE  ExprSymbols(Prompt[v]) \subseteq Deps(t)
  BY <1>2, <1>3 DEF Deps
<1>4. ASSUME t \in Choices, NEW i \in DOMAIN ChoiceDefaults[t]
      PROVE  ExprSymbols(ChoiceDefaults[t][i].cond) \subseteq Deps(t)
  BY <1>2, <1>4 DEF Deps
<1>5. ASSUME t \notin Choices, NEW i \in DOMAIN Defaults[t]
      PROVE  /\ ExprSymbols(Defaults[t][i].cond) \subseteq Deps(t)
             /\ ExprSymbols(Defaults[t][i].value) \subseteq Deps(t)
  <2>1. ~IsChoiceValue(t)
    <3>1. ASSUME IsChoiceValue(t) PROVE DOMAIN Defaults[t] = {}
      BY <3>1, ChoiceValue, ChoiceOfValue
    <3>2. QED
      BY <1>5, <3>1
  <2>2. DefaultSymbols(t) \subseteq Deps(t)
    BY <1>5, <2>1 DEF Deps
  <2>3. /\ ExprSymbols(Defaults[t][i].cond) \subseteq DefaultSymbols(t)
        /\ ExprSymbols(Defaults[t][i].value) \subseteq DefaultSymbols(t)
    BY <1>5 DEF DefaultSymbols
  <2>4. QED
    BY <2>2, <2>3
<1>6. QED
  BY <1>1, <1>2, <1>3, <1>4, <1>5

LEMMA SameExpr ==
  ASSUME NEW t, SameInputs(t), NEW e, ExprSymbols(e) \subseteq Deps(t)
  PROVE  ExprValue(e, curr') = ExprValue(e, curr)
  BY ExprLocal DEF SameInputs

LEMMA SameType ==
  ASSUME NEW t \in Symbols, SameInputs(t), NEW x
  PROVE  IsBoolean(t, x)' = IsBoolean(t, x)
  BY DEF IsBoolean, SameInputs

LEMMA SamePrompt ==
  ASSUME NEW t \in Symbols, SameInputs(t), NEW x
  PROVE  PromptValue(t, x)' = PromptValue(t, x)
<1>1. ExprValue(Prompt[t], curr') = ExprValue(Prompt[t], curr)
  BY SameExpr, DepsOf
<1>2. (t \notin Tristates \/ modules_val' = no) = (t \notin Tristates \/ modules_val = no)
  BY DEF SameInputs
<1>3. QED
  BY <1>1, <1>2, Zenon DEF PromptValue

LEMMA SameVisibility ==
  ASSUME NEW t \in Symbols, SameInputs(t)
  PROVE  Visibility(t)' = Visibility(t)
<1>1. CASE IsChoiceValue(t)
  <2>1. ChoiceOf(t) \in Deps(t)
    BY <1>1, DepsOf, ChoiceValue, ChoiceOfValue
  <2>2. curr'[ChoiceOf(t)] = curr[ChoiceOf(t)]
    BY <2>1 DEF SameInputs
  <2>3. QED
    BY <1>1, <2>2, SamePrompt DEF Visibility
<1>2. CASE ~IsChoiceValue(t)
  BY <1>2, SamePrompt DEF Visibility
<1>3. QED
  BY <1>1, <1>2

LEMMA SameLowerBound ==
  ASSUME NEW t \in Symbols, SameInputs(t)
  PROVE  LowerBound(t)' = LowerBound(t)
<1>1. ExprValue(Prompt[t], curr') = ExprValue(Prompt[t], curr)
  BY SameExpr, DepsOf
<1>2. ~IsChoiceValue(t) => ExprValue(Selects[t], curr') = ExprValue(Selects[t], curr)
  BY SameExpr, DepsOf
<1>3. IsBoolean(t, Visibility(t))' = IsBoolean(t, Visibility(t))
  BY SameType, SameVisibility
<1>4. IsChoiceValue(t) => rev_dep'[t] = rev_dep[t]
  BY DEF SameInputs
<1>5. CASE IsChoiceValue(t)
  BY <1>4, <1>5 DEF LowerBound
<1>6. CASE ~IsChoiceValue(t)
  BY <1>1, <1>2, <1>3, <1>6 DEF LowerBound
<1>7. QED
  BY <1>5, <1>6

LEMMA SameDefault ==
  ASSUME NEW t \in Symbols \ Choices, SameInputs(t)
  PROVE  DefaultValue(t)' = DefaultValue(t)
<1>1. \A i \in DOMAIN Defaults[t] :
        /\ ExprValue(Defaults[t][i].cond, curr') = ExprValue(Defaults[t][i].cond, curr)
        /\ ExprValue(Defaults[t][i].value, curr') = ExprValue(Defaults[t][i].value, curr)
  BY SameExpr, DepsOf
<1>2. LiveDefaults(t)' = LiveDefaults(t)
  BY <1>1 DEF LiveDefaults
<1>3. CASE LiveDefaults(t) = {}
  BY <1>2, <1>3 DEF DefaultValue
<1>4. CASE LiveDefaults(t) # {}
  <2>1. LiveDefaults(t) \in SUBSET Nat
    BY DefaultSequences DEF LiveDefaults
  <2>2. First(LiveDefaults(t)) \in DOMAIN Defaults[t]
    BY <1>4, <2>1, FirstIn DEF LiveDefaults
  <2>3. QED
    BY <1>1, <1>2, <1>4, <2>2 DEF DefaultValue
<1>5. QED
  BY <1>3, <1>4

(* For a choice: the values it may choose, and which it does.              *)
LEMMA SameShown ==
  ASSUME NEW c \in Choices, SameInputs(c), NEW v \in ValueSet(c)
  PROVE  Shown(v)' = Shown(v)
<1>1. ExprValue(Prompt[v], curr') = ExprValue(Prompt[v], curr)
  BY SameExpr, DepsOf, KconfigAssumption
<1>2. (v \notin Tristates \/ modules_val' = no) = (v \notin Tristates \/ modules_val = no)
  BY ChoiceOfValue DEF SameInputs
<1>3. PromptValue(v, yes)' = PromptValue(v, yes)
  BY <1>1, <1>2, Zenon DEF PromptValue
<1>4. QED
  BY <1>3 DEF Shown

LEMMA SameChoices ==
  ASSUME NEW c \in Choices, SameInputs(c)
  PROVE  LiveChoices(c)' = LiveChoices(c) /\ ShownValues(c)' = ShownValues(c)
<1>1. \A i \in DOMAIN ChoiceDefaults[c] :
        /\ ExprValue(ChoiceDefaults[c][i].cond, curr')
              = ExprValue(ChoiceDefaults[c][i].cond, curr)
        /\ Shown(ChoiceDefaults[c][i].sym)' = Shown(ChoiceDefaults[c][i].sym)
  BY SameExpr, SameShown, DepsOf, ChoiceSequences, KconfigAssumption
<1>2. \A i \in DOMAIN Values[c] : Shown(Values[c][i])' = Shown(Values[c][i])
  BY SameShown DEF ValueSet
<1>3. QED
  BY <1>1, <1>2 DEF LiveChoices, ShownValues

LEMMA SameCalcChoice ==
  ASSUME NEW c \in Choices, SameInputs(c), def_sel'[c] = def_sel[c],
         def_sel[c] \in ValueSet(c) \cup {None}
  PROVE  CalcChoice(c)' = CalcChoice(c)
<1>1. def_sel[c] # None => Shown(def_sel[c])' = Shown(def_sel[c])
  BY SameShown
<1>2. QED
  BY <1>1, SameChoices DEF CalcChoice

(* With the same answer too, it yields the same value.                     *)
LEMMA SameBaseValue ==
  ASSUME NEW t \in Symbols, SameInputs(t), UserOrDefault(t)' = UserOrDefault(t)
  PROVE  BaseValue(t)' = BaseValue(t)
<1>1. /\ Visibility(t)' = Visibility(t) /\ LowerBound(t)' = LowerBound(t)
      /\ IsBoolean(t, Visibility(t))' = IsBoolean(t, Visibility(t))
  BY SameVisibility, SameLowerBound, SameType
<1>2. t \notin Choices => DefaultValue(t)' = DefaultValue(t)
  BY SameDefault
<1>3. IsChoiceValue(t) => selected'[ChoiceOf(t)] = selected[ChoiceOf(t)]
  BY DEF SameInputs
<1>4. QED
  BY <1>1, <1>2, <1>3 DEF BaseValue

LEMMA SameUser ==
  ASSUME NEW t \in Symbols, SameInputs(t),
         (t \in def_user') <=> (t \in def_user), def'[t] = def[t]
  PROVE  UserOrDefault(t)' = UserOrDefault(t)
<1>1. t \notin Choices => DefaultValue(t)' = DefaultValue(t)
  BY SameDefault
<1>2. QED
  BY <1>1 DEF UserOrDefault

(* A cached value stays right as long as the cache entry, the inputs and   *)
(* the answer do.                                                          *)
SameEntry(t) ==
  /\ curr'[t] = curr[t] /\ visible'[t] = visible[t] /\ rev_dep'[t] = rev_dep[t]
  /\ t \in Choices => selected'[t] = selected[t]

LEMMA SameChoiceSymbol ==
  ASSUME NEW t \in Symbols, SameInputs(t), SameEntry(t), Coherent(t),
         BaseValue(t)' = BaseValue(t),
         t \in Choices => CalcChoice(t)' = CalcChoice(t)
  PROVE  Coherent(t)'
<1>1. NewValue(t)' = NewValue(t)
  BY DEF NewValue
<1>2. t \in Choices => NewSelected(t)' = NewSelected(t)
  BY DEF NewSelected
<1>3. QED
  BY <1>1, <1>2, SameVisibility, SameLowerBound DEF Coherent, SameEntry

LEMMA StaysCoherent ==
  ASSUME NEW t \in Symbols, SameInputs(t), SameEntry(t), Coherent(t),
         ValuesOfChoices,
         (t \in def_user') <=> (t \in def_user), def'[t] = def[t],
         t \in Choices => def_sel'[t] = def_sel[t]
  PROVE  Coherent(t)'
<1>1. BaseValue(t)' = BaseValue(t)
  BY SameUser, SameBaseValue
<1>2. t \in Choices => CalcChoice(t)' = CalcChoice(t)
  BY SameCalcChoice DEF ValuesOfChoices
<1>3. QED
  BY <1>1, <1>2, SameChoiceSymbol

-----------------------------------------------------------------------------
(* Calculating one more symbol.                                            *)

LEMMA CalcInputs ==
  ASSUME CacheInv, NEW s \in Symbols, sym_calc_value(s), NEW t \in valid \cup {s},
         t \notin stale' \/ t \notin Tristates
  PROVE  SameInputs(t)
<1>0. TypeOK /\ DepsValid /\ ValuesOfChoices
  BY DEF CacheInv
<1>1. s \notin Deps(t)
  BY <1>0 DEF sym_calc_value, DepsValid
<1>2. \A u : u # s => curr'[u] = curr[u]
  BY <1>0 DEF sym_calc_value, TypeOK
<1>3. t \in Tristates => modules_val' = modules_val
  <2>1. CASE s = Modules
    BY <2>1, KconfigAssumption DEF sym_calc_value
  <2>2. CASE s # Modules
    BY <2>2 DEF sym_calc_value
  <2>3. QED
    BY <2>1, <2>2
<1>4. t \in Symbols
  BY <1>0 DEF TypeOK
<1>5. IsChoiceValue(t) => ChoiceOf(t) \in Deps(t) /\ ChoiceOf(t) \in Choices
  BY <1>4, DepsOf, ChoiceValue, ChoiceOfValue
<1>6. IsChoiceValue(t) => selected'[ChoiceOf(t)] = selected[ChoiceOf(t)]
  BY <1>0, <1>1, <1>5 DEF sym_calc_value, TypeOK
<1>7. IsChoiceValue(t) => rev_dep'[t] = rev_dep[t]
  <2>1. CASE t # s
    BY <1>0, <1>4, <2>1 DEF sym_calc_value, TypeOK
  <2>2. CASE t = s /\ IsChoiceValue(s)
    BY <1>0, <2>2, ChoiceValue DEF sym_calc_value, TypeOK, LowerBound, ValuesOfChoices
  <2>3. QED
    BY <2>1, <2>2
<1>8. QED
  BY <1>1, <1>2, <1>3, <1>6, <1>7 DEF SameInputs

LEMMA CalcEntry ==
  ASSUME CacheInv, NEW s \in Symbols, sym_calc_value(s), NEW t \in valid \cup {s},
         t # s => Coherent(t), t \notin stale' \/ t \notin Tristates
  PROVE  Coherent(t)'
<1>0. TypeOK /\ DepsValid /\ ValuesOfChoices /\ t \in Symbols
  BY DEF CacheInv, TypeOK
<1>1. SameInputs(t)
  BY CalcInputs
<1>2. UNCHANGED userVars
  BY DEF sym_calc_value
<1>3. CASE t = s
  <2>1. /\ BaseValue(s)' = BaseValue(s)
        /\ s \in Choices => CalcChoice(s)' = CalcChoice(s)
    BY <1>0, <1>1, <1>2, <1>3, SameUser, SameBaseValue, SameCalcChoice
       DEF userVars, ValuesOfChoices
  <2>2. /\ NewValue(s)' = NewValue(s)
        /\ s \in Choices => NewSelected(s)' = NewSelected(s)
    BY <2>1 DEF NewValue, NewSelected
  <2>3. Visibility(s)' = Visibility(s) /\ LowerBound(s)' = LowerBound(s)
    BY <1>1, <1>3, SameVisibility, SameLowerBound
  <2>4. /\ curr'[s] = NewValue(s) /\ visible'[s] = Visibility(s)
        /\ rev_dep'[s] = LowerBound(s)
        /\ s \in Choices => selected'[s] = NewSelected(s)
    BY <1>0 DEF sym_calc_value, TypeOK
  <2>5. QED
    BY <1>3, <2>2, <2>3, <2>4 DEF Coherent
<1>4. CASE t # s
  <2>1. t \in valid
    BY <1>4
  <2>2. Coherent(t)
    BY <1>4
  <2>3. ~(s \in Choices /\ t \in ValueSet(s))
    <3>1. Deps(t) \subseteq valid /\ s \notin valid
      BY <1>0, <2>1 DEF DepsValid, sym_calc_value
    <3>2. QED
      BY <1>0, <3>1, DepsOf, ChoiceOfValue
  <2>4. SameEntry(t)
    <3>1. ~(s \in Choices /\ BaseValue(s) = yes /\ t \in Tried(s))
      BY <2>3 DEF Tried
    <3>2. visible'[t] = visible[t]
      BY <1>0, <1>4, <3>1 DEF sym_calc_value, TypeOK
    <3>3. QED
      BY <1>0, <1>4, <3>2 DEF sym_calc_value, SameEntry, TypeOK
  <2>5. QED
    BY <1>0, <1>1, <1>2, <2>2, <2>4, StaysCoherent DEF userVars
<1>5. QED
  BY <1>3, <1>4

LEMMA CalcCoherent ==
  ASSUME CacheInv, NEW s \in Symbols, sym_calc_value(s)
  PROVE  CacheCoherent'
<1> SUFFICES ASSUME NEW t \in valid \cup {s}, t \notin stale' PROVE Coherent(t)'
  BY DEF CacheCoherent, Trusted, sym_calc_value
<1>1. t # s => Coherent(t)
  BY DEF CacheInv, CacheCoherent, Trusted, sym_calc_value
<1>2. QED
  BY <1>1, CalcEntry

LEMMA CalcRest ==
  ASSUME CacheInv, NEW s \in Symbols, sym_calc_value(s)
  PROVE  DepsValid' /\ ValuesOfChoices'
<1>0. TypeOK /\ DepsValid /\ ValuesOfChoices
  BY DEF CacheInv
<1>1. DepsValid'
  BY <1>0 DEF DepsValid, sym_calc_value, Deps, DefaultSymbols
<1>2. ASSUME NEW c \in Choices, NEW v \in ValueSet(c)
      PROVE  rev_dep'[v] = no /\ (v \in stale' => c \in stale')
  <2>1. v \in Symbols \ Choices /\ IsChoiceValue(v) /\ ChoiceOf(v) = c
        /\ (v \in Tristates <=> c \in Tristates)
    BY ChoiceOfValue
  <2>2. rev_dep'[v] = no
    BY <1>0, <2>1 DEF sym_calc_value, LowerBound, ValuesOfChoices, TypeOK
  <2>3. v \in valid => c \in valid
    BY <1>0, <2>1, DepsOf DEF DepsValid
  <2>4. v \in stale => c \in stale
    BY <1>0 DEF ValuesOfChoices
  <2>5. ASSUME v \in stale', v \notin stale
        PROVE  v \in valid /\ v \in Tristates /\ valid \cap Tristates \subseteq stale'
    <3>1. v # Modules
      BY ChoiceOfValue
    <3>2. QED
      BY <2>5, <3>1 DEF sym_calc_value
  <2>6. v \in stale' => c \in stale'
    <3>1. CASE v \in stale
      BY <2>4, <3>1 DEF sym_calc_value
    <3>2. CASE v \in stale' /\ v \notin stale
      BY <2>1, <2>3, <2>5, <3>2
    <3>3. QED
      BY <3>1, <3>2
  <2>7. QED
    BY <2>2, <2>6
<1>3. QED
  BY <1>0, <1>1, <1>2 DEF ValuesOfChoices, sym_calc_value, userVars

-----------------------------------------------------------------------------
(* An accepted answer.                                                     *)

(* A trusted choice value is y only if its choice chooses it: then it is   *)
(* fully visible and is the value of the choice.                           *)
LEMMA ChosenValue ==
  ASSUME TypeOK, ValuesOfChoices, NEW c \in Choices, NEW v \in ValueSet(c),
         Coherent(v), curr[v] = yes
  PROVE  Visibility(v) = yes /\ selected[c] = v
<1>0. v \in Symbols \ (Choices \cup {Modules}) /\ IsChoiceValue(v) /\ ChoiceOf(v) = c
      /\ Defaults[v] = <<>> /\ rev_dep[v] = no
  BY ChoiceOfValue DEF ValuesOfChoices
<1>1. LowerBound(v) = no
  BY <1>0 DEF LowerBound
<1>2. DefaultValue(v) = no
  BY <1>0 DEF DefaultValue, LiveDefaults
<1>3. BaseValue(v) = yes
  BY <1>0 DEF Coherent, NewValue
<1>4. Visibility(v) \in Tri /\ UserOrDefault(v) \in Tri
  BY <1>0, <1>2, VisibilityTri DEF UserOrDefault, TypeOK, Tri
<1>5. CASE Visibility(v) = yes
  BY <1>0, <1>3, <1>5 DEF BaseValue, NoModule, no, mod, yes
<1>6. CASE Visibility(v) # yes
  <2>1. Visibility(v) = mod => ~IsBoolean(v, mod)
    BY <1>0 DEF Visibility, PromptValue, IsBoolean, NoModule, no, mod, yes
  <2>2. E_OR(E_AND(UserOrDefault(v), Visibility(v)), no) # yes
    BY <1>4, <1>6 DEF E_OR, E_AND, Tri, no, mod, yes
  <2>3. Visibility(v) = no => BaseValue(v) # yes
    BY <1>0, <1>1, <1>2 DEF BaseValue, NoModule, E_OR, no, mod, yes
  <2>4. Visibility(v) = mod => BaseValue(v) # yes
    BY <1>0, <1>1, <1>2, <2>1, <2>2 DEF BaseValue, NoModule, E_OR, no, mod, yes
  <2>5. QED
    BY <1>3, <1>4, <1>6, <2>3, <2>4 DEF Tri
<1>7. QED
  BY <1>5, <1>6

(* Clamping a value that has been clamped already changes nothing.         *)
LEMMA Clamp ==
  ASSUME NEW u \in Tri, NEW vis \in Tri, NEW low \in Tri, NEW b,
         b => vis # mod /\ low # mod, E_OR(vis, low) # no
  PROVE  LET x == NoModule(E_OR(E_AND(u, vis), low), b)
         IN  NoModule(E_OR(E_AND(x, vis), low), b) = x
<1>1. CASE b
  BY <1>1 DEF NoModule, E_OR, E_AND, Tri, no, mod, yes
<1>2. CASE ~b
  BY <1>2 DEF NoModule, E_OR, E_AND, Tri, no, mod, yes
<1>3. QED
  BY <1>1, <1>2

LEMMA ShownChosen ==
  ASSUME NEW c \in Choices, ShownValues(c) # {}
  PROVE  CalcChoice(c) # None
<1>1. ShownValues(c) \in SUBSET Nat /\ LiveChoices(c) \in SUBSET Nat
  BY ChoiceSequences DEF ShownValues, LiveChoices
<1>2. First(ShownValues(c)) \in DOMAIN Values[c]
  BY <1>1, FirstIn DEF ShownValues
<1>3. LiveChoices(c) # {} => First(LiveChoices(c)) \in DOMAIN ChoiceDefaults[c]
  BY <1>1, FirstIn DEF LiveChoices
<1>4. Values[c][First(ShownValues(c))] # None
  BY <1>2, ChoiceSequences, KconfigAssumption
<1>5. LiveChoices(c) # {} => ChoiceDefaults[c][First(LiveChoices(c))].sym # None
  BY <1>3, ChoiceSequences, ChoiceOfValue, KconfigAssumption
<1>6. QED
  BY <1>4, <1>5 DEF CalcChoice

(* A boolean is never half visible nor bound to m.                         *)
LEMMA BooleanBounds ==
  ASSUME TypeOK, ValuesOfChoices, NEW s \in Symbols, IsBoolean(s, Visibility(s))
  PROVE  Visibility(s) # mod /\ LowerBound(s) # mod
<1>1. CASE IsChoiceValue(s)
  <2>1. LowerBound(s) = no
    BY <1>1, ChoiceValue DEF LowerBound, ValuesOfChoices
  <2>2. QED
    BY <2>1 DEF IsBoolean, Visibility, PromptValue, NoModule, no, mod, yes
<1>2. CASE ~IsChoiceValue(s)
  BY <1>2 DEF IsBoolean, LowerBound, Visibility, PromptValue, NoModule, no, mod, yes
<1>3. QED
  BY <1>1, <1>2

(* Taking the value a symbol already has for the user's changes nothing.   *)
LEMMA RepeatedAnswer ==
  ASSUME TypeOK, ValuesOfChoices, NEW s \in Symbols, Coherent(s), SameInputs(s),
         s \in def_user', def'[s] = curr[s],
         s \in Choices => ShownValues(s) # {}
  PROVE  BaseValue(s)' = BaseValue(s)
<1> DEFINE vis == Visibility(s)
           low == LowerBound(s)
           b   == IsBoolean(s, vis)
<1>1. BaseValue(s) = curr[s]
  BY ShownChosen DEF Coherent, NewValue
<1>2. /\ Visibility(s)' = vis /\ LowerBound(s)' = low
      /\ IsBoolean(s, Visibility(s))' = b
  BY SameVisibility, SameLowerBound, SameType
<1>3. s \notin Choices => DefaultValue(s)' = DefaultValue(s)
  BY SameDefault
<1>4. IsChoiceValue(s) => selected'[ChoiceOf(s)] = selected[ChoiceOf(s)]
  BY DEF SameInputs
<1>5. CASE IsChoiceValue(s) /\ vis = yes
  BY <1>2, <1>4, <1>5 DEF BaseValue
<1>6. CASE ~(IsChoiceValue(s) /\ vis = yes) /\ E_OR(vis, low) = no
  BY <1>2, <1>3, <1>6 DEF BaseValue
<1>7. CASE ~(IsChoiceValue(s) /\ vis = yes) /\ E_OR(vis, low) # no
  <2>1. BaseValue(s) = NoModule(E_OR(E_AND(UserOrDefault(s), vis), low), b)
    BY <1>7 DEF BaseValue
  <2>2. UserOrDefault(s)' = curr[s]
    BY DEF UserOrDefault
  <2>3. BaseValue(s)' = NoModule(E_OR(E_AND(curr[s], vis), low), b)
    BY <1>2, <1>7, <2>2 DEF BaseValue
  <2>4. /\ vis \in Tri /\ low \in Tri /\ UserOrDefault(s) \in Tri
        /\ b => vis # mod /\ low # mod
    BY VisibilityTri, LowerBoundTri, BooleanBounds, UserOrDefaultTri DEF Tri
  <2> DEFINE x == NoModule(E_OR(E_AND(UserOrDefault(s), vis), low), b)
  <2> HIDE DEF vis, low, b
  <2>5. NoModule(E_OR(E_AND(x, vis), low), b) = x
    BY <1>7, <2>4, Clamp
  <2> HIDE DEF x
  <2>6. x = curr[s]
    BY <1>1, <2>1 DEF x
  <2>7. QED
    BY <1>1, <2>3, <2>5, <2>6
<1>8. QED
  BY <1>5, <1>6, <1>7

LEMMA AcceptInputs ==
  ASSUME NEW s, NEW val, Accept(s, val), NEW t \in Symbols
  PROVE  SameInputs(t) /\ SameEntry(t)
  BY DEF Accept, SameInputs, SameEntry

(* Choosing the value a choice has chosen.                                 *)
LEMMA RepeatedChoice ==
  ASSUME TypeOK, ValuesOfChoices, NEW s \in Symbols, IsChoiceValue(s),
         Accept(s, yes), curr[s] = yes, Coherent(s), Coherent(ChoiceOf(s))
  PROVE  Coherent(ChoiceOf(s))'
<1> DEFINE c == ChoiceOf(s)
<1>0. c \in Choices /\ s \in ValueSet(c) /\ c \in Symbols /\ ~IsChoiceValue(c)
  BY ChoiceValue, ChoiceOfValue, KconfigAssumption
<1> HIDE DEF c
<1>1. SameInputs(c) /\ SameEntry(c)
  BY <1>0, AcceptInputs
<1>2. Visibility(s) = yes /\ selected[c] = s
  BY <1>0, ChosenValue
<1>3. BaseValue(c) = yes /\ CalcChoice(c) = s
  BY <1>0, <1>2, KconfigAssumption DEF Coherent, NewSelected, c
<1>4. Shown(s)' = Shown(s) /\ Shown(s)
  BY <1>0, <1>1, <1>3, SelectedType, SameShown, KconfigAssumption
<1>5. def_sel'[c] = s /\ c \in def_user' /\ (c \in def_user => def'[c] = def[c])
  BY <1>0, ChoiceOfValue DEF Accept, TypeOK, c
<1>6. CalcChoice(c)' = s
  BY <1>0, <1>4, <1>5, KconfigAssumption DEF CalcChoice
<1>7. BaseValue(c)' = BaseValue(c)
  <2>1. CASE c \in def_user
    BY <1>0, <1>1, <1>5, <2>1, SameUser, SameBaseValue
  <2>2. CASE c \notin def_user
    <3>1. UserOrDefault(c) = no
      BY <1>0, <2>2 DEF UserOrDefault
    <3>2. /\ Visibility(c) \in Tri /\ LowerBound(c) \in Tri
          /\ IsBoolean(c, Visibility(c)) => LowerBound(c) # mod
      BY <1>0, VisibilityTri, LowerBoundTri, BooleanBounds DEF Tri
    <3>3. LowerBound(c) = yes
      BY <1>0, <1>3, <3>1, <3>2 DEF BaseValue, NoModule, E_OR, E_AND, Tri, no, mod, yes
    <3>4. /\ Visibility(c)' = Visibility(c) /\ LowerBound(c)' = LowerBound(c)
          /\ UserOrDefault(c)' \in Tri
      BY <1>0, <1>1, <1>5, SameVisibility, SameLowerBound DEF UserOrDefault, Accept, TypeOK, c
    <3>5. BaseValue(c)' = yes
      BY <1>0, <3>2, <3>3, <3>4 DEF BaseValue, NoModule, E_OR, E_AND, Tri, no, mod, yes
    <3>6. QED
      BY <1>3, <3>5
  <2>3. QED
    BY <2>1, <2>2
<1>8. QED
  BY <1>0, <1>1, <1>3, <1>6, <1>7, SameChoiceSymbol DEF c

(* An answer that repeats the value of s leaves every entry right, but for *)
(* a choice that is n for want of a visible value.                         *)
LEMMA RepeatEntry ==
  ASSUME TypeOK, ValuesOfChoices, NEW s \in Symbols, NEW val \in Tri,
         Accept(s, val), curr[s] = val,
         NEW t \in Symbols, Coherent(t),
         t = s /\ s \in Choices => ShownValues(s) # {},
         IsChoiceValue(s) /\ t = ChoiceOf(s) => Coherent(s)
  PROVE  Coherent(t)'
<1>1. SameInputs(t) /\ SameEntry(t)
  BY AcceptInputs
<1> DEFINE c == ChoiceOf(s)
           chosen == IsChoiceValue(s) /\ val = yes
<1>2. chosen => c \in Choices /\ s \in ValueSet(c) /\ c \in Symbols /\ s # c
  BY ChoiceValue, ChoiceOfValue, KconfigAssumption
<1>3. CASE t = s
  <2>1. s \in Choices => ShownValues(s) # {}
    BY <1>3
  <2>2. s \in def_user' /\ def'[s] = curr[s]
    BY DEF Accept, TypeOK
  <2>3. BaseValue(s)' = BaseValue(s)
    BY <1>1, <1>3, <2>1, <2>2, RepeatedAnswer
  <2>4. s \in Choices => def_sel'[s] = def_sel[s]
    BY <1>2 DEF Accept, TypeOK
  <2>5. s \in Choices => CalcChoice(s)' = CalcChoice(s)
    BY <1>1, <1>3, <2>4, SameCalcChoice DEF ValuesOfChoices
  <2>6. QED
    BY <1>1, <1>3, <2>3, <2>5, SameChoiceSymbol
<1>4. CASE chosen /\ t = c
  BY <1>4, RepeatedChoice
<1>5. CASE chosen /\ t \in ValueSet(c) /\ t # s
  <2>1. t \notin Choices /\ Defaults[t] = <<>>
    BY <1>2, <1>5, ChoiceOfValue
  <2>2. def'[t] = def[t]
    BY <1>5 DEF Accept, TypeOK
  <2>3. DefaultValue(t) = no /\ DefaultValue(t)' = no
    BY <2>1 DEF DefaultValue, LiveDefaults
  <2>4. t \notin def_user => def[t] = no
    BY <1>2, <1>5 DEF ValuesOfChoices
  <2>5. t \in def_user => t \in def_user'
    BY DEF Accept
  <2>6. UserOrDefault(t)' = UserOrDefault(t)
    BY <2>1, <2>2, <2>3, <2>4, <2>5 DEF UserOrDefault
  <2>7. BaseValue(t)' = BaseValue(t)
    BY <1>1, <2>6, SameBaseValue
  <2>8. QED
    BY <1>1, <2>1, <2>7, SameChoiceSymbol
<1>6. CASE t # s /\ ~(chosen /\ t \in {c} \cup ValueSet(c))
  <2>1. /\ (t \in def_user') <=> (t \in def_user)
        /\ def'[t] = def[t]
        /\ t \in Choices => def_sel'[t] = def_sel[t]
    BY <1>6 DEF Accept, TypeOK
  <2>2. QED
    BY <1>1, <2>1, StaysCoherent
<1>7. QED
  BY <1>3, <1>4, <1>5, <1>6

LEMMA RepeatCoherent ==
  ASSUME CacheInv, NEW s \in Symbols, NEW val \in Tri, Accept(s, val),
         OnScreen(s), curr[s] = val
  PROVE  CacheCoherent'
<1> SUFFICES ASSUME NEW t \in valid \ stale' PROVE Coherent(t)'
  BY DEF CacheCoherent, Trusted, Accept
<1>1. /\ TypeOK /\ ValuesOfChoices /\ t \in Symbols /\ t \in valid \ stale
      /\ \A u \in valid \ stale : Coherent(u)
  BY DEF CacheInv, CacheCoherent, Trusted, TypeOK, Accept
<1>2. t = s /\ s \in Choices => ShownValues(s) # {}
  BY DEF Accept
<1>3. IsChoiceValue(s) /\ t = ChoiceOf(s) => s \in valid \ stale
  BY <1>1, ChoiceValue DEF OnScreen, ValuesOfChoices
<1>4. QED
  BY <1>1, <1>2, <1>3, RepeatEntry

LEMMA AcceptInv ==
  ASSUME CacheInv, NEW s \in Symbols, NEW val \in Tri, Accept(s, val), OnScreen(s)
  PROVE  CacheInv'
<1>0. TypeOK /\ DepsValid /\ ValuesOfChoices /\ CacheCoherent
  BY DEF CacheInv
<1>1. TypeOK'
  BY <1>0, TypeAccept
<1>2. DepsValid'
  BY <1>0 DEF DepsValid, Accept, sym_clear_all_valid, Deps, DefaultSymbols
<1>3. ASSUME NEW c \in Choices, NEW v \in ValueSet(c)
      PROVE  /\ rev_dep'[v] = no
             /\ v \notin def_user' => def'[v] = no
             /\ v \in stale' => c \in stale'
  <2>1. rev_dep'[v] = no
    BY <1>0 DEF Accept, ValuesOfChoices
  <2>2. v \notin def_user' => def'[v] = no
    BY <1>0, ChoiceOfValue DEF Accept, ValuesOfChoices, TypeOK
  <2>3. v \in stale' => c \in stale'
    BY <1>0, ChoiceOfValue DEF Accept, sym_clear_all_valid, ValuesOfChoices
  <2>4. QED
    BY <2>1, <2>2, <2>3
<1>4. ASSUME NEW c \in Choices PROVE def_sel'[c] \in ValueSet(c) \cup {None}
  BY <1>0, ChoiceValue DEF Accept, ValuesOfChoices, TypeOK
<1>5. CacheCoherent'
  <2>1. CASE curr[s] = val
    BY <2>1, RepeatCoherent
  <2>2. CASE curr[s] # val
    BY <2>2 DEF Accept, sym_clear_all_valid, CacheCoherent, Trusted
  <2>3. QED
    BY <2>1, <2>2
<1>6. QED
  BY <1>1, <1>2, <1>3, <1>4, <1>5 DEF CacheInv, ValuesOfChoices

-----------------------------------------------------------------------------
(* Reading a configuration.                                                *)

LEMMA ReadInv ==
  ASSUME CacheInv, conf_read_simple
  PROVE  CacheInv'
<1>0. TypeOK /\ ValuesOfChoices
  BY DEF CacheInv
<1>1. TypeOK'
  BY <1>0, TypeReadSimple
<1>2. DepsValid' /\ CacheCoherent'
  BY DEF conf_read_simple, DepsValid, CacheCoherent, Trusted
<1>3. ASSUME NEW c \in Choices, NEW v \in ValueSet(c)
      PROVE  /\ rev_dep'[v] = no
             /\ v \notin def_user' => def'[v] = no
             /\ v \in stale' => c \in stale'
  <2>1. v \in Named /\ v \in Symbols \ Choices
    BY ChoiceOfValue DEF Named
  <2>2. rev_dep'[v] = no
    BY <1>0 DEF conf_read_simple, ValuesOfChoices
  <2>3. v \notin def_user' => ~Accepted(v)
    BY <2>1 DEF conf_read_simple
  <2>4. def'[v] = LineValue(v)
    BY <2>1 DEF conf_read_simple
  <2>5. stale' = {}
    BY DEF conf_read_simple
  <2>6. QED
    BY <2>2, <2>3, <2>4, <2>5 DEF LineValue
<1>4. ASSUME NEW c \in Choices PROVE def_sel'[c] \in ValueSet(c) \cup {None}
  <2>1. SetValues(c) \in SUBSET Nat
    BY ChoiceSequences DEF SetValues
  <2>2. SetValues(c) # {} => First(SetValues(c)) \in DOMAIN Values[c]
    BY <2>1, FirstIn DEF SetValues
  <2>3. QED
    BY <2>2 DEF conf_read_simple, ValueSet
<1>5. QED
  BY <1>1, <1>2, <1>3, <1>4 DEF CacheInv, ValuesOfChoices

(* The answer to an invisible question was not used.                       *)
LEMMA CheckEntry ==
  ASSUME TypeOK, ValuesOfChoices, NEW s \in Symbols, ReadCheck(s),
         NEW t \in Symbols, Coherent(t), t \notin Choices \/ t \notin stale'
  PROVE  Coherent(t)'
<1>1. SameInputs(t) /\ SameEntry(t) /\ def' = def /\ def_sel' = def_sel
  BY DEF ReadCheck, tableVars, SameInputs, SameEntry
<1>2. CASE (t \in def_user') <=> (t \in def_user)
  BY <1>1, <1>2, StaysCoherent
<1>3. CASE t \in def_user /\ t \notin def_user'
  <2>1. t = s /\ ~IsChoiceValue(t) /\ visible[t] = no
    BY <1>3 DEF ReadCheck, HiddenAnswer
  <2>2. Visibility(t) = no
    BY <2>1 DEF Coherent
  <2>3. /\ Visibility(t)' = no /\ LowerBound(t)' = LowerBound(t)
        /\ IsBoolean(t, no)' = IsBoolean(t, no)
        /\ t \notin Choices => DefaultValue(t)' = DefaultValue(t)
    BY <1>1, <2>2, SameVisibility, SameLowerBound, SameType, SameDefault
  <2>4. /\ UserOrDefault(t) \in Tri /\ UserOrDefault(t)' \in Tri
    <3>1. UserOrDefault(t) \in Tri
      BY UserOrDefaultTri
    <3>2. DefaultValue(t)' \in Tri
      BY ExprTri DEF DefaultValue, Tri
    <3>3. QED
      BY <1>1, <3>1, <3>2 DEF UserOrDefault, TypeOK, Tri
  <2>5. BaseValue(t)' = BaseValue(t)
    BY <2>1, <2>2, <2>3, <2>4 DEF BaseValue, E_AND, Tri, no, mod, yes
  <2>6. t \in Choices => CalcChoice(t)' = CalcChoice(t)
    BY <1>1, SameCalcChoice DEF ValuesOfChoices
  <2>7. QED
    BY <1>1, <2>5, <2>6, SameChoiceSymbol
<1>4. QED
  BY <1>2, <1>3 DEF ReadCheck, HiddenAnswer

LEMMA CheckCoherent ==
  ASSUME CacheInv, NEW s \in Symbols, ReadCheck(s)
  PROVE  CacheCoherent'
<1> SUFFICES ASSUME NEW t \in valid \ stale' PROVE Coherent(t)'
  BY DEF CacheCoherent, Trusted, ReadCheck, tableVars
<1>1. TypeOK /\ ValuesOfChoices /\ t \in Symbols /\ Coherent(t)
  BY DEF CacheInv, CacheCoherent, Trusted, TypeOK, ReadCheck
<1>2. QED
  BY <1>1, CheckEntry

LEMMA CheckInv ==
  ASSUME CacheInv, NEW s \in Symbols, ReadCheck(s), TypeOK'
  PROVE  CacheInv'
<1>0. ValuesOfChoices /\ DepsValid
  BY DEF CacheInv
<1>1. DepsValid'
  BY <1>0 DEF DepsValid, ReadCheck, tableVars, Deps, DefaultSymbols
<1>2. ASSUME NEW c \in Choices, NEW v \in ValueSet(c)
      PROVE  /\ rev_dep'[v] = no
             /\ v \notin def_user' => def'[v] = no
             /\ v \in stale' => c \in stale'
  <2>1. v \notin Choices /\ IsChoiceValue(v)
    BY ChoiceOfValue
  <2>2. rev_dep' = rev_dep /\ def' = def
    BY DEF ReadCheck, tableVars
  <2>3. v \in stale' => v \in stale
    BY <2>1 DEF ReadCheck
  <2>4. v \in def_user => v \in def_user'
    BY <2>1 DEF ReadCheck, HiddenAnswer
  <2>5. stale \subseteq stale'
    BY DEF ReadCheck
  <2>6. QED
    BY <1>0, <2>2, <2>3, <2>4, <2>5 DEF ValuesOfChoices
<1>3. def_sel' = def_sel
  BY DEF ReadCheck
<1>4. QED
  BY <1>0, <1>1, <1>2, <1>3, CheckCoherent DEF CacheInv, ValuesOfChoices

-----------------------------------------------------------------------------
(* The steps that leave the table, the cache and the answers alone.        *)
LEMMA QuietInv ==
  ASSUME CacheInv, TypeOK', UNCHANGED <<curr, selected, visible, rev_dep,
         modules_val, def_user, def, def_sel>>,
         \/ valid' = valid /\ stale' = stale
         \/ valid' = {} /\ stale' = {}
  PROVE  CacheInv'
<1>1. CASE valid' = valid /\ stale' = stale
  <2>1. DepsValid'
    BY <1>1 DEF CacheInv, DepsValid, Deps, DefaultSymbols
  <2>2. ValuesOfChoices'
    BY <1>1 DEF CacheInv, ValuesOfChoices
  <2>3. ASSUME NEW t \in valid \ stale PROVE Coherent(t)'
    <3>1. /\ t \in Symbols /\ Coherent(t) /\ ValuesOfChoices
      BY <2>3 DEF CacheInv, CacheCoherent, Trusted, TypeOK
    <3>2. SameInputs(t) /\ SameEntry(t)
      BY DEF SameInputs, SameEntry
    <3>3. QED
      BY <3>1, <3>2, StaysCoherent
  <2>4. CacheCoherent'
    BY <1>1, <2>3 DEF CacheCoherent, Trusted
  <2>5. QED
    BY <2>1, <2>2, <2>4 DEF CacheInv
<1>2. CASE valid' = {} /\ stale' = {}
  BY <1>2 DEF CacheInv, DepsValid, ValuesOfChoices, CacheCoherent, Trusted
<1>3. QED
  BY <1>1, <1>2

LEMMA CacheInit == ASSUME Init PROVE CacheInv
<1>1. \A c \in Choices : \A v \in ValueSet(c) : v \in Symbols
  BY ChoiceOfValue
<1>2. ValuesOfChoices
  BY <1>1 DEF Init, ValuesOfChoices
<1>3. QED
  BY <1>2, TypeInit DEF Init, CacheInv, DepsValid, CacheCoherent, Trusted

LEMMA CacheNext == ASSUME CacheInv, [Next]_vars PROVE CacheInv'
<1>0. TypeOK'
  BY TypeNext DEF CacheInv
<1>1. ASSUME NEW s \in Symbols, sym_calc_value(s) PROVE CacheInv'
  BY <1>0, <1>1, CalcCoherent, CalcRest DEF CacheInv
<1>2. ASSUME NEW s \in Symbols, NEW val \in Tri, sym_set_tristate_value(s, val)
      PROVE  CacheInv'
  BY <1>2, AcceptInv DEF sym_set_tristate_value
<1>3. ASSUME NEW s \in Symbols, sym_toggle_tristate_value(s) PROVE CacheInv'
  BY <1>3, ToggleAccepts, AcceptInv DEF CacheInv
<1>4. CASE conf_read_missing
  BY <1>0, <1>4, QuietInv DEF conf_read_missing, tableVars, userVars
<1>5. CASE conf_read_absent
  BY <1>0, <1>5, QuietInv DEF conf_read_absent, tableVars, userVars
<1>6. CASE conf_read_simple
  BY <1>6, ReadInv
<1>7. ASSUME NEW s \in Symbols, ReadCheck(s) PROVE CacheInv'
  BY <1>0, <1>7, CheckInv
<1>8. CASE conf_read_done
  BY <1>0, <1>8, QuietInv DEF conf_read_done, tableVars, userVars
<1>9. CASE conf_write_begin
  BY <1>0, <1>9, QuietInv DEF conf_write_begin, sym_clear_all_valid, userVars
<1>10. CASE conf_write_end
  BY <1>0, <1>10, QuietInv DEF conf_write_end, tableVars, userVars
<1>11. CASE conf_write_failed
  BY <1>0, <1>11, QuietInv DEF conf_write_failed, tableVars, userVars
<1>12. CASE UNCHANGED vars
  BY <1>0, <1>12, QuietInv DEF vars, tableVars, userVars
<1>13. QED
  BY <1>1, <1>2, <1>3, <1>4, <1>5, <1>6, <1>7, <1>8, <1>9, <1>10, <1>11,
     <1>12 DEF Next

-----------------------------------------------------------------------------
(* The invariant behind the three theorems below, from KconfigAssumption   *)
(* alone: what is valid was calculated from what is still so.              *)
THEOREM CacheInvariant == Spec => []CacheInv
  BY CacheInit, CacheNext, PTL DEF Spec

(* What sym_clear_all_valid and the SYMBOL_VALID flags are for: a cached   *)
(* value that nothing was changed behind is what evaluating it now gives.  *)
THEOREM CacheCorrect == Spec => []CacheCoherent
<1>1. CacheInv => CacheCoherent
  BY DEF CacheInv
<1>2. QED
  BY <1>1, CacheInvariant, PTL

(* A symbol is m only if it is tristate and modules are enabled.           *)
THEOREM ModulesCorrect == Spec => []NoModuleUnlessEnabled
<1>1. CacheInv => NoModuleUnlessEnabled
  <2> SUFFICES ASSUME CacheInv, NEW s \in Trusted, curr[s] = mod
               PROVE  s \in Tristates /\ modules_val # no
    BY DEF NoModuleUnlessEnabled
  <2>1. BaseValue(s) = mod
    BY DEF CacheInv, CacheCoherent, Coherent, NewValue, no, mod
  <2>2. ~IsBoolean(s, Visibility(s))
    BY <2>1 DEF BaseValue, NoModule, mod, yes
  <2>3. QED
    BY <2>2 DEF IsBoolean
<1>2. QED
  BY <1>1, CacheInvariant, PTL

(* A choice has at most one value that is y, and one if it is y itself and *)
(* none of its values is limited to m.                                     *)
THEOREM ChoiceCorrect == Spec => []ChoiceExclusive
<1>1. CacheInv => ChoiceExclusive
  <2> SUFFICES ASSUME CacheInv, NEW c \in Choices \cap Trusted,
                      ValueSet(c) \subseteq Trusted
               PROVE  LET chosen == {v \in ValueSet(c) : curr[v] = yes}
                      IN  /\ \A v, w \in chosen : v = w
                          /\ curr[c] = yes /\ (\A v \in ValueSet(c) : visible[v] # mod)
                               => chosen # {}
    BY DEF ChoiceExclusive
  <2>0. TypeOK /\ ValuesOfChoices /\ Coherent(c) /\ c \in Symbols
    BY KconfigAssumption DEF CacheInv, CacheCoherent
  <2>1. \A v \in ValueSet(c) : Coherent(v)
    BY DEF CacheInv, CacheCoherent
  <2>2. \A v \in ValueSet(c) : curr[v] = yes => selected[c] = v
    BY <2>0, <2>1, ChosenValue
  <2>3. ASSUME curr[c] = yes, \A v \in ValueSet(c) : visible[v] # mod
        PROVE  \E v \in ValueSet(c) : curr[v] = yes
    <3> DEFINE v == CalcChoice(c)
    <3>1. BaseValue(c) = yes /\ v # None
      BY <2>0, <2>3 DEF Coherent, NewValue, no, yes
    <3>2. selected[c] = v
      BY <2>0, <3>1 DEF Coherent, NewSelected
    <3>3. Shown(v) /\ v \in ValueSet(c)
      BY <2>0, <3>1, CalcChoiceValue DEF ValuesOfChoices
    <3> HIDE DEF v
    <3>4. IsChoiceValue(v) /\ ChoiceOf(v) = c /\ v \in Symbols
      BY <3>3, ChoiceOfValue
    <3>5. Visibility(v) \in Tri \ {no, mod}
      <4>1. Visibility(v) = PromptValue(v, yes)
        BY <2>3, <3>4 DEF Visibility
      <4>2. Visibility(v) # no
        BY <3>3, <4>1 DEF Shown
      <4>3. Visibility(v) # mod
        BY <2>1, <2>3, <3>3 DEF Coherent
      <4>4. Visibility(v) \in Tri
        BY <2>0, <3>4, VisibilityTri DEF Tri
      <4>5. QED
        BY <4>2, <4>3, <4>4
    <3>6. BaseValue(v) = yes
      BY <3>2, <3>4, <3>5 DEF BaseValue, NoModule, Tri, no, mod, yes
    <3>7. curr[v] = yes
      BY <2>1, <3>3, <3>4, <3>6, ChoiceOfValue DEF Coherent, NewValue
    <3>8. QED
      BY <3>3, <3>7
  <2>4. QED
    BY <2>2, <2>3
<1>2. QED
  BY <1>1, CacheInvariant, PTL
-----------------------------------------------------------------------------
(* Boolean Kconfig files.                                                  *)

(* A boolean choice that is not optional is y if its prompt is visible and *)
(* n if not, whatever the user's value is.                                 *)
LEMMA BooleanChoice ==
  ASSUME TypeOK, TypeOK', ValuesOfChoices, NEW c \in Choices \ OptionalChoices,
         c \notin Tristates, SameInputs(c), SameEntry(c), Coherent(c),
         def_sel'[c] = def_sel[c]
  PROVE  Coherent(c)'
<1> DEFINE p   == ExprValue(Prompt[c], curr)
           vis == NoModule(p, TRUE)
           low == NoModule(E_OR(no, E_AND(p, mod)), TRUE)
<1>1. c \in Symbols /\ ~IsChoiceValue(c) /\ Selects[c] = Never
  BY DepsOf, KconfigAssumption
<1>2. Visibility(c) = vis /\ IsBoolean(c, vis) = TRUE
  BY <1>1 DEF Visibility, PromptValue, IsBoolean
<1>3. LowerBound(c) = low
  <2>1. ExprValue(Selects[c], curr) = no
    BY <1>1 DEF ExprValue, Never
  <2>2. QED
    BY <1>1, <1>2, <2>1 DEF LowerBound
<1>4. /\ Visibility(c)' = vis /\ LowerBound(c)' = low
      /\ IsBoolean(c, Visibility(c))' = TRUE
  BY <1>1, <1>2, <1>3, SameVisibility, SameLowerBound, SameType
<1>5. p \in Tri /\ UserOrDefault(c) \in Tri /\ UserOrDefault(c)' \in Tri
  BY <1>1, ExprTri DEF UserOrDefault, TypeOK, Tri
<1> HIDE DEF p
<1>6. IF p = no THEN vis = no /\ low = no ELSE vis = yes /\ low = yes
  BY <1>5 DEF NoModule, E_OR, E_AND, Tri, no, mod, yes
<1> HIDE DEF vis, low
<1>7. \A u \in Tri : E_OR(vis, low) # no => E_OR(E_AND(u, vis), low) = yes
  BY <1>6 DEF E_OR, E_AND, Tri, no, mod, yes
<1>8. BaseValue(c) = NoModule(IF E_OR(vis, low) # no THEN yes ELSE no, TRUE)
  BY <1>1, <1>2, <1>3, <1>5, <1>7 DEF BaseValue
<1>9. BaseValue(c)' = NoModule(IF E_OR(vis, low) # no THEN yes ELSE no, TRUE)
  BY <1>1, <1>4, <1>5, <1>7 DEF BaseValue
<1>10. CalcChoice(c)' = CalcChoice(c)
  BY SameCalcChoice DEF ValuesOfChoices
<1>11. QED
  BY <1>1, <1>8, <1>9, <1>10, SameChoiceSymbol

(* So no entry is ever wrong.                                              *)
LEMMA BooleanNext ==
  ASSUME BooleanKconfig, CacheInv, AllCoherent, [Next]_vars
  PROVE  AllCoherent'
<1>0. /\ TypeOK /\ TypeOK' /\ ValuesOfChoices /\ valid \subseteq Symbols
      /\ \A c \in Choices : c \in Symbols /\ c \notin Tristates /\ c \notin OptionalChoices
  BY TypeNext, KconfigAssumption DEF CacheInv, BooleanKconfig, TypeOK
<1>1. ASSUME NEW s \in Symbols, sym_calc_value(s) PROVE AllCoherent'
  <2>1. valid' = valid \cup {s}
    BY <1>1 DEF sym_calc_value
  <2>2. ASSUME NEW t \in valid \cup {s} PROVE Coherent(t)'
    <3>1. t # s => Coherent(t)
      BY DEF AllCoherent
    <3>2. t \notin Tristates
      BY DEF BooleanKconfig
    <3>3. QED
      BY <1>1, <3>1, <3>2, CalcEntry
  <2>3. QED
    BY <2>1, <2>2 DEF AllCoherent
<1>2. ASSUME NEW s \in Symbols, NEW val \in Tri, Accept(s, val), OnScreen(s)
      PROVE  AllCoherent'
  <2>1. CASE curr[s] # val
    BY <1>2, <2>1 DEF Accept, sym_clear_all_valid, AllCoherent
  <2>2. CASE curr[s] = val
    <3>1. valid' = valid
      BY <1>2, <2>2 DEF Accept
    <3>2. ASSUME NEW t \in valid PROVE Coherent(t)'
      <4>1. t \in Symbols /\ Coherent(t) /\ Coherent(s) /\ SameInputs(t) /\ SameEntry(t)
        BY <1>0, <1>2, AcceptInputs DEF AllCoherent, OnScreen
      <4>2. CASE t = s /\ s \in Choices
        <5>1. def_sel'[s] = def_sel[s]
          BY <1>0, <1>2, <4>2, ChoiceValue, ChoiceOfValue DEF Accept, TypeOK
        <5>2. QED
          BY <1>0, <4>1, <4>2, <5>1, BooleanChoice
      <4>3. CASE ~(t = s /\ s \in Choices)
        BY <1>0, <1>2, <2>2, <4>1, <4>3, RepeatEntry
      <4>4. QED
        BY <4>2, <4>3
    <3>3. QED
      BY <3>1, <3>2 DEF AllCoherent
  <2>3. QED
    BY <2>1, <2>2
<1>3. ASSUME NEW s \in Symbols, ReadCheck(s) PROVE AllCoherent'
  <2>1. valid' = valid
    BY <1>3 DEF ReadCheck, tableVars
  <2>2. ASSUME NEW t \in valid PROVE Coherent(t)'
    <3>1. t \in Symbols /\ Coherent(t)
      BY <1>0 DEF AllCoherent
    <3>2. SameInputs(t) /\ SameEntry(t) /\ def_sel' = def_sel
      BY <1>3 DEF ReadCheck, tableVars, SameInputs, SameEntry
    <3>3. CASE t \in Choices
      BY <1>0, <3>1, <3>2, <3>3, BooleanChoice
    <3>4. CASE t \notin Choices
      BY <1>0, <1>3, <3>1, <3>4, CheckEntry
    <3>5. QED
      BY <3>3, <3>4
  <2>3. QED
    BY <2>1, <2>2 DEF AllCoherent
<1>4. ASSUME UNCHANGED <<curr, selected, visible, rev_dep, modules_val,
                         def_user, def, def_sel>>,
             valid' = valid \/ valid' = {}
      PROVE  AllCoherent'
  <2>1. ASSUME NEW t \in valid PROVE Coherent(t)'
    <3>1. t \in Symbols /\ Coherent(t) /\ SameInputs(t) /\ SameEntry(t)
      BY <1>0, <1>4 DEF AllCoherent, SameInputs, SameEntry
    <3>2. QED
      BY <1>0, <1>4, <3>1, StaysCoherent
  <2>2. QED
    BY <1>4, <2>1 DEF AllCoherent
<1>5. ASSUME NEW s \in Symbols, sym_toggle_tristate_value(s) PROVE AllCoherent'
  BY <1>0, <1>2, <1>5, ToggleAccepts DEF sym_toggle_tristate_value
<1>6. ASSUME NEW s \in Symbols, NEW val \in Tri, sym_set_tristate_value(s, val)
      PROVE  AllCoherent'
  BY <1>2, <1>6 DEF sym_set_tristate_value
<1>7. CASE conf_read_missing \/ conf_read_absent
  BY <1>4, <1>7 DEF conf_read_missing, conf_read_absent, tableVars, userVars
<1>8. CASE conf_read_simple
  BY <1>8 DEF conf_read_simple, AllCoherent
<1>9. CASE conf_read_done
  BY <1>4, <1>9 DEF conf_read_done, tableVars, userVars
<1>10. CASE conf_write_begin
  BY <1>4, <1>10 DEF conf_write_begin, sym_clear_all_valid, userVars
<1>11. CASE conf_write_end \/ conf_write_failed
  BY <1>4, <1>11 DEF conf_write_end, conf_write_failed, tableVars, userVars
<1>12. CASE UNCHANGED vars
  BY <1>4, <1>12 DEF vars, tableVars, userVars
<1>13. QED
  BY <1>1, <1>3, <1>5, <1>6, <1>7, <1>8, <1>9, <1>10, <1>11, <1>12 DEF Next

(* With only booleans, and choices that always have a value, every cached  *)
(* value is right at any time, what conf_read drops behind the cache       *)
(* included: the loop at confdata.c:360 changes no value.                  *)
THEOREM BooleanCorrect == ASSUME BooleanKconfig PROVE Spec => []AllCoherent
<1>1. Init => AllCoherent
  BY DEF Init, AllCoherent
<1>2. CacheInv /\ AllCoherent /\ [Next]_vars => AllCoherent'
  BY BooleanNext
<1>3. QED
  BY <1>1, <1>2, CacheInvariant, PTL DEF Spec
=============================================================================
