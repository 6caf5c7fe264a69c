------------------------ MODULE KconfigAnswers_proofs ------------------------
(***************************************************************************)
(* An answer becomes the symbol's value and stays it, for every Kconfig    *)
(* file: whatever is evaluated, saved or cleared between it and the next.  *)
(***************************************************************************)
EXTENDS KconfigCache_proofs

-----------------------------------------------------------------------------
(* The inductive invariant.                                                *)

(* The symbols an answer to s is given by: what s is calculated from, and  *)
(* modules_sym, unless that is itself calculated from s or its choice, or  *)
(* there is no tristate.                                                   *)
Cone(s) ==
  IF \/ Tristates = {} \/ s \in Below(Modules)
     \/ IsChoiceValue(s) /\ ChoiceOf(s) \in Below(Modules)
  THEN Below(s)
  ELSE Below(s) \cup Below(Modules)

(* What is valid was not calculated in a circle.                           *)
WellFounded == \A W \in SUBSET valid : W # {} => \E w \in W : Deps(w) \cap W = {}

(* None of the symbols the answer was given by reads the answered one, or  *)
(* the choice that goes with it.                                           *)
Apart(s) ==
  \A k \in Cone(s) \ {s} :
    /\ s \notin Deps(k)
    /\ IsChoiceValue(s) => ChoiceOf(s) \notin Deps(k)

(* The choice of s is to choose s when it is calculated next.              *)
Pending(s, val) ==
  /\ IsChoiceValue(s) /\ val = yes
  /\ ChoiceOf(s) \notin valid
  /\ NewSelected(ChoiceOf(s)) = s
  /\ Visibility(s) = yes

(* Calculating k again changes nothing.                                    *)
Settled(k) ==
  /\ curr[k] = NewValue(k)
  /\ k \in Choices => selected[k] = NewSelected(k)

NothingToChoose(s) == s \in Choices /\ ShownValues(s) = {}

(* The answer is what calculating s now gives, or will give once its       *)
(* choice has been.                                                        *)
Foretold(s, val) ==
  \/ NothingToChoose(s)
  \/ NewValue(s) = val
  \/ Pending(s, val)

HonourInv(s, val) ==
  /\ Apart(s)
  /\ \A k \in Cone(s) \ {s} :
       \/ Settled(k)
       \/ Pending(s, val) /\ k = ChoiceOf(s) /\ curr[k] = NewValue(k)
  /\ Foretold(s, val)
  /\ s \in valid => curr[s] = val \/ NothingToChoose(s)

AnswerInv ==
  /\ WellFounded
  /\ modules_val = curr[Modules]
  /\ phase = "checking" => asked = None
  /\ \A s \in Symbols, val \in Tri :
       asked # None /\ asked = [sym |-> s, val |-> val, clean |-> TRUE]
         => HonourInv(s, val)

-----------------------------------------------------------------------------
(* What a value is calculated from.                                        *)

LEMMA DepsSymbols == ASSUME NEW s \in Symbols PROVE Deps(s) \subseteq Symbols
<1>1. ASSUME NEW e \in Expressions(Symbols) PROVE ExprSymbols(e) \subseteq Symbols
  BY <1>1 DEF Expressions, Literals, ExprSymbols
<1>2. ExprSymbols(Prompt[s]) \subseteq Symbols /\ ExprSymbols(Selects[s]) \subseteq Symbols
  BY <1>1, KconfigAssumption
<1>3. DefaultSymbols(s) \subseteq Symbols
  <2> DEFINE D == [value : Expressions(Symbols), cond : Expressions(Symbols)]
  <2>1. Defaults[s] \in Seq(D)
    BY KconfigAssumption
  <2>2. \A d \in D : d.value \in Expressions(Symbols) /\ d.cond \in Expressions(Symbols)
    OBVIOUS
  <2> HIDE DEF D
  <2>3. \A i \in DOMAIN Defaults[s] : Defaults[s][i] \in D
    BY <2>1
  <2>4. QED
    BY <1>1, <2>2, <2>3 DEF DefaultSymbols
<1>4. ASSUME s \in Choices
      PROVE  /\ \A v \in ValueSet(s) : ExprSymbols(Prompt[v]) \subseteq Symbols
             /\ \A i \in DOMAIN ChoiceDefaults[s] :
                  ExprSymbols(ChoiceDefaults[s][i].cond) \subseteq Symbols
  <2> DEFINE D == [sym : ValueSet(s), cond : Expressions(Symbols)]
  <2>1. ChoiceDefaults[s] \in Seq(D)
    BY <1>4, KconfigAssumption
  <2>2. \A d \in D : d.cond \in Expressions(Symbols)
    OBVIOUS
  <2> HIDE DEF D
  <2>3. \A i \in DOMAIN ChoiceDefaults[s] : ChoiceDefaults[s][i] \in D
    BY <2>1
  <2>4. \A v \in ValueSet(s) : v \in Symbols
    BY <1>4, ChoiceOfValue
  <2>5. QED
    BY <1>1, <2>2, <2>3, <2>4, KconfigAssumption
<1>5. IsChoiceValue(s) => ChoiceOf(s) \in Symbols
  BY ChoiceValue, KconfigAssumption
<1>6. QED
  BY <1>2, <1>3, <1>4, <1>5 DEF Deps

LEMMA BelowClosed ==
  ASSUME NEW s \in Symbols
  PROVE  s \in Below(s) /\ Closed(Below(s)) /\ Below(s) \subseteq Symbols
<1>1. s \in Below(s) /\ Below(s) \subseteq Symbols
  BY DEF Below
<1>2. ASSUME NEW k \in Below(s), NEW t \in Deps(k) PROVE t \in Below(s)
  <2>1. t \in Symbols
    BY <1>1, <1>2, DepsSymbols
  <2>2. ASSUME NEW K \in SUBSET Symbols, s \in K, Closed(K) PROVE t \in K
    BY <1>2, <2>2 DEF Below, Closed
  <2>3. QED
    BY <2>1, <2>2 DEF Below
<1>3. QED
  BY <1>1, <1>2 DEF Closed

LEMMA BelowLeast ==
  ASSUME NEW s \in Symbols, NEW K \in SUBSET Symbols, s \in K, Closed(K)
  PROVE  Below(s) \subseteq K
  BY DEF Below

LEMMA BelowBelow ==
  ASSUME NEW s \in Symbols, NEW t \in Below(s)
  PROVE  t \in Symbols /\ Below(t) \subseteq Below(s)
<1>1. t \in Symbols /\ Closed(Below(s)) /\ Below(s) \in SUBSET Symbols
  BY BelowClosed
<1>2. QED
  BY <1>1, BelowLeast

(* All but s itself is below something s reads.                            *)
LEMMA BelowDeps ==
  ASSUME NEW s \in Symbols, NEW t \in Below(s), t # s
  PROVE  \E u \in Deps(s) : t \in Below(u)
<1> DEFINE K == {s} \cup UNION {Below(u) : u \in Deps(s)}
<1>1. \A u \in Deps(s) : u \in Below(u) /\ Closed(Below(u)) /\ Below(u) \subseteq Symbols
  BY DepsSymbols, BelowClosed
<1>2. K \in SUBSET Symbols /\ s \in K
  BY <1>1
<1>3. Closed(K)
  <2> SUFFICES ASSUME NEW k \in K, NEW d \in Deps(k) PROVE d \in K
    BY DEF Closed
  <2>1. CASE k = s
    BY <1>1, <2>1
  <2>2. CASE k # s
    <3>1. PICK u \in Deps(s) : k \in Below(u)
      BY <2>2
    <3>2. d \in Below(u)
      BY <1>1, <3>1 DEF Closed
    <3>3. QED
      BY <3>1, <3>2
  <2>3. QED
    BY <2>1, <2>2
<1>4. Below(s) \subseteq K
  BY <1>2, <1>3, BelowLeast
<1>5. QED
  BY <1>4

(* Nothing that is valid is below what it reads.                           *)
LEMMA NoLoop ==
  ASSUME WellFounded, DepsValid, valid \subseteq Symbols, NEW s \in valid
  PROVE  \A u \in Deps(s) : s \notin Below(u)
<1>0. s \in Symbols /\ s \in Below(s) /\ Closed(Below(s))
  BY BelowClosed
<1>1. Below(s) \subseteq valid
  BY <1>0, BelowLeast DEF DepsValid, Closed
<1> DEFINE W == {t \in Below(s) : s \in Below(t)}
<1>2. s \in W /\ W \in SUBSET valid
  BY <1>0, <1>1
<1>3. PICK w \in W : Deps(w) \cap W = {}
  BY <1>2 DEF WellFounded
<1>4. w \in Symbols /\ \A u \in Deps(w) : u \in Below(s)
  BY <1>0, <1>1 DEF Closed
<1>5. w = s
  <2> SUFFICES ASSUME w # s PROVE FALSE
    OBVIOUS
  <2>1. PICK u \in Deps(w) : s \in Below(u)
    BY <1>4, BelowDeps
  <2>2. QED
    BY <1>3, <1>4, <2>1
<1>6. QED
  BY <1>3, <1>4, <1>5

(* So an answer to what is valid is given by symbols it does not affect.   *)
LEMMA ConeClosed ==
  ASSUME NEW s \in Symbols
  PROVE  Cone(s) \subseteq Symbols /\ s \in Cone(s) /\ Closed(Cone(s))
<1>1. Modules \in Symbols
  BY KconfigAssumption
<1>2. /\ s \in Below(s) /\ Closed(Below(s)) /\ Below(s) \subseteq Symbols
      /\ Closed(Below(Modules)) /\ Below(Modules) \subseteq Symbols
  BY <1>1, BelowClosed
<1>3. QED
  BY <1>2 DEF Cone, Closed

LEMMA ChoiceDeps ==
  ASSUME NEW s \in Symbols, IsChoiceValue(s)
  PROVE  /\ Deps(s) = ExprSymbols(Prompt[s]) \cup {ChoiceOf(s)}
         /\ ExprSymbols(Prompt[s]) \subseteq Deps(ChoiceOf(s))
         /\ ChoiceOf(s) \in Choices /\ ChoiceOf(s) \in Symbols /\ ChoiceOf(s) # s
         /\ s \in ValueSet(ChoiceOf(s)) /\ s \notin Choices
<1>1. ChoiceOf(s) \in Choices /\ s \in ValueSet(ChoiceOf(s))
  BY ChoiceValue
<1>2. s \notin Choices /\ ChoiceOf(s) \in Symbols
  BY <1>1, ChoiceOfValue, KconfigAssumption
<1>3. Deps(s) = ExprSymbols(Prompt[s]) \cup {ChoiceOf(s)}
  BY DEF Deps
<1>4. QED
  BY <1>1, <1>2, <1>3, DepsOf

LEMMA ConeApart ==
  ASSUME WellFounded, DepsValid, valid \subseteq Symbols,
         NEW s \in valid, ModulesKnown
  PROVE  Cone(s) \subseteq valid /\ Apart(s)
<1> DEFINE P == Below(Modules)
           c == ChoiceOf(s)
<1>0. /\ s \in Symbols /\ Modules \in Symbols
      /\ Closed(Below(s)) /\ Closed(P)
      /\ IsChoiceValue(s) => c \in Deps(s) /\ c \in valid /\ c \in Symbols
  BY BelowClosed, DepsOf, KconfigAssumption DEF DepsValid
<1>1. Cone(s) \subseteq valid
  <2>1. Closed(valid)
    BY DEF DepsValid, Closed
  <2>2. Below(s) \subseteq valid /\ (Modules \in valid => P \subseteq valid)
    BY <1>0, <2>1, BelowLeast
  <2>3. QED
    BY <2>2 DEF Cone, ModulesKnown
<1>2. ASSUME NEW x \in valid, NEW u \in Deps(x), NEW k \in Below(u)
      PROVE  x \notin Deps(k)
  <2>1. u \in Symbols /\ x \in Symbols
    BY <1>2, DepsSymbols
  <2>2. Closed(Below(u))
    BY <2>1, BelowClosed
  <2>3. x \notin Below(u)
    BY <1>2, NoLoop
  <2>4. QED
    BY <1>2, <2>2, <2>3 DEF Closed
<1>3. ASSUME NEW k \in Below(s) \ {s} PROVE s \notin Deps(k)
  <2>1. PICK u \in Deps(s) : k \in Below(u)
    BY <1>0, <1>3, BelowDeps
  <2>2. QED
    BY <1>2, <2>1
<1>4. ASSUME NEW k \in Below(s) \ {s}, IsChoiceValue(s) PROVE c \notin Deps(k)
  <2>1. PICK u \in Deps(s) : k \in Below(u)
    BY <1>0, <1>4, BelowDeps
  <2>2. CASE u \in ExprSymbols(Prompt[s])
    <3>1. u \in Deps(c)
      BY <1>0, <1>4, <2>2, ChoiceDeps
    <3>2. QED
      BY <1>0, <1>2, <1>4, <2>1, <3>1
  <2>3. CASE u = c /\ k # c
    <3>1. PICK w \in Deps(c) : k \in Below(w)
      BY <1>0, <1>4, <2>1, <2>3, BelowDeps
    <3>2. QED
      BY <1>0, <1>2, <1>4, <3>1
  <2>4. CASE k = c
    <3>1. ASSUME c \in Deps(c) PROVE FALSE
      <4>1. c \in Below(c)
        BY <1>0, <1>4, BelowClosed
      <4>2. QED
        BY <1>0, <1>4, <3>1, <4>1, NoLoop
    <3>2. QED
      BY <2>4, <3>1
  <2>5. QED
    BY <1>0, <1>4, <2>1, <2>2, <2>3, <2>4, ChoiceDeps
<1>5. ASSUME NEW k \in Cone(s) \ {s} PROVE s \notin Deps(k) /\ (IsChoiceValue(s) => c \notin Deps(k))
  <2>1. CASE k \in Below(s)
    BY <1>3, <1>4, <1>5, <2>1
  <2>2. CASE k \notin Below(s)
    <3>1. k \in P /\ s \notin P /\ (IsChoiceValue(s) => c \notin P)
      BY <1>5, <2>2 DEF Cone
    <3>2. QED
      BY <1>0, <3>1 DEF Closed
  <2>3. QED
    BY <2>1, <2>2
<1>6. QED
  BY <1>1, <1>5 DEF Apart

-----------------------------------------------------------------------------
(* What stays settled.                                                     *)

(* The same inputs and the same answer yield the same value and choice.    *)
SameAnswer(t) ==
  /\ (t \in def_user') <=> (t \in def_user)
  /\ def'[t] = def[t]
  /\ t \in Choices => def_sel'[t] = def_sel[t]

LEMMA SameNewValue ==
  ASSUME ValuesOfChoices, NEW t \in Symbols, SameInputs(t), SameAnswer(t)
  PROVE  /\ NewValue(t)' = NewValue(t)
         /\ t \in Choices => NewSelected(t)' = NewSelected(t)
<1>1. BaseValue(t)' = BaseValue(t)
  BY SameUser, SameBaseValue DEF SameAnswer
<1>2. t \in Choices => CalcChoice(t)' = CalcChoice(t)
  BY SameCalcChoice DEF ValuesOfChoices, SameAnswer
<1>3. QED
  BY <1>1, <1>2 DEF NewValue, NewSelected

LEMMA StaysSettled ==
  ASSUME ValuesOfChoices, NEW t \in Symbols, SameInputs(t), SameAnswer(t), Settled(t),
         curr'[t] = curr[t], t \in Choices => selected'[t] = selected[t]
  PROVE  Settled(t)'
  BY SameNewValue DEF Settled

-----------------------------------------------------------------------------
(* Calculating a symbol after a good answer.                               *)

LEMMA CalcFounded ==
  ASSUME WellFounded, DepsValid, NEW t \in Symbols, sym_calc_value(t)
  PROVE  WellFounded'
<1>0. valid' = valid \cup {t} /\ t \notin valid /\ Deps(t) \subseteq valid
  BY DEF sym_calc_value
<1>1. \A w : Deps(w)' = Deps(w)
  BY DEF Deps, DefaultSymbols
<1>2. ASSUME NEW W \in SUBSET valid', W # {} PROVE \E w \in W : Deps(w) \cap W = {}
  <2>1. CASE W \cap valid = {}
    BY <1>0, <1>2, <2>1
  <2>2. CASE W \cap valid # {}
    <3>1. PICK w \in W \cap valid : Deps(w) \cap (W \cap valid) = {}
      BY <2>2 DEF WellFounded
    <3>2. Deps(w) \subseteq valid
      BY DEF DepsValid
    <3>3. QED
      BY <3>1, <3>2
  <2>3. QED
    BY <2>1, <2>2
<1>3. QED
  BY <1>1, <1>2 DEF WellFounded

(* What the answer was given by keeps its type: modules_sym keeps its      *)
(* value, or all of that has been calculated before it.                    *)
LEMMA CalcTypes ==
  ASSUME CacheInv, AnswerInv, NEW t \in Symbols, sym_calc_value(t),
         asked' # None, asked'.clean, NEW k \in Cone(asked.sym), k \in Tristates
  PROVE  modules_val' = modules_val
<1> DEFINE s == asked.sym
           c == ChoiceOf(s)
           P == Below(Modules)
<1>0. TypeOK /\ DepsValid
  BY DEF CacheInv
<1>1. /\ asked' = asked
      /\ t = Modules /\ NewValue(t) # modules_val => valid \cap Tristates = {}
  <2>1. CASE t = Modules /\ NewValue(t) # modules_val /\ valid \cap Tristates # {}
    <3>1. asked' = Doubted(asked)
      BY <2>1 DEF sym_calc_value
    <3>2. QED
      BY <1>0, <3>1 DEF Doubted, TypeOK
  <2>2. CASE ~(t = Modules /\ NewValue(t) # modules_val /\ valid \cap Tristates # {})
    BY <2>2 DEF sym_calc_value
  <2>3. QED
    BY <2>1, <2>2
<1>2. s \in Symbols /\ HonourInv(s, asked.val)
  BY <1>0, <1>1 DEF AnswerInv, TypeOK
<1>3. CASE t # Modules
  BY <1>3 DEF sym_calc_value
<1>4. CASE t = Modules /\ NewValue(t) = modules_val
  BY <1>4 DEF sym_calc_value
<1>5. CASE t = Modules /\ NewValue(t) # modules_val
  <2>1. /\ Modules \in Symbols \ (Tristates \cup Choices) /\ Modules \in P /\ Closed(P)
        /\ P \subseteq Symbols /\ valid \cup {Modules} \in SUBSET Symbols
    BY <1>0, BelowClosed, KconfigAssumption DEF TypeOK
  <2>2. P \subseteq valid \cup {Modules}
    <3>1. Closed(valid \cup {Modules})
      BY <1>0, <1>5 DEF Closed, DepsValid, sym_calc_value
    <3>2. QED
      BY <2>1, <3>1, BelowLeast
  <2>3. P \cap Tristates = {}
    BY <1>1, <1>5, <2>1, <2>2
  <2>4. CASE s \in P
    <3>1. Cone(s) \subseteq P
      BY <1>2, <2>1, <2>4, BelowLeast DEF Cone
    <3>2. QED
      BY <2>3, <3>1
  <2>5. CASE IsChoiceValue(s) /\ c \in P /\ s \notin P
    <3>1. P \cup {s} \in SUBSET Symbols /\ Closed(P \cup {s})
      BY <1>2, <2>1, <2>5, ChoiceDeps DEF Closed
    <3>2. Cone(s) \subseteq P \cup {s}
      BY <1>2, <2>5, <3>1, BelowLeast DEF Cone
    <3>3. s \notin Tristates
      BY <2>3, <2>5, ChoiceValue, ChoiceOfValue
    <3>4. QED
      BY <2>3, <3>2, <3>3
  <2>6. CASE s \notin P /\ ~(IsChoiceValue(s) /\ c \in P)
    <3>1. Modules \in Cone(s) \ {s}
      BY <2>1, <2>6 DEF Cone
    <3>2. Modules # c \/ ~IsChoiceValue(s)
      BY <2>1, <2>6
    <3>3. curr[Modules] = NewValue(Modules)
      BY <1>2, <3>1 DEF HonourInv, Settled
    <3>4. QED
      BY <1>5, <3>3 DEF AnswerInv
  <2>7. QED
    BY <2>4, <2>5, <2>6
<1>6. QED
  BY <1>3, <1>4, <1>5

(* The inputs of the symbols the answer was given by, and of the answered  *)
(* one but for the choice that is to be calculated.                        *)
LEMMA CalcCone ==
  ASSUME CacheInv, AnswerInv, NEW t \in Symbols, sym_calc_value(t),
         asked # None, asked.clean, asked' # None, asked'.clean,
         NEW k \in Cone(asked.sym)
  PROVE  /\ k \in Symbols
         /\ k # asked.sym => SameInputs(k) /\ curr'[k] = curr[k]
         /\ \A u \in Deps(k) : u # asked.sym => curr'[u] = curr[u]
         /\ k \in Tristates => modules_val' = modules_val
         /\ k # asked.sym /\ k \in Choices /\ Settled(k) => selected'[k] = selected[k]
<1> DEFINE s == asked.sym
           c == ChoiceOf(s)
<1>0. TypeOK /\ ValuesOfChoices /\ ValuesOfChoices'
  BY CalcRest DEF CacheInv
<1>1. s \in Symbols /\ HonourInv(s, asked.val)
  BY <1>0 DEF AnswerInv, TypeOK
<1>2. Cone(s) \subseteq Symbols /\ Closed(Cone(s))
  BY <1>1, ConeClosed
<1>3. ASSUME NEW j \in Cone(s), j # s
      PROVE  /\ curr'[j] = curr[j]
             /\ j \in Choices /\ Settled(j) => selected'[j] = selected[j]
  <2>1. CASE j # t
    BY <1>0, <1>2, <1>3, <2>1 DEF sym_calc_value, TypeOK
  <2>2. CASE j = t
    <3>1. curr[j] = NewValue(j)
      BY <1>1, <1>3 DEF HonourInv, Settled
    <3>2. curr'[j] = NewValue(j) /\ (j \in Choices => selected'[j] = NewSelected(j))
      BY <1>0, <2>2 DEF sym_calc_value, TypeOK
    <3>3. QED
      BY <3>1, <3>2 DEF Settled
  <2>3. QED
    BY <2>1, <2>2
<1>4. k \in Symbols /\ Deps(k) \subseteq Cone(s)
  BY <1>2 DEF Closed
<1>5. k \in Tristates => modules_val' = modules_val
  BY CalcTypes
<1>6. ASSUME k # s PROVE SameInputs(k)
  <2>1. s \notin Deps(k) /\ (IsChoiceValue(s) => c \notin Deps(k))
    BY <1>1, <1>6 DEF HonourInv, Apart
  <2>2. \A u \in Deps(k) : curr'[u] = curr[u]
    BY <1>3, <1>4, <2>1
  <2>3. ASSUME IsChoiceValue(k)
        PROVE  /\ rev_dep'[k] = rev_dep[k]
               /\ selected'[ChoiceOf(k)] = selected[ChoiceOf(k)]
    <3>1. /\ ChoiceOf(k) \in Deps(k) /\ ChoiceOf(k) \in Choices
          /\ k \in ValueSet(ChoiceOf(k))
      BY <1>4, <2>3, DepsOf, ChoiceValue
    <3>2. rev_dep'[k] = rev_dep[k]
      BY <1>0, <3>1 DEF ValuesOfChoices
    <3>3. ChoiceOf(k) \in Cone(s) \ {s} /\ (IsChoiceValue(s) => ChoiceOf(k) # c)
      BY <1>4, <2>1, <3>1
    <3>4. Settled(ChoiceOf(k))
      BY <1>1, <3>3 DEF HonourInv, Pending
    <3>5. QED
      BY <1>3, <3>1, <3>2, <3>3, <3>4
  <2>4. QED
    BY <1>5, <2>2, <2>3 DEF SameInputs
<1>7. QED
  BY <1>3, <1>4, <1>5, <1>6

LEMMA ApartConstant == ASSUME NEW s PROVE Apart(s)' = Apart(s)
  BY DEF Apart, Cone, Below, Closed, Deps, DefaultSymbols

LEMMA CalcHonour ==
  ASSUME CacheInv, AnswerInv, NEW t \in Symbols, sym_calc_value(t),
         NEW s \in Symbols, NEW val \in Tri, asked # None, asked.clean,
         asked.sym = s, asked.val = val, asked' # None, asked'.clean
  PROVE  HonourInv(s, val)'
<1> DEFINE c == ChoiceOf(s)
<1>0. /\ TypeOK /\ ValuesOfChoices /\ HonourInv(s, val) /\ UNCHANGED userVars
      /\ valid' = valid \cup {t} /\ t \notin valid /\ Deps(t) \subseteq valid
      /\ curr' = [curr EXCEPT ![t] = NewValue(t)]
      /\ s \in Cone(s)
  <2>1. TypeOK /\ ValuesOfChoices
    BY DEF CacheInv
  <2>2. asked = [sym |-> s, val |-> val, clean |-> TRUE]
    BY <2>1 DEF TypeOK
  <2>3. HonourInv(s, val)
    BY <2>2 DEF AnswerInv
  <2>4. QED
    BY <2>1, <2>3, ConeClosed DEF sym_calc_value
<1>1. \A k \in Symbols : SameAnswer(k)
  BY <1>0 DEF SameAnswer, userVars
<1>2. ASSUME NEW k \in Cone(s), k # s
      PROVE  /\ k \in Symbols /\ SameInputs(k) /\ curr'[k] = curr[k]
             /\ k \in Choices /\ Settled(k) => selected'[k] = selected[k]
  BY <1>2, CalcCone
<1>3. ASSUME NEW k \in Cone(s), k # s, Settled(k) PROVE Settled(k)'
  BY <1>0, <1>1, <1>2, <1>3, StaysSettled
<1>4. IsChoiceValue(s) => c \in Cone(s) /\ c # s /\ c \in Choices /\ c \in Deps(s)
  BY <1>0, ChoiceDeps, ConeClosed DEF Closed
<1>5. /\ \A u \in Deps(s) : curr'[u] = curr[u]
      /\ s \in Tristates => modules_val' = modules_val
  <2>1. \A u \in Deps(s) : u # s => curr'[u] = curr[u]
    BY <1>0, CalcCone
  <2>2. s \in Deps(s) => curr'[s] = curr[s]
    BY <1>0 DEF TypeOK
  <2>3. s \in Tristates => modules_val' = modules_val
    BY <1>0, CalcCone
  <2>4. QED
    BY <2>1, <2>2, <2>3
<1>6. IsChoiceValue(s) => rev_dep'[s] = rev_dep[s]
  <2>1. ValuesOfChoices'
    BY CalcRest
  <2>2. QED
    BY <1>0, <2>1, ChoiceValue DEF ValuesOfChoices
<1>7. CASE ~Pending(s, val)
  <2>1. IsChoiceValue(s) => selected'[c] = selected[c]
    BY <1>0, <1>2, <1>4, <1>7 DEF HonourInv
  <2>2. SameInputs(s)
    BY <1>5, <1>6, <2>1 DEF SameInputs
  <2>3. NewValue(s)' = NewValue(s) /\ (NothingToChoose(s) => NothingToChoose(s)')
    BY <1>0, <1>1, <2>2, SameNewValue, SameChoices DEF NothingToChoose
  <2>4. Foretold(s, val)'
    BY <1>0, <1>7, <2>3 DEF HonourInv, Foretold
  <2>5. s \in valid' => curr'[s] = val \/ NothingToChoose(s)'
    BY <1>0, <1>7, <2>3 DEF HonourInv, Foretold, TypeOK
  <2>6. \A k \in Cone(s) \ {s} : Settled(k)'
    BY <1>0, <1>3, <1>7 DEF HonourInv
  <2>7. QED
    BY <1>0, <2>4, <2>5, <2>6, ApartConstant DEF HonourInv, Cone, Below, Closed, Deps, DefaultSymbols
<1>8. CASE Pending(s, val)
  <2>1. /\ IsChoiceValue(s) /\ val = yes /\ c \notin valid /\ s \notin Choices
        /\ NewSelected(c) = s /\ Visibility(s) = yes /\ curr[c] = NewValue(c)
        /\ c \in Symbols
    BY <1>0, <1>2, <1>4, <1>8, ChoiceDeps DEF HonourInv, Pending, Settled
  <2>2. NewSelected(c)' = s /\ NewValue(c)' = NewValue(c) /\ curr'[c] = curr[c]
    BY <1>0, <1>1, <1>2, <1>4, <2>1, SameNewValue
  <2>3. Visibility(s)' = yes
    <3>1. ExprValue(Prompt[s], curr') = ExprValue(Prompt[s], curr)
      BY <1>5, DepsOf, ExprLocal
    <3>2. curr'[c] = curr[c]
      BY <2>2
    <3>3. (s \notin Tristates \/ modules_val' = no) = (s \notin Tristates \/ modules_val = no)
      BY <1>5
    <3>4. Visibility(s)' = Visibility(s)
      BY <3>1, <3>2, <3>3, Zenon DEF Visibility, PromptValue
    <3>5. QED
      BY <2>1, <3>4
  <2>4. t # s
    BY <1>0, <1>4, <2>1
  <2>5. s \in valid' => curr'[s] = val
    BY <1>0, <2>1, <2>4 DEF HonourInv, NothingToChoose, TypeOK
  <2>6. CASE t = c
    <3>1. selected'[c] = s
      BY <1>0, <1>4, <2>1, <2>6 DEF sym_calc_value, TypeOK
    <3>2. NewValue(s)' = yes
      <4>1. BaseValue(s)' = yes
        BY <2>1, <2>3, <3>1 DEF BaseValue, NoModule, yes, mod
      <4>2. QED
        BY <2>1, <4>1 DEF NewValue
    <3>3. Settled(c)'
      BY <2>1, <2>2, <3>1 DEF Settled
    <3>4. \A k \in Cone(s) \ {s} : Settled(k)'
      BY <1>0, <1>3, <3>3 DEF HonourInv
    <3>5. Foretold(s, val)'
      BY <2>1, <3>2 DEF Foretold
    <3>6. QED
      BY <1>0, <2>5, <3>4, <3>5, ApartConstant DEF HonourInv, Cone, Below, Closed, Deps, DefaultSymbols
  <2>7. CASE t # c
    <3>1. Pending(s, val)'
      BY <1>0, <2>1, <2>2, <2>3, <2>7 DEF Pending
    <3>2. \A k \in Cone(s) \ {s} : Settled(k)' \/ (k = c /\ curr'[k] = NewValue(k)')
      BY <1>0, <1>3, <2>1, <2>2 DEF HonourInv
    <3>3. QED
      BY <1>0, <2>5, <3>1, <3>2, ApartConstant
         DEF HonourInv, Foretold, Cone, Below, Closed, Deps, DefaultSymbols
  <2>8. QED
    BY <2>6, <2>7
<1>9. QED
  BY <1>7, <1>8

-----------------------------------------------------------------------------
(* Accepting an answer.                                                    *)

(* y for a visible value of a choice: the choice stays y and will choose   *)
(* it.                                                                     *)
LEMMA AcceptChoice ==
  ASSUME TypeOK, ValuesOfChoices, NEW s \in Symbols, IsChoiceValue(s),
         Accept(s, yes), Coherent(ChoiceOf(s)), Visibility(s) = yes
  PROVE  LET c == ChoiceOf(s)
         IN  curr[c] = yes /\ NewValue(c)' = yes /\ NewSelected(c)' = s
<1> DEFINE c == ChoiceOf(s)
<1>0. /\ c \in Choices /\ s \in ValueSet(c) /\ c \in Symbols /\ ~IsChoiceValue(c)
      /\ (s \in Tristates <=> c \in Tristates) /\ s # None
  BY ChoiceValue, ChoiceOfValue, KconfigAssumption
<1> HIDE DEF c
<1>1. SameInputs(c)
  BY <1>0, AcceptInputs
<1>2. curr[c] = NewValue(c)
  BY DEF Coherent, c
<1>3. curr[c] = yes
  <2>1. curr[c] \in Tri /\ ExprValue(Prompt[s], curr) \in Tri
    BY <1>0, ExprTri DEF TypeOK
  <2>2. Visibility(s) = NoModule(E_AND(curr[c], ExprValue(Prompt[s], curr)),
                                 s \notin Tristates \/ modules_val = no)
    BY DEF Visibility, PromptValue, c
  <2>3. curr[c] # no
    BY <2>1, <2>2 DEF NoModule, E_AND, Tri, no, mod, yes
  <2>4. ASSUME curr[c] = mod PROVE FALSE
    <3>1. BaseValue(c) = mod
      BY <1>2, <2>4 DEF NewValue, no, mod
    <3>2. ~IsBoolean(c, Visibility(c))
      BY <3>1 DEF BaseValue, NoModule, mod, yes
    <3>3. s \in Tristates /\ modules_val # no
      BY <1>0, <3>2 DEF IsBoolean
    <3>4. Visibility(s) = E_AND(mod, ExprValue(Prompt[s], curr))
      BY <2>2, <2>4, <3>3 DEF NoModule
    <3>5. QED
      BY <2>1, <3>4 DEF E_AND, Tri, no, mod, yes
  <2>5. QED
    BY <2>1, <2>3, <2>4 DEF Tri
<1>4. BaseValue(c) = yes
  BY <1>2, <1>3 DEF NewValue, no, yes
<1>5. def_sel'[c] = s /\ c \in def_user' /\ (c \in def_user => def'[c] = def[c])
  BY <1>0, ChoiceOfValue DEF Accept, TypeOK, c
<1>6. BaseValue(c)' = yes
  <2>1. CASE c \in def_user
    BY <1>0, <1>1, <1>4, <1>5, <2>1, SameUser, SameBaseValue
  <2>2. CASE c \notin def_user
    <3>1. UserOrDefault(c) = no
      BY <1>0, <2>2 DEF UserOrDefault
    <3>2. /\ Visibility(c) \in Tri /\ LowerBound(c) \in Tri
          /\ IsBoolean(c, Visibility(c)) => LowerBound(c) # mod
      BY <1>0, VisibilityTri, LowerBoundTri, BooleanBounds DEF Tri
    <3>3. LowerBound(c) = yes
      BY <1>0, <1>4, <3>1, <3>2 DEF BaseValue, NoModule, E_OR, E_AND, Tri, no, mod, yes
    <3>4. /\ Visibility(c)' = Visibility(c) /\ LowerBound(c)' = LowerBound(c)
          /\ UserOrDefault(c)' \in Tri
      BY <1>0, <1>1, <1>5, SameVisibility, SameLowerBound DEF UserOrDefault, Accept, TypeOK, c
    <3>5. QED
      BY <1>0, <3>2, <3>3, <3>4 DEF BaseValue, NoModule, E_OR, E_AND, Tri, no, mod, yes
  <2>3. QED
    BY <2>1, <2>2
<1>7. Shown(s)'
  <2>1. PromptValue(s, yes) = yes
    BY <1>3 DEF Visibility, c
  <2>2. Shown(s)
    BY <2>1 DEF Shown, no, yes
  <2>3. QED
    BY <1>0, <1>1, <2>2, SameShown
<1>8. CalcChoice(c)' = s
  BY <1>0, <1>5, <1>7 DEF CalcChoice
<1>9. QED
  BY <1>0, <1>3, <1>6, <1>8 DEF NewValue, NewSelected, c

LEMMA ShownChosenNext ==
  ASSUME NEW c \in Choices, ShownValues(c)' # {}
  PROVE  CalcChoice(c)' # None
<1>1. ShownValues(c)' \in SUBSET Nat /\ LiveChoices(c)' \in SUBSET Nat
  BY ChoiceSequences DEF ShownValues, LiveChoices
<1>2. First(ShownValues(c)') \in DOMAIN Values[c]
  BY <1>1, FirstIn DEF ShownValues
<1>3. LiveChoices(c)' # {} => First(LiveChoices(c)') \in DOMAIN ChoiceDefaults[c]
  BY <1>1, FirstIn DEF LiveChoices
<1>4. Values[c][First(ShownValues(c)')] # None
  BY <1>2, ChoiceSequences, KconfigAssumption
<1>5. LiveChoices(c)' # {} => ChoiceDefaults[c][First(LiveChoices(c)')].sym # None
  BY <1>3, ChoiceSequences, ChoiceOfValue, KconfigAssumption
<1>6. /\ First(ShownValues(c))' = First(ShownValues(c)')
      /\ First(LiveChoices(c))' = First(LiveChoices(c)')
  BY DEF First
<1>7. QED
  BY <1>4, <1>5, <1>6 DEF CalcChoice

(* A value within the range of s is what it gets.                          *)
LEMMA AcceptRange ==
  ASSUME TypeOK, ValuesOfChoices, NEW s \in Symbols, NEW val \in Tri, Accept(s, val),
         Coherent(s), WithinRange(s, val), ~(IsChoiceValue(s) /\ Visibility(s) = yes)
  PROVE  NewValue(s)' = val \/ NothingToChoose(s)'
<1> DEFINE vis == Visibility(s)
           low == LowerBound(s)
           b   == IsBoolean(s, vis)
<1>1. SameInputs(s) /\ s \in def_user' /\ def'[s] = val
  BY AcceptInputs DEF Accept, TypeOK
<1>2. Visibility(s)' = vis /\ LowerBound(s)' = low /\ IsBoolean(s, vis)' = b
  BY <1>1, SameVisibility, SameLowerBound, SameType
<1>3. /\ vis # no /\ low <= val /\ val <= vis /\ ~(b /\ val = mod)
      /\ vis \in Tri /\ low \in Tri
  BY VisibilityTri, LowerBoundTri DEF Coherent, WithinRange, Tri
<1>4. UserOrDefault(s)' = val
  BY <1>1 DEF UserOrDefault
<1>5. BaseValue(s)' = NoModule(E_OR(E_AND(val, vis), low), b)
  <2>1. E_OR(vis, low) # no
    BY <1>3 DEF E_OR, Tri, no, mod, yes
  <2>2. QED
    BY <1>2, <1>4, <2>1 DEF BaseValue
<1>6. E_OR(E_AND(val, vis), low) = val
  BY <1>3 DEF E_OR, E_AND, Tri, no, mod, yes
<1> HIDE DEF vis, low, b
<1>7. BaseValue(s)' = val
  BY <1>3, <1>5, <1>6 DEF NoModule
<1>8. s \in Choices /\ CalcChoice(s)' = None => ShownValues(s)' = {}
  BY ShownChosenNext
<1>9. QED
  BY <1>7, <1>8 DEF NewValue, NothingToChoose

(* An answer given by values that are right is honoured when it is given.  *)
LEMMA AcceptHonour ==
  ASSUME CacheInv, AnswerInv, NEW s \in Symbols, NEW val \in Tri, Accept(s, val),
         OnScreen(s), AllCoherent, ModulesKnown
  PROVE  HonourInv(s, val)'
<1> DEFINE c == ChoiceOf(s)
           chosen == IsChoiceValue(s) /\ val = yes
<1>0. /\ TypeOK /\ ValuesOfChoices /\ DepsValid /\ WellFounded /\ s \in valid
      /\ \A k \in valid : k \in Symbols /\ Coherent(k)
  BY DEF CacheInv, AllCoherent, AnswerInv, OnScreen, TypeOK
<1>1. Cone(s) \subseteq valid /\ Apart(s) /\ s \in Cone(s)
  BY <1>0, ConeApart, ConeClosed DEF TypeOK
<1>2. Cone(s)' = Cone(s) /\ Apart(s)'
  BY <1>1 DEF Apart, Cone, Below, Closed, Deps, DefaultSymbols
<1>3. \A k \in Symbols : SameInputs(k) /\ SameEntry(k)
  BY AcceptInputs
<1>4. CASE curr[s] = val
  <2>1. valid' = valid /\ curr' = curr
    BY <1>4 DEF Accept
  <2>2. ASSUME NEW k \in valid, ~(k = s /\ NothingToChoose(s)) PROVE Coherent(k)'
    BY <1>0, <1>4, <2>2, RepeatEntry DEF NothingToChoose
  <2>3. \A k \in Cone(s) \ {s} : Settled(k)'
    BY <1>1, <2>2 DEF Coherent, Settled
  <2>4. Foretold(s, val)'
    <3>1. CASE NothingToChoose(s)
      BY <1>0, <1>3, <3>1, SameChoices DEF NothingToChoose, Foretold
    <3>2. CASE ~NothingToChoose(s)
      BY <1>0, <1>4, <2>1, <2>2, <3>2 DEF Coherent, Foretold
    <3>3. QED
      BY <3>1, <3>2
  <2>5. QED
    BY <1>2, <1>4, <2>1, <2>3, <2>4 DEF HonourInv
<1>5. CASE curr[s] # val
  <2>1. valid' = {} /\ WithinRange(s, val) /\ Coherent(s)
    BY <1>0, <1>5 DEF Accept, sym_clear_all_valid
  <2>2. IsChoiceValue(s) /\ Visibility(s) = yes => val = yes
    BY <2>1 DEF WithinRange, Coherent
  <2>3. ASSUME NEW k \in Cone(s) \ {s}, ~(chosen /\ k = c) PROVE Settled(k)'
    <3>1. k \in Symbols /\ Settled(k)
      BY <1>0, <1>1 DEF Coherent, Settled
    <3>2. IsChoiceValue(s) => k \notin ValueSet(c)
      <4>1. k \in ValueSet(c) /\ IsChoiceValue(s) => c \in Deps(k)
        BY <3>1, ChoiceDeps, ChoiceOfValue, DepsOf
      <4>2. QED
        BY <1>1, <4>1 DEF Apart
    <3>3. SameAnswer(k)
      BY <1>0, <2>3, <3>1, <3>2 DEF Accept, SameAnswer, TypeOK
    <3>4. QED
      BY <1>0, <1>3, <3>1, <3>3, StaysSettled DEF SameEntry
  <2>4. CASE chosen
    <3>1. Visibility(s) = yes
      <4>1. visible[s] \in Tri /\ visible[s] = Visibility(s)
        BY <1>0, <2>1 DEF TypeOK, Coherent
      <4>2. QED
        BY <2>1, <2>4, <4>1 DEF WithinRange, Tri, no, mod, yes
    <3>2. c \in valid
      BY <1>0, <2>4, DepsOf DEF DepsValid
    <3>3. curr[c] = yes /\ NewValue(c)' = yes /\ NewSelected(c)' = s
      BY <1>0, <2>4, <3>1, <3>2, AcceptChoice
    <3>4. Visibility(s)' = yes
      BY <1>3, <3>1, SameVisibility
    <3>5. Pending(s, val)'
      BY <2>1, <2>4, <3>3, <3>4 DEF Pending
    <3>6. curr'[c] = NewValue(c)'
      BY <1>0, <1>3, <3>2, <3>3 DEF SameEntry
    <3>7. QED
      BY <1>2, <2>1, <2>3, <3>5, <3>6 DEF HonourInv, Foretold
  <2>5. CASE ~chosen
    <3>1. NewValue(s)' = val \/ NothingToChoose(s)'
      BY <1>0, <2>1, <2>2, <2>5, AcceptRange
    <3>2. QED
      BY <1>2, <2>1, <2>3, <2>5, <3>1 DEF HonourInv, Foretold
  <2>6. QED
    BY <2>4, <2>5
<1>6. QED
  BY <1>4, <1>5

-----------------------------------------------------------------------------
(* The invariant holds.                                                    *)

(* Whatever is valid later was so already, or nothing is.                  *)
LEMMA FoundedStays ==
  ASSUME WellFounded, valid' \subseteq valid
  PROVE  WellFounded'
  BY DEF WellFounded, Deps, DefaultSymbols

LEMMA CalcAnswer ==
  ASSUME CacheInv, AnswerInv, NEW t \in Symbols, sym_calc_value(t)
  PROVE  AnswerInv'
<1>0. TypeOK /\ DepsValid /\ WellFounded
  BY DEF CacheInv, AnswerInv
<1>1. WellFounded'
  BY <1>0, CalcFounded
<1>2. modules_val' = curr'[Modules]
  BY <1>0, KconfigAssumption DEF AnswerInv, sym_calc_value, TypeOK
<1>3. asked' = asked \/ asked' = Doubted(asked)
  BY DEF sym_calc_value
<1>4. phase' = "checking" => asked' = None
  BY <1>3 DEF AnswerInv, sym_calc_value, ioVars, Doubted
<1>5. ASSUME NEW s \in Symbols, NEW val \in Tri,
             asked' # None, asked' = [sym |-> s, val |-> val, clean |-> TRUE]
      PROVE  HonourInv(s, val)'
  <2>1. asked' = asked
    BY <1>0, <1>3, <1>5 DEF Doubted, TypeOK
  <2>2. QED
    BY <1>5, <2>1, CalcHonour
<1>6. QED
  BY <1>1, <1>2, <1>4, <1>5 DEF AnswerInv

LEMMA AcceptAnswer ==
  ASSUME CacheInv, AnswerInv, NEW s \in Symbols, NEW val \in Tri, Accept(s, val),
         OnScreen(s), Idle
  PROVE  AnswerInv'
<1>1. WellFounded'
  BY FoundedStays DEF AnswerInv, Accept, sym_clear_all_valid
<1>2. modules_val' = curr'[Modules] /\ phase' = "idle"
  BY DEF AnswerInv, Accept, ioVars, Idle
<1>3. asked' = [sym |-> s, val |-> val, clean |-> AllCoherent /\ ModulesKnown]
  BY DEF Accept
<1>4. ASSUME NEW r \in Symbols, NEW v \in Tri,
             asked' = [sym |-> r, val |-> v, clean |-> TRUE]
      PROVE  HonourInv(r, v)'
  <2>1. r = s /\ v = val /\ AllCoherent /\ ModulesKnown
    <3>1. asked'.sym = s /\ asked'.val = val
      BY <1>3
    <3>2. asked'.clean = (AllCoherent /\ ModulesKnown)
      BY <1>3
    <3>3. asked'.sym = r /\ asked'.val = v /\ asked'.clean = TRUE
      BY <1>4
    <3>4. QED
      BY <3>1, <3>2, <3>3
  <2>2. HonourInv(s, val)'
    BY <2>1, AcceptHonour
  <2>3. QED
    BY <2>1, <2>2
<1>5. QED
  BY <1>1, <1>2, <1>4 DEF AnswerInv

(* Forgetting what was calculated does not take an answer back.            *)
LEMMA QuietAnswer ==
  ASSUME CacheInv, AnswerInv,
         UNCHANGED <<curr, selected, rev_dep, modules_val, def_user, def, def_sel, asked>>,
         valid' = valid \/ valid' = {}, phase' = "checking" => phase = "checking"
  PROVE  AnswerInv'
<1>0. ValuesOfChoices /\ WellFounded'
  BY FoundedStays DEF CacheInv, AnswerInv
<1>1. \A k \in Symbols : SameInputs(k) /\ SameAnswer(k)
  BY DEF SameInputs, SameAnswer
<1>2. ASSUME NEW s \in Symbols, NEW val \in Tri, HonourInv(s, val)
      PROVE  HonourInv(s, val)'
  <2> DEFINE c == ChoiceOf(s)
  <2>0. Apart(s)' /\ Cone(s)' = Cone(s) /\ Cone(s) \subseteq Symbols
    BY <1>2, ConeClosed DEF HonourInv, Apart, Cone, Below, Closed, Deps, DefaultSymbols
  <2>1. \A k \in Symbols :
          /\ NewValue(k)' = NewValue(k)
          /\ k \in Choices => NewSelected(k)' = NewSelected(k)
          /\ Settled(k) => Settled(k)'
    BY <1>0, <1>1, SameNewValue, StaysSettled
  <2>2. NothingToChoose(s) => NothingToChoose(s)'
    BY <1>1, SameChoices DEF NothingToChoose
  <2>3. Pending(s, val) => Pending(s, val)'
    BY <1>1, <2>1, ChoiceDeps, SameVisibility DEF Pending
  <2>4. Foretold(s, val)'
    BY <1>2, <2>1, <2>2, <2>3 DEF HonourInv, Foretold
  <2>5. \A k \in Cone(s) \ {s} :
          Settled(k)' \/ (Pending(s, val)' /\ k = c /\ curr'[k] = NewValue(k)')
    BY <1>2, <2>0, <2>1, <2>3 DEF HonourInv
  <2>6. s \in valid' => curr'[s] = val \/ NothingToChoose(s)'
    BY <1>2, <2>2 DEF HonourInv
  <2>7. QED
    BY <2>0, <2>4, <2>5, <2>6 DEF HonourInv
<1>3. QED
  BY <1>0, <1>2 DEF AnswerInv

LEMMA AnswerInit == ASSUME Init PROVE AnswerInv
<1>1. modules_val = curr[Modules] /\ WellFounded
  BY KconfigAssumption DEF Init, WellFounded
<1>2. QED
  BY <1>1 DEF Init, AnswerInv

LEMMA AnswerNext == ASSUME CacheInv, AnswerInv, [Next]_vars PROVE AnswerInv'
<1>1. ASSUME NEW s \in Symbols, sym_calc_value(s) PROVE AnswerInv'
  BY <1>1, CalcAnswer
<1>2. ASSUME NEW s \in Symbols, NEW val \in Tri, sym_set_tristate_value(s, val)
      PROVE  AnswerInv'
  BY <1>2, AcceptAnswer DEF sym_set_tristate_value
<1>3. ASSUME NEW s \in Symbols, sym_toggle_tristate_value(s) PROVE AnswerInv'
  <2>1. PICK val \in Tri : Accept(s, val)
    BY <1>3, ToggleAccepts DEF CacheInv
  <2>2. QED
    BY <1>3, <2>1, AcceptAnswer DEF sym_toggle_tristate_value
<1>4. CASE conf_read_missing
  BY <1>4, QuietAnswer DEF conf_read_missing, tableVars, userVars
<1>5. CASE conf_read_absent
  BY <1>5, QuietAnswer DEF conf_read_absent, tableVars, userVars, ioVars
<1>6. CASE conf_read_simple
  <2>1. WellFounded'
    BY <1>6, FoundedStays DEF AnswerInv, conf_read_simple
  <2>2. modules_val' = curr'[Modules] /\ asked' = None
    BY <1>6 DEF AnswerInv, conf_read_simple
  <2>3. QED
    BY <2>1, <2>2 DEF AnswerInv
<1>7. ASSUME NEW s \in Symbols, ReadCheck(s) PROVE AnswerInv'
  <2>1. asked' = None
    BY <1>7 DEF AnswerInv, ReadCheck
  <2>2. WellFounded' /\ modules_val' = curr'[Modules]
    BY <1>7, FoundedStays DEF AnswerInv, ReadCheck, tableVars
  <2>3. QED
    BY <2>1, <2>2 DEF AnswerInv
<1>8. CASE conf_read_done
  BY <1>8, QuietAnswer DEF conf_read_done, tableVars, userVars
<1>9. CASE conf_write_begin
  BY <1>9, QuietAnswer DEF conf_write_begin, sym_clear_all_valid, userVars
<1>10. CASE conf_write_end
  BY <1>10, QuietAnswer DEF conf_write_end, tableVars, userVars
<1>11. CASE conf_write_failed
  BY <1>11, QuietAnswer DEF conf_write_failed, tableVars, userVars
<1>12. CASE UNCHANGED vars
  BY <1>12, QuietAnswer DEF vars, tableVars, userVars, ioVars
<1>13. QED
  BY <1>1, <1>2, <1>3, <1>4, <1>5, <1>6, <1>7, <1>8, <1>9, <1>10, <1>11,
     <1>12 DEF Next

-----------------------------------------------------------------------------
(* The invariant behind the theorem below: what an answer was given by     *)
(* evaluates to itself, and the answered symbol to the answer.             *)
THEOREM AnswerInvariant == Spec => [](CacheInv /\ AnswerInv)
<1>1. Init => CacheInv /\ AnswerInv
  BY CacheInit, AnswerInit
<1>2. CacheInv /\ AnswerInv /\ [Next]_vars => (CacheInv /\ AnswerInv)'
  BY CacheNext, AnswerNext
<1>3. QED
  BY <1>1, <1>2, PTL DEF Spec

(* Whatever is calculated again, saved or cleared after it, an answer      *)
(* sym_set_tristate_value has accepted is the value of its symbol until    *)
(* the next answer: no evaluation order, and no choice or modules_sym      *)
(* being calculated late, gives it another.                                *)
THEOREM AnswerCorrect == Spec => []AnswerHonoured
<1>1. CacheInv /\ AnswerInv => AnswerHonoured
  <2> SUFFICES ASSUME CacheInv, AnswerInv, asked # None, asked.clean,
                      asked.sym \in valid, ~NothingToChoose(asked.sym)
               PROVE  curr[asked.sym] = asked.val
    BY DEF AnswerHonoured, NothingToChoose
  <2>1. asked \in [sym : Symbols, val : Tri, clean : BOOLEAN]
    BY DEF CacheInv, TypeOK
  <2>2. asked = [sym |-> asked.sym, val |-> asked.val, clean |-> TRUE]
    BY <2>1
  <2>3. HonourInv(asked.sym, asked.val)
    BY <2>1, <2>2 DEF AnswerInv
  <2>4. QED
    BY <2>3 DEF HonourInv
<1>2. QED
  BY <1>1, AnswerInvariant, PTL

(* With only booleans, and choices that always have a value, every answer  *)
(* is given by right values: whatever was answered, loaded or saved before *)
(* it, and whether or not modules_sym has been calculated, it becomes the  *)
(* value of its symbol and stays it (mconf.c:43).                          *)
THEOREM BooleanAnswers == ASSUME BooleanKconfig PROVE Spec => []EveryAnswerHonoured
<1> DEFINE Clean == asked # None => asked.clean
<1>1. Init => Clean
  BY DEF Init
<1>2. ASSUME CacheInv, AllCoherent, Clean, [Next]_vars PROVE Clean'
  <2>1. ASSUME NEW s \in Symbols, sym_calc_value(s) PROVE Clean'
    <3>1. asked' = asked
      BY <2>1 DEF sym_calc_value, BooleanKconfig
    <3>2. QED
      BY <1>2, <3>1
  <2>2. ASSUME NEW s \in Symbols, NEW val \in Tri, Accept(s, val) PROVE Clean'
    <3>1. asked' = [sym |-> s, val |-> val, clean |-> AllCoherent /\ ModulesKnown]
      BY <2>2 DEF Accept
    <3>2. ModulesKnown
      BY DEF ModulesKnown, BooleanKconfig
    <3>3. asked'.clean = (AllCoherent /\ ModulesKnown)
      BY <3>1
    <3>4. QED
      BY <1>2, <3>2, <3>3
  <2>3. ASSUME NEW s \in Symbols, NEW val \in Tri, sym_set_tristate_value(s, val)
        PROVE  Clean'
    BY <2>2, <2>3 DEF sym_set_tristate_value
  <2>4. ASSUME NEW s \in Symbols, sym_toggle_tristate_value(s) PROVE Clean'
    BY <1>2, <2>2, <2>4, ToggleAccepts DEF CacheInv
  <2>5. CASE asked' = asked
    BY <1>2, <2>5
  <2>6. CASE conf_read_simple
    BY <2>6 DEF conf_read_simple
  <2>7. QED
    BY <1>2, <2>1, <2>3, <2>4, <2>5, <2>6
       DEF Next, conf_read_missing, conf_read_absent, ReadCheck, conf_read_done,
           conf_write_begin, conf_write_end, conf_write_failed, vars
<1>3. CacheInv /\ Clean /\ AnswerHonoured => EveryAnswerHonoured
  BY DEF AnswerHonoured, EveryAnswerHonoured, Trusted
<1>4. QED
  BY <1>1, <1>2, <1>3, CacheInvariant, BooleanCorrect, AnswerCorrect, PTL DEF Spec

-----------------------------------------------------------------------------
(* The order of evaluation.  The primed variables below are another state  *)
(* of the program, which need not follow the unprimed one.                 *)

LEMMA EqualInputs ==
  ASSUME CacheInv, CacheInv', NEW k \in Symbols,
         \A t \in Deps(k) : SameEntry(t),
         k \in Tristates => modules_val' = modules_val
  PROVE  SameInputs(k)
<1>1. \A t \in Deps(k) : curr'[t] = curr[t]
  BY DEF SameEntry
<1>2. ASSUME IsChoiceValue(k)
      PROVE  /\ rev_dep'[k] = rev_dep[k]
             /\ selected'[ChoiceOf(k)] = selected[ChoiceOf(k)]
  <2>1. ChoiceOf(k) \in Choices /\ k \in ValueSet(ChoiceOf(k)) /\ ChoiceOf(k) \in Deps(k)
    BY <1>2, ChoiceValue, DepsOf
  <2>2. rev_dep[k] = no /\ rev_dep'[k] = no
    BY <2>1 DEF CacheInv, ValuesOfChoices
  <2>3. QED
    BY <2>1, <2>2 DEF SameEntry
<1>3. QED
  BY <1>1, <1>2 DEF SameInputs

(* Equal inputs and answers, equal cache entries.                          *)
LEMMA EqualEntry ==
  ASSUME CacheInv, UNCHANGED userVars, NEW k \in Symbols, SameInputs(k),
         Coherent(k), Coherent(k)'
  PROVE  SameEntry(k)
<1>0. ValuesOfChoices /\ UNCHANGED <<def_user, def, def_sel>>
  BY DEF CacheInv, userVars
<1>1. Visibility(k)' = Visibility(k) /\ LowerBound(k)' = LowerBound(k)
  BY SameVisibility, SameLowerBound
<1>2. BaseValue(k)' = BaseValue(k)
  BY <1>0, SameUser, SameBaseValue
<1>3. k \in Choices => CalcChoice(k)' = CalcChoice(k)
  BY <1>0, SameCalcChoice DEF ValuesOfChoices
<1>4. /\ NewValue(k)' = NewValue(k)
      /\ k \in Choices => NewSelected(k)' = NewSelected(k)
  BY <1>2, <1>3 DEF NewValue, NewSelected
<1>5. QED
  BY <1>1, <1>4 DEF Coherent, SameEntry

(* Were one of K different in the two states, so would be one that reads   *)
(* no different one: what is valid was not calculated in a circle.         *)
LEMMA EqualBelow ==
  ASSUME CacheInv, CacheInv', WellFounded, UNCHANGED userVars,
         AllCoherent, AllCoherent',
         NEW K \in SUBSET (valid \cap valid'), Closed(K),
         K \cap Tristates = {} \/ modules_val' = modules_val
  PROVE  \A k \in K : SameEntry(k)
<1> DEFINE W == {k \in K : ~SameEntry(k)}
<1>1. SUFFICES ASSUME W # {} PROVE FALSE
  OBVIOUS
<1>2. PICK w \in W : Deps(w) \cap W = {}
  <2>1. W \in SUBSET valid
    OBVIOUS
  <2>2. QED
    BY <1>1, <2>1 DEF WellFounded
<1>3. w \in Symbols /\ w \in K
  BY DEF CacheInv, TypeOK
<1>4. \A t \in Deps(w) : SameEntry(t)
  BY <1>2, <1>3 DEF Closed
<1>5. SameInputs(w)
  BY <1>3, <1>4, EqualInputs
<1>6. Coherent(w) /\ Coherent(w)'
  BY <1>3 DEF AllCoherent
<1>7. SameEntry(w)
  BY <1>3, <1>5, <1>6, EqualEntry
<1>8. QED
  BY <1>7

(* The values do not depend on the order in which menus, the loop over the *)
(* hash table and the expressions ask for them: any two states of the      *)
(* program with the same answers agree on every symbol evaluated in both,  *)
(* if both caches are right, and there is no tristate, or both have the    *)
(* same modules_sym, or have evaluated it and no tristate decides that.    *)
THEOREM OrderIrrelevant ==
  ASSUME CacheInv /\ AnswerInv, (CacheInv /\ AnswerInv)',
         UNCHANGED userVars, AllCoherent, AllCoherent',
         \/ Tristates = {}
         \/ modules_val' = modules_val
         \/ PlainModules /\ Modules \in valid \cap valid'
  PROVE  \A s \in valid \cap valid' : SameEntry(s)
<1> DEFINE K == valid \cap valid'
<1>1. WellFounded /\ modules_val = curr[Modules] /\ modules_val' = curr'[Modules]
  BY DEF AnswerInv
<1>2. K \in SUBSET Symbols /\ Closed(K)
  <2>1. \A k \in K : Deps(k) \subseteq valid /\ Deps(k) \subseteq valid'
    <3>1. DepsValid /\ DepsValid'
      BY DEF CacheInv
    <3>2. \A k \in valid' : Deps(k) \subseteq valid'
      BY <3>1 DEF DepsValid, Deps, DefaultSymbols
    <3>3. QED
      BY <3>1, <3>2 DEF DepsValid
  <2>2. QED
    BY <2>1 DEF Closed, CacheInv, TypeOK
<1>3. ASSUME PlainModules, Modules \in K PROVE modules_val' = modules_val
  <2>1. ModulesNeeds \subseteq K
    BY <1>2, <1>3, BelowLeast, KconfigAssumption DEF ModulesNeeds
  <2>2. Modules \in ModulesNeeds /\ Closed(ModulesNeeds)
    BY BelowClosed, KconfigAssumption DEF ModulesNeeds
  <2>3. SameEntry(Modules)
    BY <1>1, <1>3, <2>1, <2>2, EqualBelow DEF PlainModules
  <2>4. QED
    BY <1>1, <2>3 DEF SameEntry
<1>4. K \cap Tristates = {} \/ modules_val' = modules_val
  BY <1>3
<1>5. QED
  BY <1>1, <1>2, <1>4, EqualBelow
=============================================================================
