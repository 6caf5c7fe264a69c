------------------------- MODULE KconfigFiles_proofs -------------------------
(***************************************************************************)
(* The symbol table and its file: conf_write may be skipped while          *)
(* sym_change_count is zero, for every Kconfig file; and a file it has     *)
(* written gives the same values when it is read again, for those in which *)
(* no expression reads a choice and no tristate decides MODULES, and with  *)
(* no further exception for those of booleans only.                        *)
(***************************************************************************)
EXTENDS KconfigCache_proofs, FiniteSetTheorems

-----------------------------------------------------------------------------
(* What is valid and not n is written.                                     *)

(* A calculation that yields m or y sets SYMBOL_WRITE, but of the value of *)
(* a choice, whose choice has.                                             *)
LEMMA CalcWrites ==
  ASSUME TypeOK, WriteInv, NEW s \in Symbols, sym_calc_value(s), NewValue(s) # no
  PROVE  /\ s \in write'
         /\ s \in Choices => ValueSet(s) \subseteq write'
<1> DEFINE shown == E_OR(Visibility(s), LowerBound(s)) # no
<1>0. write' = NewWrite(s) /\ BaseValue(s) # no
  BY DEF sym_calc_value, NewValue
<1>1. CASE IsChoiceValue(s) /\ Visibility(s) = yes
  <2>1. /\ ChoiceOf(s) \in Choices /\ s \in ValueSet(ChoiceOf(s))
        /\ s \notin Choices /\ ChoiceOf(s) \in Deps(s) /\ ChoiceOf(s) \in Symbols
    BY <1>1, ChoiceValue, ChoiceOfValue, DepsOf, KconfigAssumption
  <2>2. curr[ChoiceOf(s)] \in Tri /\ ExprValue(Prompt[s], curr) \in Tri
    BY <2>1, ExprTri DEF TypeOK
  <2>3. curr[ChoiceOf(s)] # no
    BY <1>1, <2>2 DEF Visibility, PromptValue, NoModule, E_AND, Tri, no, mod, yes
  <2>4. s \in write
    BY <2>1, <2>3 DEF WriteInv, sym_calc_value
  <2>5. QED
    BY <1>0, <1>1, <2>1, <2>4 DEF NewWrite
<1>2. CASE ~(IsChoiceValue(s) /\ Visibility(s) = yes) /\ shown
  BY <1>0, <1>2 DEF NewWrite
<1>3. CASE ~(IsChoiceValue(s) /\ Visibility(s) = yes) /\ ~shown
  <2>1. s \notin Choices
    BY <1>0, <1>3 DEF BaseValue, NoModule, no, mod
  <2>2. DefaultValue(s) # no
    BY <1>0, <1>3, <2>1 DEF BaseValue, NoModule, no, mod
  <2>3. LiveDefaults(s) # {}
    BY <2>2 DEF DefaultValue
  <2>4. QED
    BY <1>0, <1>3, <2>1, <2>3 DEF NewWrite
<1>4. QED
  BY <1>1, <1>2, <1>3

LEMMA CalcWriteInv ==
  ASSUME TypeOK, WriteInv, NEW s \in Symbols, sym_calc_value(s)
  PROVE  WriteInv'
<1>0. /\ valid' = valid \cup {s} /\ s \notin valid
      /\ curr' = [curr EXCEPT ![s] = NewValue(s)]
      /\ write' = NewWrite(s)
  BY DEF sym_calc_value
<1>1. write \ {s} \subseteq write'
  BY <1>0 DEF NewWrite
<1>2. IsChoiceValue(s) => write \subseteq write'
  BY <1>0 DEF NewWrite
<1>3. NewValue(s) # no => s \in write' /\ (s \in Choices => ValueSet(s) \subseteq write')
  BY CalcWrites
<1>4. curr'[s] = NewValue(s) /\ \A t \in Symbols \ {s} : curr'[t] = curr[t]
  BY <1>0 DEF TypeOK
<1>5. ASSUME NEW c \in Choices \cap valid', curr'[c] # no
      PROVE  ValueSet(c) \subseteq write'
  <2>1. CASE c = s
    BY <1>3, <1>4, <1>5, <2>1
  <2>2. CASE c # s
    <3>1. ValueSet(c) \subseteq write
      BY <1>0, <1>4, <1>5, <2>2, KconfigAssumption DEF WriteInv
    <3>2. s \in ValueSet(c) => IsChoiceValue(s)
      BY <1>5 DEF IsChoiceValue
    <3>3. QED
      BY <1>1, <1>2, <3>1, <3>2
  <2>3. QED
    BY <2>1, <2>2
<1>6. ASSUME NEW t \in (Named \cap valid') \ write' PROVE curr'[t] = no
  <2>1. CASE t = s
    BY <1>3, <1>4, <1>6, <2>1
  <2>2. CASE t # s
    BY <1>0, <1>1, <1>4, <1>6, <2>2 DEF WriteInv, Named
  <2>3. QED
    BY <2>1, <2>2
<1>7. QED
  BY <1>5, <1>6 DEF WriteInv

-----------------------------------------------------------------------------
(* The steps one by one.                                                   *)

(* What is valid keeps its line, or still needs none.                      *)
LEMMA CalcSaved ==
  ASSUME TypeOK, DepsValid, NEW s \in Symbols, sym_calc_value(s),
         NEW t \in Named \cap valid, Saved(t)
  PROVE  Saved(t)'
<1>1. /\ t # s /\ t \in Symbols /\ file' = file
      /\ curr' = [curr EXCEPT ![s] = NewValue(s)] /\ write' = NewWrite(s)
  BY DEF sym_calc_value, ioVars, Named
<1>2. curr'[t] = curr[t]
  BY <1>1 DEF TypeOK
<1>3. ~(s \in Choices /\ t \in ValueSet(s))
  <2>1. s \in Choices /\ t \in ValueSet(s) => s \in Deps(t)
    BY <1>1, DepsOf, ChoiceOfValue
  <2>2. Deps(t) \subseteq valid /\ s \notin valid
    BY DEF DepsValid, sym_calc_value
  <2>3. QED
    BY <2>1, <2>2
<1>4. t \notin write => t \notin write'
  BY <1>1, <1>3 DEF NewWrite
<1>5. QED
  BY <1>1, <1>2, <1>4 DEF Saved

LEMMA CleanCalc ==
  ASSUME TypeOK, DepsValid, CleanInv, NEW s \in Symbols, sym_calc_value(s)
  PROVE  CleanInv'
<1>1. WriteInv'
  BY CalcWriteInv DEF CleanInv
<1>2. /\ valid \subseteq valid' /\ phase # "start"
      /\ UNCHANGED <<def_user, def, phase, todo, unsaved, file, changed, mislaid>>
  BY DEF sym_calc_value, userVars, ioVars
<1>3. \A t \in Named : Accepted(t)' = Accepted(t) /\ LineValue(t)' = LineValue(t)
  BY <1>2 DEF Accepted, LineValue
<1>4. CASE phase = "checking"
  <2>1. \A t \in Named \ todo : t \in valid
    BY <1>4 DEF CleanInv, CheckingInv, Named
  <2>2. \A t \in Named \ todo : Saved(t) => Saved(t)'
    BY <2>1, CalcSaved
  <2>3. CheckingInv'
    BY <1>2, <1>3, <1>4, <2>2 DEF CleanInv, CheckingInv
  <2>4. QED
    BY <1>1, <1>2, <1>4, <2>3 DEF CleanInv
<1>5. CASE phase # "checking"
  <2>1. phase = "idle" /\ ~changed /\ ~mislaid => \A t \in Named : Saved(t)'
    BY CalcSaved DEF CleanInv
  <2>2. QED
    BY <1>1, <1>2, <1>5, <2>1 DEF CleanInv
<1>6. QED
  BY <1>4, <1>5

(* An answer that repeats the current value changes nothing that is saved. *)
LEMMA CleanAccept ==
  ASSUME TypeOK, CleanInv, NEW s \in Symbols, NEW val \in Tri, Accept(s, val), Idle
  PROVE  CleanInv'
<1>1. UNCHANGED <<curr, write, file, phase, mislaid>>
  BY DEF Accept, ioVars
<1>2. CASE curr[s] # val
  <2>1. valid' = {} /\ changed'
    BY <1>2 DEF Accept, sym_clear_all_valid
  <2>2. QED
    BY <1>1, <2>1 DEF CleanInv, WriteInv, Idle
<1>3. CASE curr[s] = val
  <2>1. UNCHANGED <<valid, changed>>
    BY <1>3 DEF Accept
  <2>2. QED
    BY <1>1, <2>1 DEF CleanInv, WriteInv, Saved, Idle
<1>4. QED
  BY <1>2, <1>3

LEMMA CleanRead ==
  ASSUME TypeOK, CleanInv, conf_read_simple
  PROVE  CleanInv'
<1>1. /\ valid' = {} /\ phase' = "checking" /\ todo' = Symbols /\ ~changed' /\ ~mislaid'
      /\ file # NoFile /\ UNCHANGED <<curr, write, file>>
  BY DEF conf_read_simple
<1>2. ASSUME NEW t \in Named
      PROVE  /\ t \in def_user' <=> Accepted(t)
             /\ def'[t] = LineValue(t)
             /\ file[t] # Unset /\ ~Accepted(t) => unsaved'
  <2>1. t \in Symbols \ Choices
    BY DEF Named
  <2>2. QED
    BY <2>1 DEF conf_read_simple
<1>3. \A t \in Named : Accepted(t)' = Accepted(t) /\ LineValue(t)' = LineValue(t)
  BY <1>1 DEF Accepted, LineValue
<1>4. CheckingInv'
  BY <1>1, <1>2, <1>3 DEF CheckingInv, Named
<1>5. QED
  BY <1>1, <1>4 DEF CleanInv, WriteInv

(* The comparison of conf_read: an agreement means the line says the value *)
(* or there is none, and then the value is n, for it is not written.       *)
LEMMA CleanCheck ==
  ASSUME TypeOK, CleanInv, NEW s \in Symbols, ReadCheck(s)
  PROVE  CleanInv'
<1>1. /\ phase = "checking" /\ phase' = phase /\ s \in todo \cap valid
      /\ todo' = todo \ {s} /\ def_user \ {s} = def_user' \ {s}
      /\ UNCHANGED <<curr, write, valid, file, def, changed, mislaid>>
      /\ unsaved => unsaved'
  BY DEF ReadCheck, tableVars
<1>2. CheckingInv /\ WriteInv
  BY <1>1 DEF CleanInv
<1>3. ASSUME s \in Named, ~unsaved' PROVE Saved(s)
  <2>1. s \notin Choices \cup {Modules}
    BY <1>3 DEF Named
  <2>2. \/ s \in def_user \cap write /\ def[s] = curr[s]
        \/ s \notin def_user \cup write
    BY <1>1, <1>3, <2>1 DEF ReadCheck
  <2>3. CASE s \in def_user /\ def[s] = curr[s]
    BY <1>1, <1>2, <1>3, <2>3 DEF CheckingInv, LineValue, Saved
  <2>4. CASE s \notin def_user \cup write
    <3>1. curr[s] = no
      BY <1>1, <1>2, <1>3, <2>4 DEF WriteInv
    <3>2. file[s] = Unset
      BY <1>1, <1>2, <1>3, <2>4 DEF CheckingInv
    <3>3. QED
      BY <2>4, <3>1, <3>2 DEF Saved
  <2>5. QED
    BY <2>2, <2>3, <2>4
<1>4. \A t \in Named : /\ Accepted(t)' = Accepted(t) /\ LineValue(t)' = LineValue(t)
                      /\ Saved(t)' = Saved(t)
  BY <1>1 DEF Accepted, LineValue, Saved
<1>5. CheckingInv'
  BY <1>1, <1>2, <1>3, <1>4 DEF CheckingInv
<1>6. QED
  BY <1>1, <1>2, <1>5 DEF CleanInv, WriteInv

-----------------------------------------------------------------------------
(* The steps together.                                                     *)

LEMMA CleanInit == ASSUME Init PROVE CleanInv
  BY DEF Init, CleanInv, WriteInv

LEMMA CleanNext == ASSUME CacheInv, CleanInv, [Next]_vars PROVE CleanInv'
<1>0. TypeOK /\ DepsValid
  BY DEF CacheInv
<1>1. ASSUME NEW s \in Symbols, sym_calc_value(s) PROVE CleanInv'
  BY <1>0, <1>1, CleanCalc
<1>2. ASSUME NEW s \in Symbols, NEW val \in Tri, sym_set_tristate_value(s, val)
      PROVE  CleanInv'
  BY <1>0, <1>2, CleanAccept DEF sym_set_tristate_value
<1>3. ASSUME NEW s \in Symbols, sym_toggle_tristate_value(s) PROVE CleanInv'
  BY <1>0, <1>3, ToggleAccepts, CleanAccept
<1>4. CASE conf_read_missing
  BY <1>4 DEF conf_read_missing, tableVars, CleanInv, WriteInv
<1>5. CASE conf_read_absent
  BY <1>0, <1>5 DEF conf_read_absent, Idle, tableVars, ioVars, CleanInv, WriteInv, Saved, TypeOK
<1>6. CASE conf_read_simple
  BY <1>0, <1>6, CleanRead
<1>7. ASSUME NEW s \in Symbols, ReadCheck(s) PROVE CleanInv'
  BY <1>0, <1>7, CleanCheck
<1>8. CASE conf_read_done
  <2>1. /\ phase = "checking" /\ phase' = "idle" /\ todo = {}
        /\ UNCHANGED <<curr, write, valid, file>>
        /\ ~changed' => ~unsaved
    BY <1>8 DEF conf_read_done, tableVars
  <2>2. CheckingInv
    BY <2>1 DEF CleanInv
  <2>3. Named \subseteq valid /\ (~changed' => \A t \in Named : Saved(t)')
    BY <2>1, <2>2 DEF CheckingInv, Saved, Named
  <2>4. QED
    BY <2>1, <2>3 DEF CleanInv, WriteInv
<1>9. CASE conf_write_begin
  BY <1>9 DEF conf_write_begin, sym_clear_all_valid, CleanInv, WriteInv
<1>10. CASE conf_write_end
  <2>1. /\ phase' = "idle" /\ Named \subseteq valid
        /\ UNCHANGED <<curr, write, valid>>
        /\ \A t \in Named : file'[t] = curr[t]
    BY <1>10 DEF conf_write_end, tableVars
  <2>2. QED
    BY <2>1 DEF CleanInv, WriteInv, Saved
<1>11. CASE conf_write_failed
  BY <1>11 DEF conf_write_failed, tableVars, CleanInv, WriteInv
<1>12. CASE UNCHANGED vars
  <2>1. \A t : Saved(t)' = Saved(t) /\ Accepted(t)' = Accepted(t) /\ LineValue(t)' = LineValue(t)
    BY <1>12 DEF vars, tableVars, userVars, ioVars, Saved, Accepted, LineValue
  <2>2. WriteInv' /\ (CheckingInv => CheckingInv')
    BY <1>12, <2>1 DEF vars, tableVars, userVars, ioVars, WriteInv, CheckingInv, CleanInv
  <2>3. QED
    BY <1>12, <2>1, <2>2 DEF vars, tableVars, userVars, ioVars, CleanInv
<1>13. QED
  BY <1>1, <1>2, <1>3, <1>4, <1>5, <1>6, <1>7, <1>8, <1>9, <1>10, <1>11,
     <1>12 DEF Next

(* As long as sym_change_count says nothing has changed, the file holds    *)
(* every value: conf_write may be skipped, unless a load has failed.       *)
THEOREM CleanCorrect == Spec => []CleanMeansSaved
<1>1. CleanInv => CleanMeansSaved
  BY DEF CleanInv, CleanMeansSaved
<1>2. QED
  BY <1>1, CleanInit, CleanNext, CacheInvariant, PTL DEF Spec

-----------------------------------------------------------------------------
(* The values of another table.                                            *)

(* What one evaluation computes, for values W and modules_val m: the       *)
(* visibility (of a choice value whose choice is tri), the lower bound,    *)
(* the default, and the value if the user's is u (but of choice values).   *)
CannotBeModule(m, s) == s \notin Tristates \/ m = no
PromptAt(W, m, s, tri) ==
  LET p == ExprValue(Prompt[s], W)
  IN  NoModule(IF IsChoiceValue(s) THEN E_AND(tri, p) ELSE p, CannotBeModule(m, s))
LowAt(W, m, s) ==
  LET e == ExprValue(Selects[s], W)
      p == E_AND(ExprValue(Prompt[s], W), mod)
  IN  NoModule(IF s \in Choices \ OptionalChoices THEN E_OR(e, p) ELSE e,
               CannotBeModule(m, s))
LiveAt(W, s) == {i \in DOMAIN Defaults[s] : ExprValue(Defaults[s][i].cond, W) # no}
DefaultAt(W, s) ==
  IF LiveAt(W, s) = {} THEN no
  ELSE ExprValue(Defaults[s][First(LiveAt(W, s))].value, W)
ValueAt(W, m, s, u) ==
  LET vis == PromptAt(W, m, s, yes)
      low == LowAt(W, m, s)
  IN  NoModule(IF E_OR(vis, low) # no THEN E_OR(E_AND(u, vis), low)
               ELSE IF s \in Choices THEN no ELSE DefaultAt(W, s),
               CannotBeModule(m, s))

(* A choice that is tri and has chosen w leaves its value v what it is.    *)
Gives(W, m, v, tri, w) ==
  /\ PromptAt(W, m, v, tri) = yes => W[v] = IF w = v THEN yes ELSE no
  /\ PromptAt(W, m, v, tri) = mod => W[v] # yes
  /\ PromptAt(W, m, v, tri) = no  => W[v] = no

(* The value of s is one its inputs allow, for some answer of the user's.  *)
ChoiceFits(W, sel, m, c) ==
  \E u \in Tri :
    LET base == ValueAt(W, m, c, u)
    IN  /\ W[c] = IF base = yes /\ sel[c] = None THEN no ELSE base
        /\ base = yes =>
             IF sel[c] = None THEN \A v \in ValueSet(c) : PromptAt(W, m, v, yes) = no
             ELSE sel[c] \in ValueSet(c) /\ PromptAt(W, m, sel[c], yes) # no
PlainFits(W, m, s) ==
  \E u \in Tri : W[s] = ValueAt(W, m, s, u) /\ (s = Modules => u = DefaultAt(W, s))
Fits(W, sel, m, s) ==
  IF IsChoiceValue(s) THEN Gives(W, m, s, W[ChoiceOf(s)], sel[ChoiceOf(s)])
  ELSE IF s \in Choices THEN ChoiceFits(W, sel, m, s)
  ELSE PlainFits(W, m, s)

-----------------------------------------------------------------------------
(* The inductive invariant.                                                *)

(* Whatever has been answered since, every valid value fits its inputs, if *)
(* modules_sym was calculated before the tristates.                        *)
FitInv ==
  /\ Modules \notin def_user
  /\ Modules \in valid => modules_val = curr[Modules]
  /\ Tristates = {} => Modules \notin stale
  /\ Modules \notin stale => \A s \in valid : Fits(curr, selected, modules_val, s)

(* conf_write has written the file from W and sel, in which the symbols of *)
(* V were valid.                                                           *)
WrittenFrom(W, sel, V) ==
  /\ W \in [Symbols -> Tri] /\ sel \in [Choices -> Symbols \cup {None}]
  /\ Named \subseteq V /\ V \subseteq Symbols /\ Closed(V)
  /\ Modules \in V \/ Tristates = {}
  /\ \A s \in Named : file[s] = W[s]
  /\ \A s \in V : Fits(W, sel, W[Modules], s)

(* The user's values are those conf_read_simple takes from the file, but   *)
(* of the symbols the loop of conf_read has found hidden.                  *)
FileAnswers(W, V) ==
  /\ \A s \in V \ {Modules} :
       s \notin def_user => ~IsChoiceValue(s) /\ PromptAt(W, W[Modules], s, yes) = no
  /\ \A s \in Named : def[s] = W[s]
  /\ \A c \in Choices :
       /\ def[c] = IF YesValues(c) # {} THEN yes ELSE IF SetValues(c) # {} THEN mod ELSE no
       /\ def_sel[c] = IF SetValues(c) = {} THEN None
                       ELSE LET v == Values[c][First(SetValues(c))]
                            IN  IF LineValue(v) = yes THEN v ELSE None

(* What has been calculated from the file is what was written to it.       *)
Follows(W, V) ==
  /\ IF forced THEN valid \subseteq ModulesNeeds \ {Modules} ELSE Modules \in valid
  /\ \A s \in (V \cap valid) \ Choices : curr[s] = W[s]
  /\ \A s \in V \cap valid :
       ~IsChoiceValue(s) => visible[s] = PromptAt(W, W[Modules], s, yes)
  /\ \A c \in valid \cap Choices :
       \A v \in ValueSet(c) : Gives(W, W[Modules], v, curr[c], selected[c])
  /\ FileAnswers(W, V)

Rereading  == reread = 2 \/ (reread = 1 /\ phase = "checking")
Consistent == \A c \in Choices : ~Inconsistent(c)
RereadInv  ==
  reread # 0 =>
    /\ file # NoFile
    /\ \E W, sel, V : WrittenFrom(W, sel, V) /\ (Rereading /\ Consistent => Follows(W, V))

-----------------------------------------------------------------------------
(* An evaluation in another table.                                         *)

(* It depends on what it reads only.                                       *)
LEMMA PromptLocal ==
  ASSUME NEW s \in Symbols, NEW W, NEW m, NEW X, NEW n, s \in Tristates => m = n,
         \A u \in ExprSymbols(Prompt[s]) : X[u] = W[u]
  PROVE  /\ CannotBeModule(n, s) = CannotBeModule(m, s)
         /\ \A x : PromptAt(X, n, s, x) = PromptAt(W, m, s, x)
<1>1. ExprValue(Prompt[s], X) = ExprValue(Prompt[s], W)
  BY ExprLocal
<1>2. CannotBeModule(n, s) = CannotBeModule(m, s)
  BY DEF CannotBeModule
<1>3. QED
  BY <1>1, <1>2, Zenon DEF PromptAt

LEMMA ValueLocal ==
  ASSUME NEW s \in Symbols, ~IsChoiceValue(s), NEW W, NEW m, NEW X, NEW n,
         s \in Tristates => m = n, \A u \in Deps(s) : X[u] = W[u]
  PROVE  /\ PromptAt(X, n, s, yes) = PromptAt(W, m, s, yes)
         /\ s \notin Choices => DefaultAt(X, s) = DefaultAt(W, s)
         /\ \A u : ValueAt(X, n, s, u) = ValueAt(W, m, s, u)
         /\ s \in Choices => \A v \in ValueSet(s) : \A x :
                               PromptAt(X, n, v, x) = PromptAt(W, m, v, x)
<1>1. /\ PromptAt(X, n, s, yes) = PromptAt(W, m, s, yes)
      /\ CannotBeModule(n, s) = CannotBeModule(m, s)
  BY PromptLocal, DepsOf
<1>2. /\ ExprValue(Prompt[s], X) = ExprValue(Prompt[s], W)
      /\ ExprValue(Selects[s], X) = ExprValue(Selects[s], W)
  BY DepsOf, ExprLocal
<1>3. LowAt(X, n, s) = LowAt(W, m, s)
  BY <1>1, <1>2, Zenon DEF LowAt
<1>4. ASSUME s \notin Choices PROVE DefaultAt(X, s) = DefaultAt(W, s)
  <2>1. \A i \in DOMAIN Defaults[s] :
          /\ ExprValue(Defaults[s][i].cond, X) = ExprValue(Defaults[s][i].cond, W)
          /\ ExprValue(Defaults[s][i].value, X) = ExprValue(Defaults[s][i].value, W)
    BY <1>4, DepsOf, ExprLocal
  <2>2. LiveAt(X, s) = LiveAt(W, s)
    BY <2>1 DEF LiveAt
  <2>3. CASE LiveAt(W, s) = {}
    BY <2>2, <2>3 DEF DefaultAt
  <2>4. CASE LiveAt(W, s) # {}
    <3>1. LiveAt(W, s) \in SUBSET Nat
      BY DefaultSequences DEF LiveAt
    <3>2. First(LiveAt(W, s)) \in DOMAIN Defaults[s]
      BY <2>4, <3>1, FirstIn DEF LiveAt
    <3>3. QED
      BY <2>1, <2>2, <2>4, <3>2 DEF DefaultAt
  <2>5. QED
    BY <2>3, <2>4
<1>5. \A u : ValueAt(X, n, s, u) = ValueAt(W, m, s, u)
  <2>1. CASE s \in Choices
    BY <1>1, <1>3, <2>1, Zenon DEF ValueAt
  <2>2. CASE s \notin Choices
    BY <1>1, <1>3, <1>4, <2>2, Zenon DEF ValueAt
  <2>3. QED
    BY <2>1, <2>2
<1>6. ASSUME s \in Choices, NEW v \in ValueSet(s)
      PROVE  \A x : PromptAt(X, n, v, x) = PromptAt(W, m, v, x)
  <2>1. v \in Symbols /\ (v \in Tristates => m = n)
    BY <1>6, ChoiceOfValue
  <2>2. \A u \in ExprSymbols(Prompt[v]) : X[u] = W[u]
    BY <1>6, DepsOf
  <2>3. QED
    BY <2>1, <2>2, PromptLocal
<1>7. QED
  BY <1>1, <1>4, <1>5, <1>6

(* The current table is one of them.                                       *)
LEMMA NowAt ==
  ASSUME NEW s \in Symbols
  PROVE  /\ \A x : PromptValue(s, x) = PromptAt(curr, modules_val, s, x)
         /\ ~IsChoiceValue(s) =>
              /\ Visibility(s) = PromptAt(curr, modules_val, s, yes)
              /\ DefaultValue(s) = DefaultAt(curr, s)
              /\ BaseValue(s) = ValueAt(curr, modules_val, s, UserOrDefault(s))
<1>1. \A x : PromptValue(s, x) = PromptAt(curr, modules_val, s, x)
  BY Zenon DEF PromptValue, PromptAt, CannotBeModule
<1>2. ASSUME ~IsChoiceValue(s)
      PROVE  /\ Visibility(s) = PromptAt(curr, modules_val, s, yes)
             /\ DefaultValue(s) = DefaultAt(curr, s)
             /\ LowerBound(s) = LowAt(curr, modules_val, s)
             /\ IsBoolean(s, Visibility(s)) = CannotBeModule(modules_val, s)
  <2>1. Visibility(s) = PromptAt(curr, modules_val, s, yes)
    BY <1>1, <1>2 DEF Visibility
  <2>2. DefaultValue(s) = DefaultAt(curr, s)
    BY DEF DefaultValue, DefaultAt, LiveDefaults, LiveAt
  <2>3. IsBoolean(s, Visibility(s)) = CannotBeModule(modules_val, s)
    BY <1>2 DEF IsBoolean, CannotBeModule
  <2>4. LowerBound(s) = LowAt(curr, modules_val, s)
    BY <1>2, <2>3, Zenon DEF LowerBound, LowAt
  <2>5. QED
    BY <2>1, <2>2, <2>3, <2>4
<1>3. ASSUME ~IsChoiceValue(s)
      PROVE  BaseValue(s) = ValueAt(curr, modules_val, s, UserOrDefault(s))
  BY <1>2, <1>3, Zenon DEF BaseValue, ValueAt
<1>4. QED
  BY <1>1, <1>2, <1>3

-----------------------------------------------------------------------------
(* Fitting values.                                                         *)

LEMMA AtTri ==
  ASSUME NEW s \in Symbols, NEW W, NEW m, NEW x \in Tri
  PROVE  /\ PromptAt(W, m, s, x) \in Tri /\ LowAt(W, m, s) \in Tri
         /\ DefaultAt(W, s) \in Tri
         /\ CannotBeModule(m, s) => PromptAt(W, m, s, x) # mod /\ LowAt(W, m, s) # mod
<1>1. ExprValue(Prompt[s], W) \in Tri /\ ExprValue(Selects[s], W) \in Tri
  BY ExprTri
<1>2. /\ E_AND(x, ExprValue(Prompt[s], W)) \in Tri
      /\ E_AND(ExprValue(Prompt[s], W), mod) \in Tri
  BY <1>1, AndOr DEF Tri
<1>3. E_OR(ExprValue(Selects[s], W), E_AND(ExprValue(Prompt[s], W), mod)) \in Tri
  BY <1>1, <1>2, AndOr
<1>4. DefaultAt(W, s) \in Tri
  BY ExprTri DEF DefaultAt, Tri
<1>5. \A t \in Tri : \A b : NoModule(t, b) \in Tri /\ (b => NoModule(t, b) # mod)
  BY DEF NoModule, Tri, no, mod, yes
<1>6. PromptAt(W, m, s, x) \in Tri /\ (CannotBeModule(m, s) => PromptAt(W, m, s, x) # mod)
  BY <1>1, <1>2, <1>5 DEF PromptAt
<1>7. LowAt(W, m, s) \in Tri /\ (CannotBeModule(m, s) => LowAt(W, m, s) # mod)
  BY <1>1, <1>3, <1>5 DEF LowAt
<1>8. QED
  BY <1>4, <1>6, <1>7

(* A value that fits is what the symbol gets again if the user's value is  *)
(* this one; for a symbol that is not visible the user's does not matter.  *)
LEMMA ValueAgain ==
  ASSUME NEW s \in Symbols, NEW W, NEW m, NEW u \in Tri
  PROVE  /\ ValueAt(W, m, s, u) \in Tri
         /\ CannotBeModule(m, s) => ValueAt(W, m, s, u) # mod
         /\ ValueAt(W, m, s, ValueAt(W, m, s, u)) = ValueAt(W, m, s, u)
         /\ PromptAt(W, m, s, yes) = no =>
              \A w \in Tri : ValueAt(W, m, s, w) = ValueAt(W, m, s, u)
<1> DEFINE vis == PromptAt(W, m, s, yes)
           low == LowAt(W, m, s)
           b   == CannotBeModule(m, s)
           def0 == IF s \in Choices THEN no ELSE DefaultAt(W, s)
           V(w) == NoModule(IF E_OR(vis, low) # no THEN E_OR(E_AND(w, vis), low) ELSE def0, b)
<1>1. \A w : ValueAt(W, m, s, w) = V(w)
  BY DEF ValueAt
<1>2. vis \in Tri /\ low \in Tri /\ def0 \in Tri /\ (b => vis # mod /\ low # mod)
  BY AtTri DEF Tri
<1> HIDE DEF vis, low, b, def0
<1>3. \A w \in Tri : V(w) \in Tri /\ (b => V(w) # mod)
  BY <1>2 DEF NoModule, E_OR, E_AND, Tri, no, mod, yes
<1>4. V(V(u)) = V(u)
  <2>1. CASE E_OR(vis, low) # no
    BY <1>2, <2>1, Clamp
  <2>2. CASE E_OR(vis, low) = no
    BY <2>2
  <2>3. QED
    BY <2>1, <2>2
<1>5. vis = no => \A w \in Tri : V(w) = V(u)
  BY <1>2 DEF NoModule, E_OR, E_AND, Tri, no, mod, yes
<1> HIDE DEF V
<1>6. QED
  BY <1>1, <1>3, <1>4, <1>5 DEF vis, b

(* A value keeps fitting while its inputs stay.                            *)
LEMMA FitsLocal ==
  ASSUME NEW s \in Symbols, NEW W, NEW sel, NEW m, NEW X, NEW tel, NEW n,
         s \in Tristates => m = n, X[s] = W[s], \A u \in Deps(s) : X[u] = W[u],
         s \in Choices => tel[s] = sel[s],
         IsChoiceValue(s) => tel[ChoiceOf(s)] = sel[ChoiceOf(s)],
         Fits(W, sel, m, s)
  PROVE  Fits(X, tel, n, s)
<1>1. CASE IsChoiceValue(s)
  <2>1. ChoiceOf(s) \in Deps(s)
    BY <1>1, DepsOf
  <2>2. \A x : PromptAt(X, n, s, x) = PromptAt(W, m, s, x)
    <3>1. \A u \in ExprSymbols(Prompt[s]) : X[u] = W[u]
      BY DepsOf
    <3>2. QED
      BY <3>1, PromptLocal
  <2>3. Gives(W, m, s, W[ChoiceOf(s)], sel[ChoiceOf(s)])
    BY <1>1 DEF Fits
  <2>4. Gives(X, n, s, X[ChoiceOf(s)], tel[ChoiceOf(s)])
    <3>1. X[ChoiceOf(s)] = W[ChoiceOf(s)] /\ tel[ChoiceOf(s)] = sel[ChoiceOf(s)]
      BY <1>1, <2>1
    <3> DEFINE t == W[ChoiceOf(s)]
               w == sel[ChoiceOf(s)]
    <3>2. Gives(W, m, s, t, w)
      BY <2>3
    <3> HIDE DEF t, w
    <3>3. Gives(X, n, s, t, w)
      BY <2>2, <3>2 DEF Gives
    <3>4. QED
      BY <3>1, <3>3 DEF t, w
  <2>5. QED
    BY <1>1, <2>4 DEF Fits
<1>2. CASE s \in Choices
  <2>1. ~IsChoiceValue(s) /\ ChoiceFits(W, sel, m, s)
    BY <1>2, DepsOf DEF Fits
  <2>2. PICK u \in Tri :
          LET base == ValueAt(W, m, s, u)
          IN  /\ W[s] = IF base = yes /\ sel[s] = None THEN no ELSE base
              /\ base = yes =>
                   IF sel[s] = None THEN \A v \in ValueSet(s) : PromptAt(W, m, v, yes) = no
                   ELSE sel[s] \in ValueSet(s) /\ PromptAt(W, m, sel[s], yes) # no
    BY <2>1 DEF ChoiceFits
  <2>3. /\ ValueAt(X, n, s, u) = ValueAt(W, m, s, u)
        /\ \A v \in ValueSet(s) : PromptAt(X, n, v, yes) = PromptAt(W, m, v, yes)
    BY <1>2, <2>1, ValueLocal
  <2>4. ChoiceFits(X, tel, n, s)
    BY <1>2, <2>2, <2>3, Zenon DEF ChoiceFits
  <2>5. QED
    BY <1>2, <2>1, <2>4 DEF Fits
<1>3. CASE ~IsChoiceValue(s) /\ s \notin Choices
  <2>1. /\ DefaultAt(X, s) = DefaultAt(W, s)
        /\ \A u : ValueAt(X, n, s, u) = ValueAt(W, m, s, u)
    BY <1>3, ValueLocal
  <2>2. QED
    BY <1>3, <2>1 DEF Fits, PlainFits
<1>4. QED
  BY <1>1, <1>2, <1>3

(* What is calculated fits.                                                *)
LEMMA CalcFits ==
  ASSUME TypeOK, ValuesOfChoices, NEW s \in Symbols, s = Modules => s \notin def_user
  PROVE  /\ IsChoiceValue(s) =>
              LET vis == PromptAt(curr, modules_val, s, curr[ChoiceOf(s)])
              IN  /\ vis = yes => NewValue(s) = IF selected[ChoiceOf(s)] = s THEN yes ELSE no
                  /\ vis = mod => NewValue(s) = E_AND(UserOrDefault(s), mod)
                  /\ vis = no  => NewValue(s) = no
         /\ s \in Choices =>
              LET base == ValueAt(curr, modules_val, s, UserOrDefault(s))
              IN  /\ NewValue(s) = IF base = yes /\ NewSelected(s) = None THEN no ELSE base
                  /\ NewSelected(s) = IF base = yes THEN CalcChoice(s) ELSE None
                  /\ CalcChoice(s) = None =>
                       \A v \in ValueSet(s) : PromptAt(curr, modules_val, v, yes) = no
                  /\ CalcChoice(s) # None =>
                       /\ CalcChoice(s) \in ValueSet(s)
                       /\ PromptAt(curr, modules_val, CalcChoice(s), yes) # no
         /\ s \notin Choices /\ ~IsChoiceValue(s) =>
              /\ NewValue(s) = ValueAt(curr, modules_val, s, UserOrDefault(s))
              /\ s = Modules => UserOrDefault(s) = DefaultAt(curr, s)
<1>1. ASSUME IsChoiceValue(s)
      PROVE  LET vis == PromptAt(curr, modules_val, s, curr[ChoiceOf(s)])
             IN  /\ vis = yes => NewValue(s) = IF selected[ChoiceOf(s)] = s THEN yes ELSE no
                 /\ vis = mod => NewValue(s) = E_AND(UserOrDefault(s), mod)
                 /\ vis = no  => NewValue(s) = no
  <2>1. /\ s \notin Choices /\ Defaults[s] = <<>> /\ rev_dep[s] = no
    BY <1>1, ChoiceValue, ChoiceOfValue DEF ValuesOfChoices
  <2>2. LowerBound(s) = no /\ DefaultValue(s) = no /\ NewValue(s) = BaseValue(s)
    BY <1>1, <2>1 DEF LowerBound, DefaultValue, LiveDefaults, NewValue
  <2>3. Visibility(s) = PromptAt(curr, modules_val, s, curr[ChoiceOf(s)])
    BY <1>1, NowAt DEF Visibility
  <2>4. UserOrDefault(s) \in Tri
    BY UserOrDefaultTri
  <2>5. Visibility(s) = mod => ~IsBoolean(s, mod)
    BY <1>1 DEF Visibility, PromptValue, IsBoolean, NoModule, no, mod, yes
  <2>6. CASE Visibility(s) = yes
    BY <1>1, <2>2, <2>3, <2>6 DEF BaseValue, NoModule, no, mod, yes
  <2>7. CASE Visibility(s) = mod
    <3>1. BaseValue(s) = E_OR(E_AND(UserOrDefault(s), mod), no)
      BY <2>2, <2>5, <2>7 DEF BaseValue, NoModule, E_OR, no, mod, yes
    <3>2. QED
      BY <2>2, <2>3, <2>4, <2>7, <3>1 DEF E_OR, E_AND, Tri, no, mod, yes
  <2>8. CASE Visibility(s) = no
    BY <2>1, <2>2, <2>3, <2>8 DEF BaseValue, NoModule, E_OR, no, mod, yes
  <2>9. QED
    BY <2>3, <2>6, <2>7, <2>8 DEF no, mod, yes
<1>2. ASSUME s \in Choices
      PROVE  LET base == ValueAt(curr, modules_val, s, UserOrDefault(s))
             IN  /\ NewValue(s) = IF base = yes /\ NewSelected(s) = None THEN no ELSE base
                 /\ NewSelected(s) = IF base = yes THEN CalcChoice(s) ELSE None
                 /\ CalcChoice(s) = None =>
                      \A v \in ValueSet(s) : PromptAt(curr, modules_val, v, yes) = no
                 /\ CalcChoice(s) # None =>
                      /\ CalcChoice(s) \in ValueSet(s)
                      /\ PromptAt(curr, modules_val, CalcChoice(s), yes) # no
  <2>1. BaseValue(s) = ValueAt(curr, modules_val, s, UserOrDefault(s))
    BY <1>2, DepsOf, NowAt
  <2>2. /\ NewSelected(s) = IF BaseValue(s) = yes THEN CalcChoice(s) ELSE None
        /\ NewValue(s) = IF BaseValue(s) = yes /\ NewSelected(s) = None THEN no ELSE BaseValue(s)
    BY <1>2 DEF NewSelected, NewValue
  <2>3. \A v \in ValueSet(s) : Shown(v) <=> PromptAt(curr, modules_val, v, yes) # no
    BY <1>2, NowAt, ChoiceOfValue DEF Shown
  <2>4. CalcChoice(s) # None => CalcChoice(s) \in ValueSet(s) /\ Shown(CalcChoice(s))
    BY <1>2, CalcChoiceValue DEF ValuesOfChoices
  <2>5. CalcChoice(s) = None => \A v \in ValueSet(s) : ~Shown(v)
    BY <1>2, ShownChosen DEF ShownValues, ValueSet
  <2>6. QED
    BY <2>1, <2>2, <2>3, <2>4, <2>5
<1>3. ASSUME s \notin Choices, ~IsChoiceValue(s)
      PROVE  /\ NewValue(s) = ValueAt(curr, modules_val, s, UserOrDefault(s))
             /\ s = Modules => UserOrDefault(s) = DefaultAt(curr, s)
  BY <1>3, NowAt DEF NewValue, UserOrDefault
<1>4. QED
  BY <1>1, <1>2, <1>3

LEMMA NewFits ==
  ASSUME TypeOK, ValuesOfChoices, NEW s \in Symbols, s = Modules => s \notin def_user,
         NEW X, NEW tel, NEW n, s \in Tristates => modules_val = n,
         X[s] = NewValue(s), \A u \in Deps(s) : X[u] = curr[u],
         s \in Choices => tel[s] = NewSelected(s),
         IsChoiceValue(s) => tel[ChoiceOf(s)] = selected[ChoiceOf(s)]
  PROVE  Fits(X, tel, n, s)
<1>1. UserOrDefault(s) \in Tri
  BY UserOrDefaultTri
<1>2. CASE IsChoiceValue(s)
  <2>1. ChoiceOf(s) \in Deps(s)
    BY <1>2, DepsOf
  <2>2. PromptAt(X, n, s, curr[ChoiceOf(s)]) = PromptAt(curr, modules_val, s, curr[ChoiceOf(s)])
    <3>1. \A u \in ExprSymbols(Prompt[s]) : X[u] = curr[u]
      BY DepsOf
    <3>2. QED
      BY <3>1, PromptLocal
  <2>3. E_AND(UserOrDefault(s), mod) # yes
    BY <1>1 DEF E_AND, Tri, no, mod, yes
  <2>4. X[ChoiceOf(s)] = curr[ChoiceOf(s)]
    BY <2>1
  <2>5. QED
    BY <1>2, <2>2, <2>3, <2>4, CalcFits DEF Fits, Gives
<1>3. CASE s \in Choices
  <2>1. ~IsChoiceValue(s)
    BY <1>3, DepsOf
  <2>2. /\ \A u : ValueAt(X, n, s, u) = ValueAt(curr, modules_val, s, u)
        /\ \A v \in ValueSet(s) :
             PromptAt(X, n, v, yes) = PromptAt(curr, modules_val, v, yes)
    BY <1>3, <2>1, ValueLocal
  <2> DEFINE base == ValueAt(X, n, s, UserOrDefault(s))
  <2>3. base = ValueAt(curr, modules_val, s, UserOrDefault(s))
    BY <2>2
  <2> HIDE DEF base
  <2>4. /\ X[s] = IF base = yes /\ tel[s] = None THEN no ELSE base
        /\ base = yes =>
             IF tel[s] = None THEN \A v \in ValueSet(s) : PromptAt(X, n, v, yes) = no
             ELSE tel[s] \in ValueSet(s) /\ PromptAt(X, n, tel[s], yes) # no
    BY <1>3, <2>2, <2>3, CalcFits
  <2>5. ChoiceFits(X, tel, n, s)
    BY <1>1, <2>4, Zenon DEF ChoiceFits, base
  <2>6. QED
    BY <1>3, <2>1, <2>5 DEF Fits
<1>4. CASE s \notin Choices /\ ~IsChoiceValue(s)
  <2>1. DefaultAt(X, s) = DefaultAt(curr, s)
    BY <1>4, ValueLocal
  <2>2. \A u : ValueAt(X, n, s, u) = ValueAt(curr, modules_val, s, u)
    BY <1>4, ValueLocal
  <2>3. QED
    BY <1>1, <1>4, <2>1, <2>2, CalcFits DEF Fits, PlainFits
<1>5. QED
  BY <1>2, <1>3, <1>4

LEMMA FitCalc ==
  ASSUME CacheInv, FitInv, NEW s \in Symbols, sym_calc_value(s)
  PROVE  FitInv'
<1>0. TypeOK /\ DepsValid /\ ValuesOfChoices
  BY DEF CacheInv
<1>1. /\ s \notin valid /\ Deps(s) \subseteq valid /\ valid' = valid \cup {s}
      /\ def_user' = def_user
      /\ curr'[s] = NewValue(s) /\ \A u \in Symbols \ {s} : curr'[u] = curr[u]
      /\ s \in Choices => selected'[s] = NewSelected(s)
      /\ \A c \in Choices \ {s} : selected'[c] = selected[c]
      /\ modules_val' = IF s = Modules THEN NewValue(s) ELSE modules_val
  BY <1>0 DEF sym_calc_value, userVars, TypeOK
<1>2. /\ Modules \in valid' => modules_val' = curr'[Modules]
      /\ Tristates = {} => Modules \notin stale'
  <2>1. Tristates = {} => stale' = stale
    BY DEF sym_calc_value
  <2>2. QED
    BY <1>1, <2>1, KconfigAssumption DEF FitInv
<1>3. ASSUME Modules \notin stale', NEW t \in valid PROVE Fits(curr', selected', modules_val', t)
  <2>1. /\ t \in Symbols /\ t # s /\ Deps(t) \subseteq valid
    BY <1>0, <1>1 DEF TypeOK, DepsValid
  <2>2. Fits(curr, selected, modules_val, t)
    BY <1>3 DEF sym_calc_value, FitInv
  <2>3. t \in Tristates => modules_val' = modules_val
    BY <1>1, <1>3 DEF sym_calc_value
  <2>4. \A u \in Deps(t) : u \in Symbols \ {s}
    BY <1>0, <1>1, <2>1 DEF TypeOK
  <2>5. IsChoiceValue(t) => ChoiceOf(t) \in Choices \ {s}
    BY <2>1, <2>4, DepsOf, ChoiceValue
  <2>6. curr'[t] = curr[t] /\ \A u \in Deps(t) : curr'[u] = curr[u]
    BY <1>1, <2>1, <2>4
  <2>7. /\ t \in Choices => selected'[t] = selected[t]
        /\ IsChoiceValue(t) => selected'[ChoiceOf(t)] = selected[ChoiceOf(t)]
    BY <1>1, <2>1, <2>5
  <2>8. QED
    BY <2>1, <2>2, <2>3, <2>6, <2>7, FitsLocal
<1>4. Fits(curr', selected', modules_val', s)
  <2>1. s \in Tristates => modules_val = modules_val'
    BY <1>1, KconfigAssumption
  <2>2. \A u \in Deps(s) : curr'[u] = curr[u]
    BY <1>0, <1>1 DEF TypeOK
  <2>3. IsChoiceValue(s) => selected'[ChoiceOf(s)] = selected[ChoiceOf(s)]
    <3>1. IsChoiceValue(s) => ChoiceOf(s) \in Choices /\ ChoiceOf(s) \in Deps(s)
      BY DepsOf, ChoiceValue
    <3>2. QED
      BY <1>1, <3>1
  <2>4. s = Modules => s \notin def_user
    BY DEF FitInv
  <2>5. QED
    BY <1>0, <1>1, <2>1, <2>2, <2>3, <2>4, NewFits
<1>5. QED
  BY <1>1, <1>2, <1>3, <1>4 DEF FitInv

LEMMA FitAccept ==
  ASSUME TypeOK, FitInv, NEW s \in Symbols, NEW val \in Tri, OnScreen(s), Accept(s, val)
  PROVE  FitInv'
<1>1. Modules \notin def_user'
  <2>1. s # Modules
    BY DEF OnScreen
  <2>2. IsChoiceValue(s) => /\ ChoiceOf(s) # Modules
                            /\ \A v \in ValueSet(ChoiceOf(s)) : v # Modules
    BY ChoiceValue, ChoiceOfValue, KconfigAssumption
  <2>3. QED
    BY <2>1, <2>2 DEF FitInv, Accept
<1>2. UNCHANGED <<curr, selected, modules_val>>
  BY DEF Accept
<1>3. Modules \in stale' => Modules \in stale
  BY KconfigAssumption DEF Accept, sym_clear_all_valid
<1>4. CASE valid' = {}
  BY <1>1, <1>4, <1>3 DEF FitInv
<1>5. CASE valid' = valid /\ stale \subseteq stale'
  <2>1. \A t : Fits(curr, selected, modules_val, t)' = Fits(curr, selected, modules_val, t)
    BY <1>2, Zenon
  <2>2. QED
    BY <1>1, <1>2, <1>5, <1>3, <2>1 DEF FitInv
<1>6. QED
  BY <1>4, <1>5 DEF Accept, sym_clear_all_valid

LEMMA FitNext == ASSUME CacheInv, FitInv, [Next]_vars PROVE FitInv'
<1>0. TypeOK
  BY DEF CacheInv
<1>1. ASSUME NEW s \in Symbols, sym_calc_value(s) PROVE FitInv'
  BY <1>1, FitCalc
<1>2. ASSUME NEW s \in Symbols, NEW val \in Tri, sym_set_tristate_value(s, val)
      PROVE  FitInv'
  BY <1>0, <1>2, FitAccept DEF sym_set_tristate_value
<1>3. ASSUME NEW s \in Symbols, sym_toggle_tristate_value(s) PROVE FitInv'
  BY <1>0, <1>3, ToggleAccepts, FitAccept
<1>4. ASSUME UNCHANGED <<curr, selected, modules_val>>, Modules \notin def_user',
             Modules \in stale' => Modules \in stale,
             valid' = {} \/ (valid' = valid /\ stale \subseteq stale')
      PROVE  FitInv'
  <2>1. \A t : Fits(curr, selected, modules_val, t)' = Fits(curr, selected, modules_val, t)
    BY <1>4, Zenon
  <2>2. QED
    BY <1>4, <2>1 DEF FitInv
<1>5. CASE conf_read_simple
  <2>1. Modules \notin def_user'
    BY <1>5, KconfigAssumption DEF conf_read_simple, Named
  <2>2. QED
    BY <1>4, <1>5, <2>1 DEF conf_read_simple
<1>6. ASSUME NEW s \in Symbols, ReadCheck(s) PROVE FitInv'
  <2>1. /\ Modules \notin def_user' /\ stale \subseteq stale'
        /\ Modules \in stale' => Modules \in stale
    BY <1>6, KconfigAssumption DEF ReadCheck, FitInv
  <2>2. QED
    BY <1>4, <1>6, <2>1 DEF ReadCheck, tableVars
<1>7. ASSUME UNCHANGED <<curr, selected, modules_val, def_user>>,
             (valid' = {} /\ stale' = {}) \/ (valid' = valid /\ stale' = stale)
      PROVE  FitInv'
  BY <1>4, <1>7 DEF FitInv
<1>8. CASE conf_write_begin
  BY <1>7, <1>8 DEF conf_write_begin, sym_clear_all_valid, userVars
<1>9. QED
  BY <1>1, <1>2, <1>3, <1>5, <1>6, <1>7, <1>8
     DEF Next, conf_read_missing, conf_read_absent, conf_read_done, conf_write_end,
         conf_write_failed, vars, tableVars, userVars

-----------------------------------------------------------------------------
(* What is written can be read back.                                       *)

(* A line conf_write has written is one conf_read_simple accepts.          *)
LEMMA FitModule ==
  ASSUME NEW W \in [Symbols -> Tri], NEW sel, NEW m, NEW s \in Symbols \ Choices,
         Fits(W, sel, m, s)
  PROVE  W[s] = mod => s \in Tristates /\ m # no
<1> SUFFICES ASSUME CannotBeModule(m, s) PROVE W[s] # mod
  BY DEF CannotBeModule
<1>1. CASE IsChoiceValue(s)
  <2> DEFINE vis == PromptAt(W, m, s, W[ChoiceOf(s)])
  <2>1. vis \in Tri /\ vis # mod
    <3>1. W[ChoiceOf(s)] \in Tri
      BY <1>1, ChoiceValue, KconfigAssumption
    <3>2. QED
      BY <3>1, AtTri
  <2>2. Gives(W, m, s, W[ChoiceOf(s)], sel[ChoiceOf(s)])
    BY <1>1 DEF Fits
  <2>3. vis \in {no, yes} => W[s] # mod
    BY <2>2 DEF Gives, no, mod, yes
  <2>4. QED
    BY <2>1, <2>3 DEF Tri
<1>2. CASE ~IsChoiceValue(s)
  BY <1>2, ValueAgain DEF Fits, PlainFits
<1>3. QED
  BY <1>1, <1>2

LEMMA LinesAccepted ==
  ASSUME NEW W, NEW sel, NEW V, WrittenFrom(W, sel, V), NEW s \in Named
  PROVE  Accepted(s) /\ LineValue(s) = W[s]
<1>1. s \in Symbols \ Choices /\ W[s] \in Tri /\ file[s] = W[s]
  BY DEF WrittenFrom, Named
<1>2. Fits(W, sel, W[Modules], s)
  BY DEF WrittenFrom
<1>3. W[s] = mod => s \in Tristates
  BY <1>1, <1>2, FitModule DEF WrittenFrom
<1>4. QED
  BY <1>1, <1>3, KconfigAssumption DEF Accepted, LineValue

LEMMA WriteWritten ==
  ASSUME CacheInv, FitInv, conf_write_end, ModulesKnown, Modules \notin stale
  PROVE  WrittenFrom(curr, selected, valid)'
<1>0. TypeOK /\ DepsValid
  BY DEF CacheInv
<1>1. ASSUME NEW s \in valid PROVE Fits(curr, selected, curr[Modules], s)
  <2>1. s \in Symbols /\ Fits(curr, selected, modules_val, s)
    BY <1>0 DEF FitInv, TypeOK
  <2>2. s \in Tristates => modules_val = curr[Modules]
    BY DEF FitInv, ModulesKnown
  <2> DEFINE m == curr[Modules]
  <2> HIDE DEF m
  <2>3. QED
    BY <2>1, <2>2, FitsLocal DEF m
<1>2. /\ UNCHANGED <<curr, selected, valid>>
      /\ \A s \in Named : file'[s] = curr[s]
      /\ curr \in [Symbols -> Tri] /\ selected \in [Choices -> Symbols \cup {None}]
      /\ Named \subseteq valid /\ valid \subseteq Symbols
  BY <1>0 DEF conf_write_end, tableVars, TypeOK
<1>3. \A s : Fits(curr, selected, curr[Modules], s)' = Fits(curr, selected, curr[Modules], s)
  BY <1>2, Zenon
<1>4. Closed(valid) /\ (Modules \in valid \/ Tristates = {})
  BY <1>0 DEF Closed, DepsValid, ModulesKnown
<1>5. QED
  BY <1>1, <1>2, <1>3, <1>4 DEF WrittenFrom

(* A choice as a function of the user's value for it: nothing selects it,  *)
(* so that its lower bound is m at most.                                   *)
LEMMA ChoiceClamp ==
  ASSUME NEW c \in Choices, NEW W, NEW m, NEW u \in Tri
  PROVE  /\ CannotBeModule(m, c) => ValueAt(W, m, c, u) \in {no, yes}
         /\ ValueAt(W, m, c, u) = yes => ValueAt(W, m, c, yes) = yes
         /\ ValueAt(W, m, c, no) = yes => ValueAt(W, m, c, u) = yes
         /\ ~CannotBeModule(m, c) =>
              /\ ValueAt(W, m, c, no) # yes /\ ValueAt(W, m, c, mod) # yes
              /\ ValueAt(W, m, c, u) # no => ValueAt(W, m, c, mod) = mod
<1> DEFINE p == ExprValue(Prompt[c], W)
           b == CannotBeModule(m, c)
           vis == NoModule(p, b)
           low == NoModule(IF c \in Choices \ OptionalChoices THEN E_OR(no, E_AND(p, mod)) ELSE no, b)
           V(w) == NoModule(IF E_OR(vis, low) # no THEN E_OR(E_AND(w, vis), low) ELSE no, b)
<1>1. c \in Symbols /\ ~IsChoiceValue(c) /\ Selects[c] = Never
  BY DepsOf, KconfigAssumption
<1>2. ExprValue(Selects[c], W) = no
  BY <1>1 DEF ExprValue, Never
<1>3. PromptAt(W, m, c, yes) = vis
  BY <1>1 DEF PromptAt
<1>4. LowAt(W, m, c) = low
  BY <1>2 DEF LowAt
<1>5. \A w : ValueAt(W, m, c, w) = V(w)
  BY <1>3, <1>4 DEF ValueAt
<1>6. p \in Tri /\ b \in BOOLEAN
  BY ExprTri DEF CannotBeModule
<1> DEFINE optional == c \notin Choices \ OptionalChoices
<1>7. low = IF optional THEN NoModule(no, b) ELSE NoModule(E_OR(no, E_AND(p, mod)), b)
  OBVIOUS
<1> HIDE DEF p, b, optional, low
<1>8. /\ b => V(u) \in {no, yes}
      /\ V(u) = yes => V(yes) = yes
      /\ V(no) = yes => V(u) = yes
      /\ ~b => /\ V(no) # yes /\ V(mod) # yes
               /\ V(u) # no => V(mod) = mod
  <2>1. CASE b /\ optional
    BY <1>6, <1>7, <2>1 DEF NoModule, E_OR, E_AND, Tri, no, mod, yes
  <2>2. CASE b /\ ~optional
    BY <1>6, <1>7, <2>2 DEF NoModule, E_OR, E_AND, Tri, no, mod, yes
  <2>3. CASE ~b /\ optional
    BY <1>6, <1>7, <2>3 DEF NoModule, E_OR, E_AND, Tri, no, mod, yes
  <2>4. CASE ~b /\ ~optional
    BY <1>6, <1>7, <2>4 DEF NoModule, E_OR, E_AND, Tri, no, mod, yes
  <2>5. QED
    BY <1>6, <2>1, <2>2, <2>3, <2>4
<1> HIDE DEF V
<1>9. QED
  BY <1>5, <1>8 DEF b, Tri

(* How visible they are under it.                                          *)
LEMMA UnderChoice ==
  ASSUME NEW W, NEW m, NEW c \in Choices, NEW v \in ValueSet(c), NEW tri \in Tri
  PROVE  /\ PromptAt(W, m, v, no) = no
         /\ PromptAt(W, m, v, yes) = no => PromptAt(W, m, v, tri) = no
         /\ CannotBeModule(m, c) => PromptAt(W, m, v, tri) \in {no, yes}
         /\ ~CannotBeModule(m, c) =>
              /\ tri # yes => PromptAt(W, m, v, tri) # yes
              /\ tri # no /\ PromptAt(W, m, v, yes) # no => PromptAt(W, m, v, tri) # no
<1> DEFINE p == ExprValue(Prompt[v], W)
           b == CannotBeModule(m, c)
<1>1. v \in Symbols /\ IsChoiceValue(v) /\ (v \in Tristates <=> c \in Tristates)
  BY ChoiceOfValue
<1>2. CannotBeModule(m, v) = b
  BY <1>1 DEF CannotBeModule
<1>3. \A x : PromptAt(W, m, v, x) = NoModule(E_AND(x, p), b)
  BY <1>1, <1>2 DEF PromptAt
<1>4. p \in Tri /\ b \in BOOLEAN
  BY ExprTri DEF CannotBeModule
<1> HIDE DEF p, b
<1> DEFINE Q(x) == NoModule(E_AND(x, p), b)
<1>5. /\ Q(no) = no
      /\ Q(yes) = no => Q(tri) = no
      /\ b => Q(tri) \in {no, yes}
      /\ ~b => /\ tri # yes => Q(tri) # yes
               /\ tri # no /\ Q(yes) # no => Q(tri) # no
  BY <1>4 DEF NoModule, E_AND, Tri, no, mod, yes
<1> HIDE DEF Q
<1>6. \A x : PromptAt(W, m, v, x) = Q(x)
  BY <1>3 DEF Q
<1>7. QED
  BY <1>5, <1>6 DEF b

(* A choice whose user's value is d, and chosen, and which would choose k: *)
(* what the file says of it, and what it becomes.                          *)
GivenBack(W, m, c, d, chosen, k) ==
  /\ d = IF \E v \in ValueSet(c) : W[v] = yes THEN yes
         ELSE IF \E v \in ValueSet(c) : W[v] # no THEN mod ELSE no
  /\ (\E v \in ValueSet(c) : W[v] = yes) => chosen \in ValueSet(c) /\ W[chosen] = yes
  /\ chosen \in ValueSet(c) /\ PromptAt(W, m, chosen, yes) # no => k = chosen
  /\ k = None => \A v \in ValueSet(c) : PromptAt(W, m, v, yes) = no
  /\ k # None => k \in ValueSet(c) /\ PromptAt(W, m, k, yes) # no
SelectedAt(W, m, c, d, k) == IF ValueAt(W, m, c, d) = yes THEN k ELSE None
ChoiceAt(W, m, c, d, k) ==
  IF ValueAt(W, m, c, d) = yes /\ k = None THEN no ELSE ValueAt(W, m, c, d)

(* A choice that is given back what its values say gives each its value    *)
(* again.  It need not be what it was: one that was y, with values limited *)
(* to m only, becomes m.                                                   *)
LEMMA ChoiceAgain ==
  ASSUME NEW W \in [Symbols -> Tri], NEW sel, NEW m, NEW c \in Choices,
         ChoiceFits(W, sel, m, c), \A v \in ValueSet(c) : Gives(W, m, v, W[c], sel[c]),
         NEW d, NEW chosen, NEW k, GivenBack(W, m, c, d, chosen, k)
  PROVE  \A v \in ValueSet(c) :
           Gives(W, m, v, ChoiceAt(W, m, c, d, k), SelectedAt(W, m, c, d, k))
<1> DEFINE base == ValueAt(W, m, c, d)
           w == SelectedAt(W, m, c, d, k)
           tri == ChoiceAt(W, m, c, d, k)
<1>1. /\ d = IF \E v \in ValueSet(c) : W[v] = yes THEN yes
             ELSE IF \E v \in ValueSet(c) : W[v] # no THEN mod ELSE no
      /\ (\E v \in ValueSet(c) : W[v] = yes) => chosen \in ValueSet(c) /\ W[chosen] = yes
      /\ chosen \in ValueSet(c) /\ PromptAt(W, m, chosen, yes) # no => k = chosen
      /\ k = None => \A v \in ValueSet(c) : PromptAt(W, m, v, yes) = no
      /\ k # None => k \in ValueSet(c) /\ PromptAt(W, m, k, yes) # no
  BY DEF GivenBack
<1>2. w = (IF base = yes THEN k ELSE None) /\ tri = IF base = yes /\ w = None THEN no ELSE base
  BY DEF SelectedAt, ChoiceAt
<1>3. base = ValueAt(W, m, c, d)
  OBVIOUS
<1> SUFFICES \A v \in ValueSet(c) : Gives(W, m, v, tri, w)
  OBVIOUS
<1> HIDE DEF base, w, tri
<1> USE <1>1, <1>2, <1>3
<1> DEFINE b == CannotBeModule(m, c)
<1>4. \A v \in ValueSet(c) :
        /\ W[v] \in Tri
        /\ W[v] = yes => PromptAt(W, m, v, W[c]) = yes /\ sel[c] = v
        /\ PromptAt(W, m, v, W[c]) = yes /\ sel[c] = v => W[v] = yes
        /\ W[v] # no => PromptAt(W, m, v, W[c]) # no
        /\ b => W[v] # mod
  <2> SUFFICES ASSUME NEW v \in ValueSet(c)
      PROVE  /\ W[v] \in Tri
             /\ W[v] = yes => PromptAt(W, m, v, W[c]) = yes /\ sel[c] = v
             /\ PromptAt(W, m, v, W[c]) = yes /\ sel[c] = v => W[v] = yes
             /\ W[v] # no => PromptAt(W, m, v, W[c]) # no
             /\ b => W[v] # mod
    OBVIOUS
  <2>1. /\ v \in Symbols /\ (v \in Tristates <=> c \in Tristates)
        /\ W[c] \in Tri /\ W[v] \in Tri
    BY ChoiceOfValue, KconfigAssumption
  <2>2. PromptAt(W, m, v, W[c]) \in Tri
    BY <2>1, AtTri
  <2>3. CannotBeModule(m, c) => PromptAt(W, m, v, W[c]) # mod
    BY <2>1, AtTri DEF CannotBeModule
  <2>4. Gives(W, m, v, W[c], sel[c])
    OBVIOUS
  <2>5. QED
    BY <2>1, <2>2, <2>3, <2>4 DEF Gives, Tri, no, mod, yes
<1>5. \A v \in ValueSet(c), x \in Tri :
        /\ PromptAt(W, m, v, no) = no
        /\ PromptAt(W, m, v, yes) = no => PromptAt(W, m, v, x) = no
        /\ b => PromptAt(W, m, v, x) \in {no, yes}
        /\ ~b => /\ x # yes => PromptAt(W, m, v, x) # yes
                 /\ x # no /\ PromptAt(W, m, v, yes) # no => PromptAt(W, m, v, x) # no
  BY UnderChoice
<1> USE DEF Tri
<1>6. PICK u \in Tri :
        LET was == ValueAt(W, m, c, u)
        IN  /\ W[c] = IF was = yes /\ sel[c] = None THEN no ELSE was
            /\ was = yes =>
                 IF sel[c] = None THEN \A v \in ValueSet(c) : PromptAt(W, m, v, yes) = no
                 ELSE sel[c] \in ValueSet(c) /\ PromptAt(W, m, sel[c], yes) # no
  BY DEF ChoiceFits
<1> DEFINE was == ValueAt(W, m, c, u)
<1>7. /\ c \in Symbols /\ W[c] \in Tri /\ d \in Tri /\ was \in Tri /\ base \in Tri
      /\ no # yes /\ no # mod /\ mod # yes
  <2>1. c \in Symbols /\ d \in Tri /\ no # yes /\ no # mod /\ mod # yes
    BY KconfigAssumption DEF no, mod, yes
  <2>2. QED
    BY <2>1, ValueAgain
<1>8. /\ b => was \in {no, yes} /\ base \in {no, yes}
      /\ was = yes => ValueAt(W, m, c, yes) = yes
      /\ ValueAt(W, m, c, no) = yes => was = yes
      /\ ~b => /\ ValueAt(W, m, c, no) # yes /\ ValueAt(W, m, c, mod) # yes
               /\ was # no => ValueAt(W, m, c, mod) = mod
  BY <1>7, ChoiceClamp
<1>9. tri \in Tri
  BY <1>7
<1> HIDE DEF was, b
<1>10. CASE \E v \in ValueSet(c) : W[v] = yes
  <2>1. chosen \in ValueSet(c) /\ W[chosen] = yes /\ d = yes
    BY <1>10
  <2>2. PromptAt(W, m, chosen, W[c]) = yes /\ sel[c] = chosen
    BY <1>4, <2>1
  <2>3. W[c] = yes
    <3>1. W[c] # no
      BY <1>7, <1>5, <2>1, <2>2
    <3>2. CASE b
      BY <1>6, <1>7, <1>8, <3>1, <3>2 DEF was
    <3>3. CASE ~b
      BY <1>7, <1>5, <2>1, <2>2, <3>3
    <3>4. QED
      BY <3>2, <3>3
  <2>4. was = yes
    BY <1>6, <1>7, <2>3 DEF was
  <2>5. base = yes
    BY <1>8, <2>1, <2>4
  <2>6. k = chosen /\ chosen # None
    BY <1>7, <2>1, <2>2, <2>3, ChoiceOfValue, KconfigAssumption
  <2>7. tri = W[c] /\ w = sel[c]
    BY <2>2, <2>3, <2>5, <2>6
  <2>8. QED
    BY <2>7
<1>11. CASE ~(\E v \in ValueSet(c) : W[v] = yes) /\ b
  <2>1. d = no /\ \A v \in ValueSet(c) : W[v] = no
    BY <1>4, <1>11
  <2>2. tri = no
    <3>1. CASE base = yes
      <4>1. was = yes
        BY <1>8, <2>1, <3>1
      <4>2. sel[c] = None
        <5>1. ASSUME sel[c] # None PROVE FALSE
          <6>1. W[c] = yes /\ sel[c] \in ValueSet(c) /\ PromptAt(W, m, sel[c], yes) # no
            BY <1>6, <4>1, <5>1 DEF was
          <6>2. PromptAt(W, m, sel[c], yes) = yes
            BY <1>7, <1>5, <1>11, <6>1
          <6>3. QED
            BY <1>7, <1>4, <2>1, <6>1, <6>2
        <5>2. QED
          BY <5>1
      <4>3. k = None
        BY <1>6, <4>1, <4>2 DEF was
      <4>4. QED
        BY <3>1, <4>3
    <3>2. CASE base = no
      BY <1>7, <3>2
    <3>3. QED
      BY <1>8, <1>11, <3>1, <3>2
  <2>3. \A v \in ValueSet(c) : PromptAt(W, m, v, tri) = no
    BY <1>5, <2>2
  <2>4. QED
    BY <1>7, <2>1, <2>3 DEF Gives
<1>12. CASE ~(\E v \in ValueSet(c) : W[v] = yes) /\ ~b
  <2>1. d \in {no, mod} /\ base # yes /\ tri = base
    BY <1>7, <1>8, <1>12
  <2>2. ASSUME NEW v \in ValueSet(c) PROVE PromptAt(W, m, v, tri) # yes
    BY <1>9, <1>5, <1>12, <2>1, <2>2
  <2>3. ASSUME NEW v \in ValueSet(c), W[v] # no PROVE PromptAt(W, m, v, tri) # no
    <3>1. d = mod
      BY <1>12, <2>3
    <3>2. PromptAt(W, m, v, W[c]) # no
      BY <1>4, <2>3
    <3>3. W[c] # no /\ PromptAt(W, m, v, yes) # no
      BY <1>7, <1>5, <2>3, <3>2
    <3>4. was # no
      BY <1>6, <1>7, <3>3 DEF was
    <3>5. tri = mod
      BY <1>8, <1>12, <2>1, <3>1, <3>4
    <3>6. QED
      BY <1>7, <1>9, <1>5, <1>12, <2>3, <3>3, <3>5
  <2>4. QED
    BY <1>7, <1>4, <1>12, <2>2, <2>3 DEF Gives
<1>13. QED
  BY <1>10, <1>11, <1>12

-----------------------------------------------------------------------------
(* What is calculated from the file.                                       *)

(* conf_read_simple gives a choice back what the lines of its values say.  *)
LEMMA FileChoice ==
  ASSUME NEW W, NEW sel, NEW V, WrittenFrom(W, sel, V), FileAnswers(W, V),
         NEW c \in Choices, ~Inconsistent(c)
  PROVE  /\ def[c] = IF \E v \in ValueSet(c) : W[v] = yes THEN yes
                     ELSE IF \E v \in ValueSet(c) : W[v] # no THEN mod ELSE no
         /\ (\E v \in ValueSet(c) : W[v] = yes) =>
              def_sel[c] \in ValueSet(c) /\ W[def_sel[c]] = yes
<1>1. \A i \in DOMAIN Values[c] :
        Values[c][i] \in ValueSet(c) /\ LineValue(Values[c][i]) = W[Values[c][i]]
  <2>1. \A v \in ValueSet(c) : v \in Named
    BY ChoiceOfValue DEF Named
  <2>2. QED
    BY <2>1, LinesAccepted DEF ValueSet
<1>2. YesValues(c) # {} <=> \E v \in ValueSet(c) : W[v] = yes
  BY <1>1 DEF YesValues, ValueSet
<1>3. SetValues(c) # {} <=> \E v \in ValueSet(c) : W[v] # no
  BY <1>1 DEF SetValues, ValueSet
<1>4. ASSUME YesValues(c) # {}
      PROVE  def_sel[c] \in ValueSet(c) /\ W[def_sel[c]] = yes
  <2>1. PICK i \in DOMAIN Values[c] : LineValue(Values[c][i]) = yes
    BY <1>4 DEF YesValues
  <2>2. i \in SetValues(c)
    BY <2>1 DEF SetValues, no, yes
  <2>3. /\ SetValues(c) \in SUBSET Nat /\ IsFiniteSet(SetValues(c))
    <3>1. PICK n \in Nat : DOMAIN Values[c] = 1..n
      <4>1. Values[c] \in Seq(Symbols \ (Choices \cup {Modules}))
        BY KconfigAssumption
      <4>2. Len(Values[c]) \in Nat /\ DOMAIN Values[c] = 1..Len(Values[c])
        BY <4>1
      <4>3. QED
        BY <4>2
    <3>2. SetValues(c) \subseteq 1..n
      BY <3>1 DEF SetValues
    <3>3. SetValues(c) \in SUBSET Nat
      BY ChoiceSequences DEF SetValues
    <3>4. IsFiniteSet(1..n)
      BY FS_Interval
    <3>5. QED
      BY <3>2, <3>3, <3>4, FS_Subset
  <2>4. First(SetValues(c)) \in SetValues(c)
    BY <2>2, <2>3, FirstIn
  <2> DEFINE j == First(SetValues(c))
  <2>5. Values[c][j] = Values[c][i]
    <3> SUFFICES ASSUME Values[c][j] # Values[c][i] PROVE FALSE
      OBVIOUS
    <3> DEFINE T == {Values[c][k] : k \in SetValues(c)}
               S == {Values[c][i]}
               x == Values[c][j]
    <3>1. IsFiniteSet(T)
      <4> DEFINE f == [k \in SetValues(c) |-> Values[c][k]]
      <4>1. f \in Surjection(SetValues(c), T)
        BY DEF Surjection
      <4>2. QED
        BY <2>3, <4>1, FS_Surjection
    <3>2. /\ x \notin S /\ x \in T /\ S \subseteq T
          /\ IsFiniteSet(S) /\ Cardinality(S) = 1
      BY <2>2, <2>4, FS_Singleton
    <3>3. Inconsistent(c) <=> Cardinality(T) >= 2 /\ YesValues(c) # {}
      BY DEF Inconsistent
    <3> HIDE DEF x, j, S, T
    <3>4. Cardinality(S \cup {x}) = Cardinality(S) + 1
      BY <3>2, FS_AddElement
    <3>5. Cardinality(S \cup {x}) = 2
      BY <3>2, <3>4
    <3>6. Cardinality(S \cup {x}) <= Cardinality(T)
      BY <3>1, <3>2, FS_Subset
    <3>7. Cardinality(T) \in Nat
      BY <3>1, FS_CardinalityType
    <3>8. QED
      BY <1>4, <3>3, <3>5, <3>6, <3>7
  <2>6. def_sel[c] = Values[c][i]
    <3>1. LineValue(Values[c][j]) = yes
      BY <2>1, <2>5
    <3>2. QED
      BY <2>2, <2>5, <3>1 DEF FileAnswers
  <2>7. QED
    BY <1>1, <2>1, <2>6
<1>5. QED
  BY <1>2, <1>3, <1>4 DEF FileAnswers

(* What the evaluation of a symbol reads is what was written.              *)
LEMMA ReadsFile ==
  ASSUME ChoicesUnread, PlainModules, FitInv,
         NEW W, NEW sel, NEW V, WrittenFrom(W, sel, V), Follows(W, V),
         NEW s \in Symbols, s \in V, sym_calc_value(s)
  PROVE  /\ s \in Tristates => W[Modules] = modules_val
         /\ \A u \in ExprSymbols(Prompt[s]) : curr[u] = W[u]
         /\ ~IsChoiceValue(s) => \A u \in Deps(s) : curr[u] = W[u]
<1>1. Deps(s) \subseteq V \cap valid /\ ExprSymbols(Prompt[s]) \subseteq Deps(s)
  BY DepsOf DEF sym_calc_value, WrittenFrom, Closed
<1>2. \A u \in (V \cap valid) \ Choices : curr[u] = W[u]
  BY DEF Follows
<1>3. s \in Tristates => W[Modules] = modules_val
  <2>1. forced => s \notin Tristates
    BY DEF PlainModules, sym_calc_value
  <2>2. ~forced /\ Tristates # {} => Modules \in (V \cap valid) \ Choices
    BY KconfigAssumption DEF Follows, WrittenFrom
  <2>3. QED
    BY <1>2, <2>1, <2>2 DEF FitInv
<1>4. QED
  BY <1>1, <1>2, <1>3 DEF ChoicesUnread

(* A symbol that is no choice gets the value it was written with.          *)
LEMMA FollowPlain ==
  ASSUME ChoicesUnread, PlainModules, CacheInv, FitInv,
         NEW W, NEW sel, NEW V, WrittenFrom(W, sel, V), Follows(W, V),
         NEW s \in Symbols \ Choices, s \in V, ~IsChoiceValue(s), sym_calc_value(s)
  PROVE  NewValue(s) = W[s]
<1> DEFINE m == W[Modules]
           U == UserOrDefault(s)
<1>0. TypeOK /\ ValuesOfChoices /\ (s = Modules => s \notin def_user)
  BY DEF CacheInv, FitInv
<1>1. /\ DefaultAt(curr, s) = DefaultAt(W, s)
      /\ \A u : ValueAt(curr, modules_val, s, u) = ValueAt(W, m, s, u)
  <2>1. /\ s \in Tristates => m = modules_val
        /\ \A u \in Deps(s) : curr[u] = W[u]
    BY ReadsFile
  <2> HIDE DEF m
  <2>2. QED
    BY <2>1, ValueLocal
<1>2. /\ U \in Tri /\ NewValue(s) = ValueAt(W, m, s, U)
      /\ s = Modules => U = DefaultAt(W, s)
  BY <1>0, <1>1, CalcFits, UserOrDefaultTri
<1>3. PICK u \in Tri : W[s] = ValueAt(W, m, s, u) /\ (s = Modules => u = DefaultAt(W, s))
  BY DEF WrittenFrom, Fits, PlainFits
<1>4. CASE s = Modules
  BY <1>2, <1>3, <1>4
<1>5. CASE s # Modules /\ s \in def_user
  <2>1. U = W[s]
    BY <1>5 DEF UserOrDefault, Follows, FileAnswers, Named
  <2>2. ValueAt(W, m, s, ValueAt(W, m, s, u)) = ValueAt(W, m, s, u)
    BY <1>3, ValueAgain
  <2>3. QED
    BY <1>2, <1>3, <2>1, <2>2
<1>6. CASE s # Modules /\ s \notin def_user
  <2>1. PromptAt(W, m, s, yes) = no
    BY <1>6 DEF Follows, FileAnswers
  <2>2. ValueAt(W, m, s, U) = ValueAt(W, m, s, u)
    BY <1>2, <1>3, <2>1, ValueAgain
  <2>3. QED
    BY <1>2, <1>3, <2>2
<1>7. QED
  BY <1>4, <1>5, <1>6

(* So does the value of a choice.                                          *)
LEMMA FollowValue ==
  ASSUME ChoicesUnread, PlainModules, CacheInv, FitInv,
         NEW W, NEW sel, NEW V, WrittenFrom(W, sel, V), Follows(W, V),
         NEW s \in Symbols, s \in V, IsChoiceValue(s), sym_calc_value(s)
  PROVE  NewValue(s) = W[s]
<1> DEFINE c == ChoiceOf(s)
           m == W[Modules]
           vis == PromptAt(W, m, s, curr[c])
<1>1. /\ c \in Choices /\ s \in ValueSet(c) /\ c \in valid
      /\ curr[c] \in Tri /\ W[s] \in Tri
  <2>1. c \in Choices /\ s \in ValueSet(c) /\ c \in Deps(s)
    BY DepsOf, ChoiceValue
  <2>2. QED
    BY <2>1, KconfigAssumption DEF CacheInv, TypeOK, WrittenFrom, sym_calc_value
<1>2. Gives(W, m, s, curr[c], selected[c])
  BY <1>1 DEF Follows
<1>3. PromptAt(curr, modules_val, s, curr[c]) = vis
  <2>1. /\ s \in Tristates => m = modules_val
        /\ \A u \in ExprSymbols(Prompt[s]) : curr[u] = W[u]
    BY ReadsFile
  <2> HIDE DEF m
  <2>2. \A x : PromptAt(curr, modules_val, s, x) = PromptAt(W, m, s, x)
    BY <2>1, PromptLocal
  <2>3. QED
    BY <2>2
<1>4. vis \in Tri
  BY <1>1, AtTri
<1>5. UserOrDefault(s) = W[s]
  <2>1. s \in def_user /\ s \in Named
    BY <1>1, ChoiceOfValue DEF Follows, FileAnswers, Named
  <2>2. QED
    BY <2>1 DEF UserOrDefault, Follows, FileAnswers
<1>6. /\ vis = yes => NewValue(s) = IF selected[c] = s THEN yes ELSE no
      /\ vis = mod => NewValue(s) = E_AND(W[s], mod)
      /\ vis = no  => NewValue(s) = no
  <2>1. TypeOK /\ ValuesOfChoices /\ (s = Modules => s \notin def_user)
    BY DEF CacheInv, FitInv
  <2>2. QED
    BY <1>3, <1>5, <2>1, CalcFits
<1>7. vis = mod => E_AND(W[s], mod) = W[s]
  BY <1>1, <1>2 DEF Gives, E_AND, Tri, no, mod, yes
<1>8. QED
  BY <1>2, <1>4, <1>6, <1>7 DEF Gives, Tri

(* A choice gets what gives its values theirs.                             *)
LEMMA FollowChoice ==
  ASSUME ChoicesUnread, PlainModules, CacheInv, FitInv, Consistent,
         NEW W, NEW sel, NEW V, WrittenFrom(W, sel, V), Follows(W, V),
         NEW c \in Choices, c \in V, sym_calc_value(c)
  PROVE  \A v \in ValueSet(c) : Gives(W, W[Modules], v, NewValue(c), NewSelected(c))
<1> DEFINE m == W[Modules]
           k == CalcChoice(c)
           base == ValueAt(W, m, c, def[c])
<1>0. /\ TypeOK /\ ValuesOfChoices /\ c \in Symbols /\ ~IsChoiceValue(c) /\ c # Modules
      /\ FileAnswers(W, V) /\ ~Inconsistent(c) /\ W \in [Symbols -> Tri]
  BY DepsOf, KconfigAssumption DEF CacheInv, Follows, Consistent, WrittenFrom
<1>1. /\ \A u : ValueAt(curr, modules_val, c, u) = ValueAt(W, m, c, u)
      /\ \A v \in ValueSet(c) :
           PromptAt(curr, modules_val, v, yes) = PromptAt(W, m, v, yes)
  <2>1. /\ c \in Tristates => m = modules_val
        /\ \A u \in Deps(c) : curr[u] = W[u]
    BY <1>0, ReadsFile
  <2> HIDE DEF m
  <2>2. QED
    BY <1>0, <2>1, ValueLocal
<1>2. /\ ChoiceFits(W, sel, m, c)
      /\ \A v \in ValueSet(c) : Gives(W, m, v, W[c], sel[c])
  <2>1. ChoiceFits(W, sel, m, c)
    BY <1>0 DEF WrittenFrom, Fits
  <2>2. ASSUME NEW v \in ValueSet(c) PROVE Gives(W, m, v, W[c], sel[c])
    <3>1. IsChoiceValue(v) /\ ChoiceOf(v) = c /\ v \in Named
      BY ChoiceOfValue DEF Named
    <3>2. Fits(W, sel, m, v)
      BY <3>1 DEF WrittenFrom
    <3>3. QED
      BY <3>1, <3>2 DEF Fits
  <2>3. QED
    BY <2>1, <2>2
<1>3. ValueAt(curr, modules_val, c, UserOrDefault(c)) = base
  <2>1. UserOrDefault(c) \in Tri /\ def[c] \in Tri
    BY <1>0, UserOrDefaultTri DEF TypeOK
  <2>2. CASE c \in def_user
    BY <1>1, <2>2 DEF UserOrDefault
  <2>3. CASE c \notin def_user
    <3>1. PromptAt(W, m, c, yes) = no
      BY <1>0, <2>3 DEF FileAnswers
    <3>2. ValueAt(W, m, c, UserOrDefault(c)) = ValueAt(W, m, c, def[c])
      BY <1>0, <2>1, <3>1, ValueAgain
    <3>3. QED
      BY <1>1, <3>2
  <2>4. QED
    BY <2>2, <2>3
<1>4. /\ NewValue(c) = IF base = yes /\ NewSelected(c) = None THEN no ELSE base
      /\ NewSelected(c) = IF base = yes THEN k ELSE None
      /\ k = None => \A v \in ValueSet(c) : PromptAt(W, m, v, yes) = no
      /\ k # None => k \in ValueSet(c) /\ PromptAt(W, m, k, yes) # no
  BY <1>0, <1>1, <1>3, CalcFits
<1>5. def_sel[c] \in ValueSet(c) /\ PromptAt(W, m, def_sel[c], yes) # no => k = def_sel[c]
  <2>1. \A v \in ValueSet(c) : Shown(v) <=> PromptAt(W, m, v, yes) # no
    BY <1>1, NowAt, ChoiceOfValue DEF Shown
  <2>2. \A v \in ValueSet(c) : v # None
    BY ChoiceOfValue, KconfigAssumption
  <2>3. QED
    BY <2>1, <2>2 DEF CalcChoice
<1>6. /\ def[c] = IF \E v \in ValueSet(c) : W[v] = yes THEN yes
                  ELSE IF \E v \in ValueSet(c) : W[v] # no THEN mod ELSE no
      /\ (\E v \in ValueSet(c) : W[v] = yes) =>
           def_sel[c] \in ValueSet(c) /\ W[def_sel[c]] = yes
  BY <1>0, FileChoice
<1>7. GivenBack(W, m, c, def[c], def_sel[c], k)
  BY <1>4, <1>5, <1>6 DEF GivenBack
<1>8. /\ NewValue(c) = ChoiceAt(W, m, c, def[c], k)
      /\ NewSelected(c) = SelectedAt(W, m, c, def[c], k)
  BY <1>4 DEF ChoiceAt, SelectedAt
<1> HIDE DEF m, k
<1>9. \A v \in ValueSet(c) :
        Gives(W, m, v, ChoiceAt(W, m, c, def[c], k), SelectedAt(W, m, c, def[c], k))
  BY <1>0, <1>2, <1>7, ChoiceAgain
<1>10. QED
  BY <1>8, <1>9 DEF m

LEMMA FollowCalc ==
  ASSUME ChoicesUnread, PlainModules, CacheInv, FitInv, Consistent,
         NEW W, NEW sel, NEW V, WrittenFrom(W, sel, V), Follows(W, V),
         NEW s \in Symbols, sym_calc_value(s)
  PROVE  Follows(W, V)'
<1>0. TypeOK /\ DepsValid
  BY DEF CacheInv
<1>1. /\ s \notin valid /\ Deps(s) \subseteq valid /\ valid' = valid \cup {s}
      /\ forced' = (forced /\ s # Modules) /\ (forced => s \in ModulesNeeds)
      /\ curr'[s] = NewValue(s) /\ \A u \in Symbols \ {s} : curr'[u] = curr[u]
      /\ s \in Choices => selected'[s] = NewSelected(s)
      /\ \A c \in Choices \ {s} : selected'[c] = selected[c]
      /\ UNCHANGED <<def_user, def, def_sel, file>>
  BY <1>0 DEF sym_calc_value, TypeOK, userVars, ioVars
<1>2. IF forced' THEN valid' \subseteq ModulesNeeds \ {Modules} ELSE Modules \in valid'
  BY <1>1 DEF Follows
<1>3. ASSUME NEW t \in (V \cap valid') \ Choices PROVE curr'[t] = W[t]
  <2>1. CASE t = s
    BY <1>0, <1>1, <1>3, <2>1, FollowPlain, FollowValue
  <2>2. CASE t # s
    BY <1>0, <1>1, <1>3, <2>2 DEF Follows, TypeOK
  <2>3. QED
    BY <2>1, <2>2
<1>4. ASSUME NEW t \in V \cap valid', ~IsChoiceValue(t)
      PROVE  visible'[t] = PromptAt(W, W[Modules], t, yes)
  <2>1. CASE t = s
    <3>1. visible'[s] = PromptAt(curr, modules_val, s, yes)
      BY <1>4, <2>1, NowAt DEF sym_calc_value
    <3>2. /\ s \in Tristates => W[Modules] = modules_val
          /\ \A u \in ExprSymbols(Prompt[s]) : curr[u] = W[u]
      BY <1>4, <2>1, ReadsFile
    <3> DEFINE m == W[Modules]
    <3> HIDE DEF m
    <3>3. \A x : PromptAt(curr, modules_val, s, x) = PromptAt(W, m, s, x)
      BY <3>2, PromptLocal DEF m
    <3>4. QED
      BY <2>1, <3>1, <3>3 DEF m
  <2>2. CASE t # s
    <3>1. t \in valid /\ t \in Symbols
      BY <1>0, <1>1, <2>2 DEF TypeOK
    <3>2. s \in Choices => t \notin Tried(s)
      BY <1>4 DEF Tried, IsChoiceValue
    <3>3. visible'[t] = visible[t]
      BY <2>2, <3>1, <3>2 DEF sym_calc_value
    <3>4. QED
      BY <1>4, <3>1, <3>3 DEF Follows
  <2>3. QED
    BY <2>1, <2>2
<1>5. ASSUME NEW c \in valid' \cap Choices, NEW v \in ValueSet(c)
      PROVE  Gives(W, W[Modules], v, curr'[c], selected'[c])
  <2>1. CASE c = s
    <3>1. c \in Deps(v) /\ v \in V
      BY <1>5, ChoiceOfValue, DepsOf DEF WrittenFrom, Named
    <3>2. c \in V
      BY <3>1 DEF WrittenFrom, Closed
    <3>3. QED
      BY <1>1, <1>5, <2>1, <3>2, FollowChoice
  <2>2. CASE c # s
    BY <1>0, <1>1, <1>5, <2>2 DEF Follows, TypeOK
  <2>3. QED
    BY <2>1, <2>2
<1>6. FileAnswers(W, V)'
  <2>1. FileAnswers(W, V)' = FileAnswers(W, V)
    BY <1>1 DEF FileAnswers, YesValues, SetValues, LineValue, Accepted
  <2>2. QED
    BY <2>1 DEF Follows
<1>7. QED
  BY <1>2, <1>3, <1>4, <1>5, <1>6 DEF Follows

(* Reading it begins with nothing calculated.                              *)
LEMMA FollowRead ==
  ASSUME NEW W, NEW sel, NEW V, WrittenFrom(W, sel, V), Consistent, conf_read_simple
  PROVE  Follows(W, V)'
<1>1. /\ valid' = {} /\ forced' = TRUE /\ file' = file
      /\ def_user' = {s \in Named : Accepted(s)} \cup {c \in Choices : ~Inconsistent(c)}
  BY DEF conf_read_simple
<1>2. V \ {Modules} \subseteq def_user'
  BY <1>1, LinesAccepted DEF Consistent, Named, WrittenFrom
<1>3. \A s \in Named : def'[s] = W[s]
  BY LinesAccepted DEF conf_read_simple, Named
<1>4. \A c \in Choices :
        /\ def'[c] = IF YesValues(c) # {} THEN yes
                     ELSE IF SetValues(c) # {} THEN mod ELSE no
        /\ def_sel'[c] = IF SetValues(c) = {} THEN None
                         ELSE LET v == Values[c][First(SetValues(c))]
                              IN  IF LineValue(v) = yes THEN v ELSE None
  BY KconfigAssumption DEF conf_read_simple
<1>5. \A c : YesValues(c)' = YesValues(c) /\ SetValues(c)' = SetValues(c)
  BY <1>1 DEF YesValues, SetValues, LineValue, Accepted
<1>6. \A s : LineValue(s)' = LineValue(s)
  BY <1>1 DEF LineValue, Accepted
<1>7. FileAnswers(W, V)'
  BY <1>2, <1>3, <1>4, <1>5, <1>6 DEF FileAnswers
<1>8. QED
  BY <1>1, <1>7 DEF Follows

(* The loop of conf_read forgets the answers to invisible questions only:  *)
(* those to every value of every choice are there.                         *)
LEMMA FollowCheck ==
  ASSUME NEW W, NEW sel, NEW V, WrittenFrom(W, sel, V), Follows(W, V),
         NEW s \in Symbols, ReadCheck(s)
  PROVE  Follows(W, V)'
<1>1. UNCHANGED <<valid, forced, curr, visible, selected, def, def_sel, file>>
  BY DEF ReadCheck, tableVars
<1>2. ASSUME NEW t \in V \ {Modules}, t \notin def_user'
      PROVE  ~IsChoiceValue(t) /\ PromptAt(W, W[Modules], t, yes) = no
  <2>1. CASE t \notin def_user
    BY <1>2, <2>1 DEF Follows, FileAnswers
  <2>2. CASE t \in def_user
    <3>1. t = s /\ s \in valid
      BY <1>2, <2>2 DEF ReadCheck
    <3>2. ~(s \in Choices /\ \E v \in ValueSet(s) \ def_user : visible[v] # no)
      <4>1. ASSUME s \in Choices, NEW v \in ValueSet(s) PROVE v \in def_user
        <5>1. v \in V \ {Modules} /\ IsChoiceValue(v)
          BY <4>1, ChoiceOfValue DEF WrittenFrom, Named
        <5>2. QED
          BY <5>1 DEF Follows, FileAnswers
      <4>2. QED
        BY <4>1
    <3>3. ~IsChoiceValue(s) /\ visible[s] = no
      BY <1>2, <2>2, <3>1, <3>2 DEF ReadCheck, HiddenAnswer
    <3>4. QED
      BY <3>1, <3>3 DEF Follows
  <2>3. QED
    BY <2>1, <2>2
<1>3. FileAnswers(W, V)'
  <2>1. \A c : YesValues(c)' = YesValues(c) /\ SetValues(c)' = SetValues(c)
    BY <1>1 DEF YesValues, SetValues, LineValue, Accepted
  <2>2. \A t : LineValue(t)' = LineValue(t)
    BY <1>1 DEF LineValue, Accepted
  <2>3. QED
    BY <1>1, <1>2, <2>1, <2>2 DEF Follows, FileAnswers
<1>4. QED
  BY <1>1, <1>3 DEF Follows

LEMMA FollowSame ==
  ASSUME NEW W, NEW V, Follows(W, V), UNCHANGED <<curr, selected, visible, userVars, file>>,
         (valid' = {} /\ forced' = TRUE) \/ UNCHANGED <<valid, forced>>
  PROVE  Follows(W, V)'
<1>1. FileAnswers(W, V)'
  <2>1. /\ \A c : YesValues(c)' = YesValues(c) /\ SetValues(c)' = SetValues(c)
        /\ \A t : LineValue(t)' = LineValue(t)
    BY DEF YesValues, SetValues, LineValue, Accepted
  <2>2. QED
    BY <2>1 DEF Follows, FileAnswers, userVars
<1>2. QED
  BY <1>1 DEF Follows, userVars

-----------------------------------------------------------------------------
(* The steps.                                                              *)

LEMMA RereadInit == ASSUME Init PROVE FitInv /\ RereadInv
  BY DEF Init, FitInv, RereadInv

(* A step that writes no file.                                             *)
LEMMA RereadKept ==
  ASSUME RereadInv, file' = file, reread' # 0 => reread # 0,
         \A W, sel, V :
           /\ reread # 0 /\ WrittenFrom(W, sel, V) /\ Consistent /\ Rereading'
           /\ Rereading => Follows(W, V)
           => Follows(W, V)'
  PROVE  RereadInv'
<1> SUFFICES ASSUME reread' # 0
    PROVE  /\ file' # NoFile
           /\ \E W, sel, V : WrittenFrom(W, sel, V)' /\ (Rereading' /\ Consistent' => Follows(W, V)')
  BY DEF RereadInv
<1>1. file # NoFile
  BY DEF RereadInv
<1>2. PICK W, sel, V : WrittenFrom(W, sel, V) /\ (Rereading /\ Consistent => Follows(W, V))
  BY DEF RereadInv
<1>3. WrittenFrom(W, sel, V)'
  BY <1>2 DEF WrittenFrom
<1>4. Consistent' = Consistent
  BY DEF Consistent, Inconsistent, YesValues, SetValues, LineValue, Accepted
<1>5. Rereading' /\ Consistent' => Follows(W, V)'
  BY <1>2, <1>4
<1>6. QED
  BY <1>1, <1>3, <1>5

LEMMA RereadAccept ==
  ASSUME RereadInv, Idle, NEW s, NEW val, Accept(s, val) PROVE RereadInv'
<1>1. /\ file' = file /\ phase' = phase /\ reread' = IF reread = 2 THEN 1 ELSE reread
  BY DEF Accept, ioVars
<1>2. ~Rereading'
  BY <1>1 DEF Rereading, Idle
<1>3. QED
  BY <1>1, <1>2, RereadKept

LEMMA RereadNext ==
  ASSUME ChoicesUnread, PlainModules, CacheInv, FitInv, RereadInv, [Next]_vars
  PROVE  RereadInv'
<1>0. TypeOK
  BY DEF CacheInv
<1>1. ASSUME NEW s \in Symbols, sym_calc_value(s) PROVE RereadInv'
  <2>1. UNCHANGED <<file, phase, reread>>
    BY <1>1 DEF sym_calc_value, ioVars
  <2>2. ASSUME NEW W, NEW sel, NEW V, WrittenFrom(W, sel, V), Consistent, Rereading',
               Rereading => Follows(W, V)
        PROVE  Follows(W, V)'
    <3>1. Follows(W, V)
      BY <2>1, <2>2 DEF Rereading
    <3>2. QED
      BY <1>1, <2>2, <3>1, FollowCalc
  <2>3. QED
    BY <2>1, <2>2, RereadKept
<1>2. ASSUME NEW s \in Symbols, NEW val \in Tri, sym_set_tristate_value(s, val)
      PROVE  RereadInv'
  BY <1>2, RereadAccept DEF sym_set_tristate_value
<1>3. ASSUME NEW s \in Symbols, sym_toggle_tristate_value(s) PROVE RereadInv'
  <2>1. Idle
    BY <1>3 DEF sym_toggle_tristate_value
  <2>2. QED
    BY <1>0, <1>3, <2>1, ToggleAccepts, RereadAccept
<1>4. CASE conf_read_missing
  BY <1>4 DEF conf_read_missing, RereadInv
<1>5. ASSUME UNCHANGED <<curr, selected, visible, userVars, file>>,
             (valid' = {} /\ forced' = TRUE) \/ UNCHANGED <<valid, forced>>,
             reread' # 0 => reread # 0, Rereading' => Rereading
      PROVE  RereadInv'
  <2>1. ASSUME NEW W, NEW V, Rereading', Rereading => Follows(W, V) PROVE Follows(W, V)'
    BY <1>5, <2>1, FollowSame
  <2>2. QED
    BY <1>5, <2>1, RereadKept
<1>6. CASE conf_read_absent
  BY <1>5, <1>6 DEF conf_read_absent, tableVars, ioVars, Rereading
<1>7. CASE conf_read_simple
  <2>1. file' = file /\ reread' = reread
    BY <1>7 DEF conf_read_simple
  <2>2. ASSUME NEW W, NEW sel, NEW V, WrittenFrom(W, sel, V), Consistent PROVE Follows(W, V)'
    BY <1>7, <2>2, FollowRead
  <2>3. QED
    BY <2>1, <2>2, RereadKept
<1>8. ASSUME NEW s \in Symbols, ReadCheck(s) PROVE RereadInv'
  <2>1. UNCHANGED <<file, phase, reread>>
    BY <1>8 DEF ReadCheck
  <2>2. ASSUME NEW W, NEW sel, NEW V, WrittenFrom(W, sel, V), Rereading',
               Rereading => Follows(W, V)
        PROVE  Follows(W, V)'
    <3>1. Follows(W, V)
      BY <2>1, <2>2 DEF Rereading
    <3>2. QED
      BY <1>8, <2>2, <3>1, FollowCheck
  <2>3. QED
    BY <2>1, <2>2, RereadKept
<1>9. CASE conf_read_done
  <2>1. reread' # 0 => reread # 0
    BY <1>9 DEF conf_read_done
  <2>2. Rereading' => Rereading
    BY <1>0, <1>9 DEF conf_read_done, Rereading, TypeOK
  <2>3. QED
    BY <1>5, <1>9, <2>1, <2>2 DEF conf_read_done, tableVars, userVars
<1>10. CASE conf_write_begin
  <2>1. (valid' = {} /\ forced' = TRUE) \/ UNCHANGED <<valid, forced>>
    BY <1>10 DEF conf_write_begin, sym_clear_all_valid
  <2>2. Rereading' => Rereading
    BY <1>10 DEF conf_write_begin, Rereading
  <2>3. QED
    BY <1>5, <1>10, <2>1, <2>2 DEF conf_write_begin
<1>11. CASE conf_write_end
  <2> SUFFICES ASSUME reread' # 0 PROVE RereadInv'
    BY DEF RereadInv
  <2>1. ModulesKnown /\ Modules \notin stale /\ phase' = "idle" /\ reread' = 1
    BY <1>11 DEF conf_write_end
  <2>2. WrittenFrom(curr, selected, valid)'
    BY <1>11, <2>1, WriteWritten
  <2>3. file' # NoFile
    <3>1. file' \in FileLines
      BY <1>0, <1>11 DEF conf_write_end, TypeOK, FileLines, Named
    <3>2. QED
      BY <3>1, KconfigAssumption
  <2>4. ~Rereading'
    BY <2>1 DEF Rereading
  <2>5. QED
    BY <2>2, <2>3, <2>4 DEF RereadInv
<1>12. CASE conf_write_failed
  BY <1>5, <1>12 DEF conf_write_failed, tableVars, userVars, Rereading
<1>13. CASE UNCHANGED vars
  BY <1>5, <1>13 DEF vars, tableVars, userVars, ioVars, Rereading
<1>14. QED
  BY <1>1, <1>2, <1>3, <1>4, <1>6, <1>7, <1>8, <1>9, <1>10, <1>11, <1>12, <1>13 DEF Next

(* Reading back a file conf_write has written gives every symbol the value *)
(* it was written with (confdata.c:170, 316), for every Kconfig file in    *)
(* which no expression reads a choice and no tristate decides MODULES.     *)
THEOREM RereadCorrect ==
  ASSUME ChoicesUnread, PlainModules PROVE Spec => []RereadSame
<1>1. FitInv /\ RereadInv => RereadSame
  <2> SUFFICES ASSUME RereadInv, reread = 2, Consistent, NEW s \in Named \cap valid
      PROVE  curr[s] = file[s]
    BY DEF RereadSame, Consistent
  <2>1. PICK W, sel, V : WrittenFrom(W, sel, V) /\ Follows(W, V)
    BY DEF RereadInv, Rereading
  <2>2. QED
    BY <2>1 DEF WrittenFrom, Follows, Named
<1>2. Init => FitInv /\ RereadInv
  BY RereadInit
<1>3. CacheInv /\ FitInv /\ RereadInv /\ [Next]_vars => FitInv' /\ RereadInv'
  BY FitNext, RereadNext
<1>4. QED
  BY <1>1, <1>2, <1>3, CacheInvariant, PTL DEF Spec

-----------------------------------------------------------------------------
(* Boolean Kconfig files.                                                  *)

(* Where every value is right, and none is m, a choice has at most one     *)
(* value that is not n, and conf_write writes no inconsistent choice.      *)
LEMMA BooleanWrites ==
  ASSUME BooleanKconfig, CacheInv, AllCoherent, conf_write_end PROVE Consistent'
<1> SUFFICES ASSUME NEW c \in Choices, Inconsistent(c)' PROVE FALSE
  BY DEF Consistent
<1>0. TypeOK /\ ValuesOfChoices
  BY DEF CacheInv
<1>1. ASSUME NEW v \in ValueSet(c), LineValue(v)' # no PROVE v = selected[c]
  <2>1. v \in Named /\ Coherent(v) /\ v \notin Tristates
    BY ChoiceOfValue DEF Named, conf_write_end, AllCoherent, BooleanKconfig
  <2>2. file'[v] = curr[v] /\ curr[v] \in Tri
    BY <1>0, <2>1 DEF conf_write_end, TypeOK, Named
  <2>3. curr[v] # no
    BY <1>1, <2>2 DEF LineValue, Accepted
  <2>4. curr[v] # mod
    <3>1. curr[v] = BaseValue(v)
      BY <2>1 DEF Coherent, NewValue, Named
    <3>2. IsBoolean(v, Visibility(v))
      BY <2>1 DEF IsBoolean
    <3>3. QED
      BY <3>1, <3>2 DEF BaseValue, NoModule, mod, yes
  <2>5. QED
    BY <1>0, <2>1, <2>2, <2>3, <2>4, ChosenValue DEF Tri
<1> DEFINE T == {Values[c][i] : i \in SetValues(c)'}
           S == {selected[c]}
<1>2. T \subseteq S
  BY <1>1 DEF SetValues, ValueSet
<1>3. IsFiniteSet(S) /\ Cardinality(S) = 1
  BY FS_Singleton
<1>4. Cardinality(T) >= 2
  BY DEF Inconsistent
<1> HIDE DEF S, T
<1>5. Cardinality(T) \in Nat /\ Cardinality(T) <= 1
  BY <1>2, <1>3, FS_Subset, FS_CardinalityType
<1>6. QED
  BY <1>4, <1>5

LEMMA BooleanConsistent ==
  ASSUME BooleanKconfig, CacheInv, AllCoherent, reread # 0 => Consistent, [Next]_vars
  PROVE  reread' # 0 => Consistent'
<1>1. CASE conf_write_end
  BY <1>1, BooleanWrites
<1>2. CASE file' = file /\ (reread' # 0 => reread # 0)
  <2>1. \A c : Inconsistent(c)' = Inconsistent(c)
    BY <1>2 DEF Inconsistent, SetValues, YesValues, LineValue, Accepted
  <2>2. QED
    BY <1>2, <2>1 DEF Consistent
<1>3. ASSUME NEW s \in Symbols, NEW val \in Tri, Accept(s, val)
      PROVE  file' = file /\ (reread' # 0 => reread # 0)
  BY <1>3 DEF Accept, ioVars
<1>4. ASSUME NEW s \in Symbols, sym_toggle_tristate_value(s)
      PROVE  file' = file /\ (reread' # 0 => reread # 0)
  <2>1. TypeOK
    BY DEF CacheInv
  <2>2. QED
    BY <1>3, <1>4, <2>1, ToggleAccepts
<1>5. ASSUME NEW s \in Symbols, sym_calc_value(s) \/ ReadCheck(s)
      PROVE  file' = file /\ (reread' # 0 => reread # 0)
  BY <1>5 DEF sym_calc_value, ReadCheck, ioVars
<1>6. ASSUME conf_read_missing \/ conf_read_absent \/ conf_read_simple \/ conf_read_done
      PROVE  file' = file /\ (reread' # 0 => reread # 0)
  BY <1>6 DEF conf_read_missing, conf_read_absent, conf_read_simple, conf_read_done, ioVars
<1>7. ASSUME conf_write_begin \/ conf_write_failed \/ UNCHANGED vars
      PROVE  file' = file /\ (reread' # 0 => reread # 0)
  BY <1>7 DEF conf_write_begin, conf_write_failed, vars, ioVars
<1>8. QED
  BY <1>1, <1>2, <1>3, <1>4, <1>5, <1>6, <1>7 DEF Next, sym_set_tristate_value

(* What mconf_readme promises: settings that were saved are restored by    *)
(* loading their file, for every Kconfig file of booleans, choices of      *)
(* which always have a value and are read by no expression.                *)
THEOREM BooleanRestored ==
  ASSUME BooleanKconfig, ChoicesUnread PROVE Spec => []SavedSettingsRestored
<1>1. PlainModules
  BY DEF BooleanKconfig, PlainModules
<1>2. Spec => []RereadSame
  BY <1>1, RereadCorrect
<1>3. Spec => []AllCoherent
  BY BooleanCorrect
<1>4. Init => (reread # 0 => Consistent)
  BY DEF Init
<1>5. CacheInv /\ AllCoherent /\ (reread # 0 => Consistent) /\ [Next]_vars
        => (reread # 0 => Consistent)'
  BY BooleanConsistent
<1>6. RereadSame /\ (reread # 0 => Consistent) => SavedSettingsRestored
  BY DEF RereadSame, Consistent, SavedSettingsRestored
<1>7. QED
  BY <1>2, <1>3, <1>4, <1>5, <1>6, CacheInvariant, PTL DEF Spec
===============================================================================
