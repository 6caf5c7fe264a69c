------------------------------ MODULE MCKconfig ------------------------------
(***************************************************************************)
(* Small Kconfig files for the model checker.                              *)
(***************************************************************************)
EXTENDS KconfigSymbols, TLC

CONSTANTS MODULES, MS, C, V1, V2, T, A, S

(* MS stands for modules_sym, whose only default is the symbol MODULES.    *)
Default(e, cond) == <<[value |-> e, cond |-> cond]>>
Lines(keys, vals) == [k \in {keys[i] : i \in DOMAIN keys} |->
                        vals[CHOOSE i \in DOMAIN keys : keys[i] = k]]

-----------------------------------------------------------------------------
(* A choice C of V1, which depends on T!=n, and V2, which depends on T: T  *)
(* hides both, or limits V2 to m.  All but MODULES are tristate.           *)
ChoiceSymbols   == {MODULES, MS, C, V1, V2, T}
ChoiceTristates == {C, V1, V2, T}
ChoiceValues    == C :> <<V1, V2>>
ChoicePrompt    == [s \in ChoiceSymbols |->
                      CASE s = MS -> Never
                        [] s = V1 -> {{NotEquals(T, no)}}
                        [] s = V2 -> {{Is(T)}}
                        [] OTHER  -> Always]
ChoiceSelects   == [s \in ChoiceSymbols |-> Never]
ChoiceDefault   == [s \in ChoiceSymbols |->
                      IF s = MS THEN Default({{Is(MODULES)}}, Always) ELSE <<>>]
ChoiceNoDefaults == C :> <<>>
ChoiceFiles ==
  LET L(vals) == Lines(<<MODULES, V1, V2, T>>, vals)
  IN  {NoFile, L(<<yes, yes, no, yes>>), L(<<yes, yes, Unset, yes>>),
       L(<<yes, mod, mod, mod>>), L(<<no, yes, yes, mod>>)}

-----------------------------------------------------------------------------
(* An optional boolean choice C of V1 and V2 that depends on the tristate  *)
(* T and prefers V2 if T is y.  T is a module by default and is selected   *)
(* by the tristate S; the boolean A depends on V1 and is on by default.    *)
OptSymbols   == {MODULES, MS, C, V1, V2, T, A, S}
OptTristates == {T, S}
OptPrompt    == [s \in OptSymbols |->
                   CASE s = MS -> Never
                     [] s = C  -> {{Is(T)}}
                     [] s = A  -> {{Is(V1)}}
                     [] OTHER  -> Always]
OptSelects   == [s \in OptSymbols |-> IF s = T THEN {{Is(S)}} ELSE Never]
OptDefault   == [s \in OptSymbols |->
                   CASE s = MS -> Default({{Is(MODULES)}}, Always)
                     [] s = A  -> Default(Always, {{Is(V1)}})
                     [] s = T  -> Default(Always, {{Equals(S, yes)}}) \o
                                  Default({{Mod(MS)}}, Always)
                     [] OTHER  -> <<>>]
OptChoiceDefaults == C :> <<[sym |-> V2, cond |-> {{Equals(T, yes)}}]>>
OptFiles ==
  LET L(vals) == Lines(<<MODULES, V1, V2, T, A, S>>, vals)
  IN  {NoFile, L(<<yes, yes, no, mod, no, mod>>),
       L(<<yes, yes, Unset, yes, no, Unset>>), L(<<no, yes, mod, Unset, yes, mod>>)}

(* Both are of the kind the round trip is proved for.                      *)
ASSUME RereadAssumption == ChoicesUnread /\ PlainModules
=============================================================================
