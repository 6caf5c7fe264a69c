--------------------------- MODULE KconfigSymbols ---------------------------
(***************************************************************************)
(* The symbol table of kconfig: the cached evaluation of symbols, the      *)
(* user's answers, and reading and writing a configuration (symbol.c,      *)
(* conf_read and conf_write of confdata.c), as mconf and conf drive them.  *)
(*                                                                         *)
(* sym_calc_value is recursive in the code.  Its call tree is split into   *)
(* one step per symbol, taken once the symbols it reads are valid, so the  *)
(* order of evaluation (the hash order of for_all_symbols, the order in    *)
(* which menus are drawn) is any order the dependencies allow.  A step may *)
(* therefore find more symbols evaluated than the code, which skips the    *)
(* defaults it does not reach.  Symbols are boolean or tristate.           *)
(***************************************************************************)
EXTENDS Tristate, Sequences, FiniteSets

CONSTANTS
  Symbols,         \* every symbol, the nameless modules_sym and choices included
  Tristates,       \* those declared tristate; the others are boolean
  Modules,         \* modules_sym, whose value is kept in modules_val
  Choices,         \* the symbols of choice blocks
  Values,          \* Values[c]: the values of choice c, in menu order
  OptionalChoices, \* the choices declared optional
  Prompt,          \* Prompt[s]: when a prompt of s is visible
  Selects,         \* Selects[s]: the selects of s by other symbols
  Defaults,        \* Defaults[s]: the defaults of s, in order
  ChoiceDefaults,  \* ChoiceDefaults[c]: the default values of c, in order
  Files,           \* the configuration files a run may find at the start
  None,            \* no symbol
  Unset,           \* a symbol the file has no line for
  NoFile,          \* no configuration file
  MaxOps           \* bound: answers, reads and writes of a run

ValueSet(c)      == {Values[c][i] : i \in DOMAIN Values[c]}
IsChoiceValue(s) == \E c \in Choices : s \in ValueSet(c)
ChoiceOf(s)      == CHOOSE c \in Choices : s \in ValueSet(c)

(* The symbols a configuration file has lines for.                         *)
Named     == Symbols \ (Choices \cup {Modules})
FileLines == [Named -> Tri \cup {Unset}]

(* What a parsed Kconfig file looks like: a choice has no name to select   *)
(* it by (zconf.tab.c:1578), a choice value belongs to one choice, has its *)
(* type and no default (menu.c:313-334), and modules_sym is a plain        *)
(* boolean (zconf.tab.c:2115).                                             *)
ASSUME KconfigAssumption ==
  /\ Tristates \subseteq Symbols /\ Choices \subseteq Symbols
  /\ Modules \in Symbols \ (Tristates \cup Choices)
  /\ None \notin Symbols
  /\ Unset \notin Tri
  /\ NoFile \notin FileLines /\ Files \subseteq FileLines \cup {NoFile}
  /\ MaxOps \in Nat
  /\ Prompt \in [Symbols -> Expressions(Symbols)]
  /\ Selects \in [Symbols -> Expressions(Symbols)]
  /\ \A s \in Symbols :
       Defaults[s] \in Seq([value : Expressions(Symbols), cond : Expressions(Symbols)])
  /\ DOMAIN Values = Choices
  /\ \A c \in Choices :
       /\ Selects[c] = Never
       /\ Values[c] \in Seq(Symbols \ (Choices \cup {Modules}))
       /\ \A v \in ValueSet(c) :
            /\ v \in Tristates <=> c \in Tristates
            /\ Defaults[v] = <<>>
            /\ \A d \in Choices : v \in ValueSet(d) => d = c
       /\ ChoiceDefaults[c] \in Seq([sym : ValueSet(c), cond : Expressions(Symbols)])

VARIABLES
  curr,        \* curr[s]: the cached value (curr.tri)
  selected,    \* selected[c]: the cached chosen value (curr.val of a choice)
  visible,     \* visible[s]: the cached visibility
  rev_dep,     \* rev_dep[s]: the cached lower bound set by selects
  valid,       \* the symbols with SYMBOL_VALID
  def_user,    \* the symbols with SYMBOL_DEF_USER
  def,         \* def[s]: the user's value (def[S_DEF_USER].tri)
  def_sel,     \* def_sel[c]: the user's chosen value (def[S_DEF_USER].val)
  write,       \* the symbols with SYMBOL_WRITE
  modules_val, \* the value modules_sym had when it was last calculated
  forced,      \* sym_calc_value(modules_sym) is being called
  changed,     \* sym_change_count is not zero
  phase,       \* what the program is doing
  todo,        \* the symbols conf_read has yet to check
  unsaved,     \* conf_unsaved or conf_warnings is not zero
  file,        \* the configuration file
  stale,       \* history: valid symbols with an input changed behind the cache,
               \* and modules_sym if it was what changed
  asked,       \* history: the last answer accepted, until the next read, and
               \* whether it was given by right values
  reread,      \* history: 1 conf_write's file, modules_sym being right when it
               \* was written or no type depending on it, 2 read again since,
               \* 0 any other file
  mislaid,     \* history: a failed load has cleared sym_change_count
  ops          \* the answers, reads and writes so far

tableVars == <<curr, selected, visible, rev_dep, valid, write, modules_val>>
userVars  == <<def_user, def, def_sel>>
ioVars    == <<phase, todo, unsaved, file>>
vars == <<tableVars, userVars, ioVars, forced, changed, stale, asked, reread, mislaid, ops>>

-----------------------------------------------------------------------------
(* What sym_calc_value reads and computes for one symbol.                  *)

DefaultSymbols(s) ==
  UNION {ExprSymbols(Defaults[s][i].cond) \cup ExprSymbols(Defaults[s][i].value)
           : i \in DOMAIN Defaults[s]}

(* The symbols whose values the evaluation of s reads; sym_calc_visibility *)
(* leaves the selects of a choice value alone.                             *)
Deps(s) ==
  ExprSymbols(Prompt[s]) \cup
  IF IsChoiceValue(s) THEN {ChoiceOf(s)}
  ELSE ExprSymbols(Selects[s]) \cup
       IF s \in Choices
       THEN (UNION {ExprSymbols(Prompt[v]) : v \in ValueSet(s)}) \cup
            (UNION {ExprSymbols(ChoiceDefaults[s][i].cond)
                      : i \in DOMAIN ChoiceDefaults[s]})
       ELSE DefaultSymbols(s)

(* A set of symbols that holds what its members read, and the least one    *)
(* that holds s: the symbols sym_calc_value(s) goes through.               *)
Closed(K) == \A k \in K : Deps(k) \subseteq K
Below(s)  == {t \in Symbols : \A K \in SUBSET Symbols : s \in K /\ Closed(K) => t \in K}
ModulesNeeds == Below(Modules)

(* m stands for y where the symbol cannot be a module.  (AnyModule, and    *)
(* each definition below whose comment calls it a slip, is a wrong form of *)
(* the one after it, to show what the properties notice.)                  *)
AnyModule(tri, boolean) == tri
NoModule(tri, boolean) == IF tri = mod /\ boolean THEN yes ELSE tri

(* sym_calc_visibility: the prompts of a choice value also depend on the   *)
(* choice, whose value is tri.                                             *)
PromptValue(s, tri) ==
  LET p == ExprValue(Prompt[s], curr)
  IN  NoModule(IF IsChoiceValue(s) THEN E_AND(tri, p) ELSE p,
               s \notin Tristates \/ modules_val = no)
Visibility(s) ==
  PromptValue(s, IF IsChoiceValue(s) THEN curr[ChoiceOf(s)] ELSE yes)

(* sym_get_type of s, were vis its visibility.                             *)
IsBoolean(s, vis) ==
  \/ s \notin Tristates
  \/ IsChoiceValue(s) /\ vis = yes
  \/ modules_val = no

(* The lower bound of s; menu_finalize gives a choice that is not optional *)
(* the bound "its prompt is visible && m".                                 *)
LowerBound(s) ==
  IF IsChoiceValue(s) THEN rev_dep[s]
  ELSE LET e == ExprValue(Selects[s], curr)
           p == E_AND(ExprValue(Prompt[s], curr), mod)
       IN  NoModule(IF s \in Choices \ OptionalChoices THEN E_OR(e, p) ELSE e,
                    IsBoolean(s, Visibility(s)))

(* sym_get_default_prop: the first default whose condition holds.          *)
LiveDefaults(s) ==
  {i \in DOMAIN Defaults[s] : ExprValue(Defaults[s][i].cond, curr) # no}
First(I) == CHOOSE i \in I : \A j \in I : i <= j
DefaultValue(s) ==
  IF LiveDefaults(s) = {} THEN no
  ELSE ExprValue(Defaults[s][First(LiveDefaults(s))].value, curr)

(* sym_calc_choice: the user's choice, the first default, else the first   *)
(* value, of those that are visible.                                       *)
Shown(v) == PromptValue(v, yes) # no
LiveChoices(c) ==
  {i \in DOMAIN ChoiceDefaults[c] :
     /\ ExprValue(ChoiceDefaults[c][i].cond, curr) # no
     /\ Shown(ChoiceDefaults[c][i].sym)}
ShownValues(c) == {i \in DOMAIN Values[c] : Shown(Values[c][i])}
CalcChoice(c) ==
  IF def_sel[c] # None /\ Shown(def_sel[c]) THEN def_sel[c]
  ELSE IF LiveChoices(c) # {} THEN ChoiceDefaults[c][First(LiveChoices(c))].sym
  ELSE IF ShownValues(c) # {} THEN Values[c][First(ShownValues(c))]
  ELSE None

(* The values it calculates the visibility of: those it tries.             *)
Tried(c) ==
  {v \in ValueSet(c) :
     \/ v = def_sel[c]
     \/ ~(def_sel[c] # None /\ Shown(def_sel[c])) /\
        \/ \E i \in DOMAIN ChoiceDefaults[c] :
             /\ v = ChoiceDefaults[c][i].sym
             /\ ExprValue(ChoiceDefaults[c][i].cond, curr) # no
             /\ \A j \in LiveChoices(c) : i <= j
        \/ LiveChoices(c) = {} /\ \E i \in DOMAIN Values[c] :
             v = Values[c][i] /\ \A j \in ShownValues(c) : i <= j}

(* The value before sym_calc_choice looks for a value to choose.           *)
UserOrDefault(s) ==
  IF s \in def_user THEN def[s]
  ELSE IF s \in Choices THEN no
  ELSE DefaultValue(s)
(* A slip: the values of a choice that is y keep their own answers.        *)
OwnValue(s) ==
  LET vis == Visibility(s)
      low == LowerBound(s)
      tri == IF E_OR(vis, low) # no
             THEN E_OR(E_AND(UserOrDefault(s), vis), low)
             ELSE IF s \in Choices THEN no
             ELSE DefaultValue(s)
  IN  NoModule(tri, IsBoolean(s, vis))
BaseValue(s) ==
  LET vis == Visibility(s)
      low == LowerBound(s)
      tri == IF IsChoiceValue(s) /\ vis = yes
             THEN IF selected[ChoiceOf(s)] = s THEN yes ELSE no
             ELSE IF E_OR(vis, low) # no
             THEN E_OR(E_AND(UserOrDefault(s), vis), low)
             ELSE IF s \in Choices THEN no
             ELSE DefaultValue(s)
  IN  NoModule(tri, IsBoolean(s, vis))

NewSelected(c) == IF BaseValue(c) = yes THEN CalcChoice(c) ELSE None
NewValue(s) ==
  IF s \in Choices /\ BaseValue(s) = yes /\ CalcChoice(s) = None
  THEN no
  ELSE BaseValue(s)

(* A choice value is written when its choice is; its own flag is never     *)
(* taken back.                                                             *)
NewWrite(s) ==
  LET shown == E_OR(Visibility(s), LowerBound(s)) # no
      wr    == \/ shown /\ ~(IsChoiceValue(s) /\ Visibility(s) = yes)
               \/ ~shown /\ s \notin Choices /\ LiveDefaults(s) # {}
  IN  ((IF IsChoiceValue(s) THEN write ELSE write \ {s})
        \cup (IF wr THEN {s} ELSE {}))
        \cup (IF wr /\ s \in Choices THEN ValueSet(s) ELSE {})

-----------------------------------------------------------------------------
(* The cache entry of s is what calculating it now gives.                  *)
Coherent(s) ==
  /\ curr[s] = NewValue(s)
  /\ visible[s] = Visibility(s)
  /\ rev_dep[s] = LowerBound(s)
  /\ s \in Choices => selected[s] = NewSelected(s)

(* History: modules_sym has been calculated, or no type depends on it; an  *)
(* answer is given by right values; or by what turns out to have been      *)
(* wrong.                                                                  *)
ModulesKnown == Modules \in valid \/ Tristates = {}
AllCoherent  == \A s \in valid : Coherent(s)
Doubted(answer) == IF answer = None THEN None ELSE [answer EXCEPT !.clean = FALSE]

(* sym_calc_value, for a symbol whose inputs have been calculated.         *)
sym_calc_value(s) ==
  /\ s \notin valid
  /\ Deps(s) \subseteq valid
  /\ phase # "start"
  /\ forced => s \in ModulesNeeds
  /\ valid'    = valid \cup {s}
  /\ visible'  = [v \in Symbols |->
                    IF v = s THEN Visibility(s)
                    ELSE IF s \in Choices /\ BaseValue(s) = yes /\ v \in Tried(s)
                    THEN PromptValue(v, yes)
                    ELSE visible[v]]
  /\ rev_dep'  = [rev_dep EXCEPT ![s] = LowerBound(s)]
  /\ curr'     = [curr EXCEPT ![s] = NewValue(s)]
  /\ selected' = IF s \in Choices
                 THEN [selected EXCEPT ![s] = NewSelected(s)] ELSE selected
  /\ write'    = NewWrite(s)
  /\ modules_val' = IF s = Modules THEN NewValue(s) ELSE modules_val
  /\ forced'   = (forced /\ s # Modules)
  /\ LET retyped == IF s = Modules /\ NewValue(s) # modules_val
                    THEN valid \cap Tristates ELSE {}
     IN  /\ stale' = stale \cup retyped \cup IF retyped # {} THEN {Modules} ELSE {}
         /\ asked' = IF retyped # {} THEN Doubted(asked) ELSE asked
  /\ UNCHANGED <<userVars, ioVars, changed, reread, mislaid, ops>>

(* A slip: the nameless symbols are left out.                              *)
ClearNamed ==
  /\ valid' = valid \ Named
  /\ forced' = TRUE
  /\ stale' = {}

(* sym_clear_all_valid, which goes on to calculate modules_sym.            *)
sym_clear_all_valid ==
  /\ valid' = {}
  /\ forced' = TRUE
  /\ stale' = {}

(* A slip: no upper limit.                                                 *)
AboveBound(s, val) ==
  /\ visible[s] > rev_dep[s]
  /\ rev_dep[s] <= val

(* sym_tristate_within_range.                                              *)
WithinRange(s, val) ==
  /\ visible[s] # no
  /\ ~(IsBoolean(s, visible[s]) /\ val = mod)
  /\ visible[s] > rev_dep[s]
  /\ IF IsChoiceValue(s) /\ visible[s] = yes THEN val = yes
     ELSE rev_dep[s] <= val /\ val <= visible[s]

(* The items a menu shows have been calculated, and so have the values of  *)
(* a choice whose list is open.                                            *)
OnScreen(s) ==
  /\ s \in valid \cap (Symbols \ {Modules})
  /\ IsChoiceValue(s) => ValueSet(ChoiceOf(s)) \subseteq valid

Idle == phase = "idle" /\ ~forced

Operation == ops < MaxOps /\ ops' = ops + 1

(* sym_set_tristate_value returning true: val becomes the user's value.    *)
Accept(s, val) ==
  LET chosen == IsChoiceValue(s) /\ val = yes
      c      == ChoiceOf(s)
  IN  /\ Operation
      /\ curr[s] # val => WithinRange(s, val)
      /\ def_user' = def_user \cup {s} \cup
                     IF chosen
                     THEN {c} \cup {v \in ValueSet(c) : visible[v] # no}
                     ELSE {}
      /\ def_sel' = IF chosen THEN [def_sel EXCEPT ![c] = s] ELSE def_sel
      /\ def' = [def EXCEPT ![s] = val]
      /\ IF curr[s] # val
         THEN sym_clear_all_valid /\ changed' = TRUE
         ELSE /\ stale' = IF s \in Choices /\ ShownValues(s) = {}
                          THEN stale \cup {s} ELSE stale
              /\ UNCHANGED <<valid, forced, changed>>
      /\ asked' = [sym |-> s, val |-> val,
                   clean |-> AllCoherent /\ ModulesKnown]
      /\ reread' = IF reread = 2 THEN 1 ELSE reread
      /\ UNCHANGED <<curr, selected, visible, rev_dep, write, modules_val, ioVars,
                     mislaid>>

sym_set_tristate_value(s, val) == Idle /\ OnScreen(s) /\ Accept(s, val)

(* sym_toggle_tristate_value: n, m, y, n, ... from the current value, to   *)
(* the first one accepted.                                                 *)
Following(tri, k) == (tri + k) % 3

sym_toggle_tristate_value(s) ==
  LET next(k) == Following(curr[s], k)
      ok      == {k \in 1..3 : k = 3 \/ WithinRange(s, next(k))}
  IN  Idle /\ OnScreen(s) /\ Accept(s, next(First(ok)))

-----------------------------------------------------------------------------
(* Reading a configuration.                                                *)

(* conf_read_simple without a file: the program goes on with defaults, and *)
(* modules_sym is not calculated.                                          *)
conf_read_missing ==
  /\ Operation
  /\ phase = "start"
  /\ file = NoFile
  /\ phase' = "idle"
  /\ changed' = TRUE
  /\ UNCHANGED <<tableVars, userVars, todo, unsaved, file, forced, stale, asked,
                 reread, mislaid>>

(* conf_read of a file that does not exist, from the Load dialogue: only   *)
(* the counter has been touched by then.                                   *)
conf_read_absent ==
  /\ Operation
  /\ Idle
  /\ changed' = FALSE
  /\ mislaid' = (mislaid \/ changed)
  /\ UNCHANGED <<tableVars, userVars, ioVars, forced, stale, asked, reread>>

(* A line of the file that sets its symbol: "m" does not fit a boolean; a  *)
(* slip: it fits none.                                                     *)
AcceptedBoolean(s) == file[s] \notin {Unset, mod}
Accepted(s) == file[s] # Unset /\ ~(file[s] = mod /\ s \notin Tristates)
(* The value of s is n before its line is read; a slip: it is not reset.   *)
NotReset(s)  == file[s]
LineValue(s) == IF Accepted(s) THEN file[s] ELSE no
(* The values of a choice that the file sets, and those it sets to y.      *)
SetValues(c) == {i \in DOMAIN Values[c] : LineValue(Values[c][i]) # no}
YesValues(c) == {i \in DOMAIN Values[c] : LineValue(Values[c][i]) = yes}
(* "creates inconsistent choice state": two values, of which one is y.     *)
Inconsistent(c) ==
  Cardinality({Values[c][i] : i \in SetValues(c)}) >= 2 /\ YesValues(c) # {}

(* conf_read_simple: every user value is replaced by the file's.           *)
conf_read_simple ==
  /\ Operation
  /\ phase = "start" \/ Idle
  /\ file # NoFile
  /\ def_user' = {s \in Named : Accepted(s)} \cup
                 {c \in Choices : ~Inconsistent(c)}
  /\ def' = [s \in Symbols |->
               IF s \in Choices
               THEN IF YesValues(s) # {} THEN yes
                    ELSE IF SetValues(s) # {} THEN mod ELSE no
               ELSE IF s \in Named THEN LineValue(s) ELSE no]
  /\ def_sel' = [c \in Choices |->
                   IF SetValues(c) = {} THEN None
                   ELSE LET v == Values[c][First(SetValues(c))]
                        IN  IF LineValue(v) = yes THEN v ELSE None]
  /\ valid' = {} /\ stale' = {} /\ forced' = TRUE
  /\ phase' = "checking"
  /\ todo' = Symbols
  /\ unsaved' = \/ \E s \in Named : file[s] # Unset /\ ~Accepted(s)
                \/ \E c \in Choices : Inconsistent(c)
  /\ changed' = FALSE
  /\ asked' = None
  /\ mislaid' = FALSE
  /\ UNCHANGED <<curr, selected, visible, rev_dep, write, modules_val, file,
                 reread>>

(* The answer to an invisible question; a slip: one with the answer n.     *)
NoAnswer(s)     == s \in def_user /\ ~IsChoiceValue(s) /\ curr[s] = no
HiddenAnswer(s) == s \in def_user /\ ~IsChoiceValue(s) /\ visible[s] = no

(* The loop of conf_read, for one symbol: does the calculated value agree  *)
(* with the saved one; forget the answer to an invisible question; a       *)
(* choice counts as answered only if all its visible values are.           *)
ReadCheck(s) ==
  /\ phase = "checking" /\ ~forced
  /\ s \in todo \cap valid
  /\ todo' = todo \ {s}
  /\ LET agrees == \/ s \in Choices \cup {Modules}
                   \/ s \in def_user \cap write /\ def[s] = curr[s]
                   \/ s \notin def_user \cup write
         new    == /\ s \in Choices
                   /\ \E v \in ValueSet(s) \ def_user : visible[v] # no
     IN  /\ unsaved' = (unsaved \/ ~agrees)
         /\ def_user' = IF HiddenAnswer(s) \/ new THEN def_user \ {s} ELSE def_user
         /\ stale' = IF s \in def_user /\ new THEN stale \cup {s} ELSE stale
  /\ UNCHANGED <<tableVars, def, def_sel, forced, changed, phase, file, asked,
                 reread, mislaid, ops>>

(* A slip: lines that no longer hold do not count as changes.              *)
ReadDoneClean ==
  /\ phase = "checking" /\ ~forced
  /\ todo = {}
  /\ phase' = "idle"
  /\ reread' = IF reread = 1 THEN 2 ELSE reread
  /\ UNCHANGED <<tableVars, userVars, changed, todo, unsaved, file, forced, stale,
                 asked, mislaid, ops>>
conf_read_done ==
  /\ phase = "checking" /\ ~forced
  /\ todo = {}
  /\ phase' = "idle"
  /\ changed' = (changed \/ unsaved)
  /\ reread' = IF reread = 1 THEN 2 ELSE reread
  /\ UNCHANGED <<tableVars, userVars, todo, unsaved, file, forced, stale, asked,
                 mislaid, ops>>

-----------------------------------------------------------------------------
(* Writing it.                                                             *)

(* conf_write trusts the cache if something changed since it last wrote,   *)
(* and else calculates everything again.                                   *)
conf_write_begin ==
  /\ Operation
  /\ Idle
  /\ phase' = "writing"
  /\ IF changed THEN UNCHANGED <<valid, forced, stale>> ELSE sym_clear_all_valid
  /\ changed' = TRUE
  /\ UNCHANGED <<curr, selected, visible, rev_dep, write, modules_val, userVars,
                 todo, unsaved, file, asked, reread, mislaid>>

conf_write_end ==
  /\ phase = "writing" /\ ~forced
  /\ Named \subseteq valid
  /\ file' = [s \in Named |-> curr[s]]
  /\ phase' = "idle"
  /\ changed' = FALSE
  /\ reread' = IF ModulesKnown /\ Modules \notin stale THEN 1 ELSE 0
  /\ mislaid' = FALSE
  /\ UNCHANGED <<tableVars, userVars, todo, unsaved, forced, stale, asked, ops>>

(* The file cannot be put in place: conf_write returns 1.                  *)
conf_write_failed ==
  /\ phase = "writing" /\ ~forced
  /\ Named \subseteq valid
  /\ phase' = "idle"
  /\ UNCHANGED <<tableVars, userVars, todo, unsaved, file, forced, changed,
                 stale, asked, reread, mislaid, ops>>

-----------------------------------------------------------------------------
Init ==
  /\ curr = [s \in Symbols |-> no]
  /\ selected = [c \in Choices |-> None]
  /\ visible = [s \in Symbols |-> no]
  /\ rev_dep = [s \in Symbols |-> no]
  /\ valid = {} /\ write = {}
  /\ def_user = {} /\ def = [s \in Symbols |-> no]
  /\ def_sel = [c \in Choices |-> None]
  /\ modules_val = no
  /\ forced = FALSE
  /\ changed = TRUE
  /\ phase = "start" /\ todo = {} /\ unsaved = FALSE
  /\ file \in Files
  /\ stale = {} /\ asked = None /\ reread = 0
  /\ mislaid = FALSE /\ ops = 0

Next ==
  \/ \E s \in Symbols : sym_calc_value(s)
  \/ \E s \in Symbols, val \in Tri : sym_set_tristate_value(s, val)
  \/ \E s \in Symbols : sym_toggle_tristate_value(s)
  \/ conf_read_missing
  \/ conf_read_absent
  \/ conf_read_simple
  \/ \E s \in Symbols : ReadCheck(s)
  \/ conf_read_done
  \/ conf_write_begin
  \/ conf_write_end
  \/ conf_write_failed

Spec == Init /\ [][Next]_vars

-----------------------------------------------------------------------------
TypeOK ==
  /\ curr \in [Symbols -> Tri] /\ visible \in [Symbols -> Tri]
  /\ rev_dep \in [Symbols -> Tri] /\ def \in [Symbols -> Tri]
  /\ selected \in [Choices -> Symbols \cup {None}]
  /\ def_sel \in [Choices -> Symbols \cup {None}]
  /\ valid \subseteq Symbols /\ write \subseteq Symbols
  /\ def_user \subseteq Symbols /\ stale \subseteq Symbols
  /\ todo \subseteq Symbols
  /\ modules_val \in Tri
  /\ forced \in BOOLEAN /\ changed \in BOOLEAN
  /\ unsaved \in BOOLEAN /\ mislaid \in BOOLEAN
  /\ phase \in {"start", "idle", "checking", "writing"}
  /\ file \in FileLines \cup {NoFile}
  /\ asked \in [sym : Symbols, val : Tri, clean : BOOLEAN] \cup {None}
  /\ reread \in {0, 1, 2}
  /\ ops \in Nat

(* The cached values nothing has been changed behind: conf_read drops the  *)
(* answer to a choice, and modules_sym changes the type of every tristate, *)
(* without clearing SYMBOL_VALID of what was calculated before; answering  *)
(* n to a choice that is n for want of a visible value clears nothing.     *)
Trusted == valid \ stale

(* Every cached value is what the symbol's expressions, defaults, selects  *)
(* and the user's answers give now: sym_clear_all_valid is called wherever *)
(* they change (symbol.c:458), and skipping it for an answer that repeats  *)
(* the current value is right.                                             *)
CacheCoherent == \A s \in Trusted : Coherent(s)

(* What makes CacheCoherent inductive: what a valid symbol reads is valid, *)
(* nothing selects a choice value, and an answer to one is recorded with   *)
(* its choice's.                                                           *)
DepsValid == \A s \in valid : Deps(s) \subseteq valid
ValuesOfChoices ==
  \A c \in Choices :
    /\ def_sel[c] \in ValueSet(c) \cup {None}
    /\ \A v \in ValueSet(c) :
         /\ rev_dep[v] = no
         /\ v \notin def_user => def[v] = no
         /\ v \in stale => c \in stale
CacheInv == TypeOK /\ DepsValid /\ ValuesOfChoices /\ CacheCoherent

(* Only a tristate is ever m, and only while modules are enabled, though   *)
(* answers, files and selects may all say m (symbol.c:207, 218, 326).      *)
NoModuleUnlessEnabled ==
  \A s \in Trusted : curr[s] = mod => s \in Tristates /\ modules_val # no

(* At most one value of a choice is y; one is, if the choice is y and no   *)
(* value of it is limited to m (symbol.c:306).                             *)
ChoiceExclusive ==
  \A c \in Choices \cap Trusted :
    ValueSet(c) \subseteq Trusted =>
      LET chosen == {v \in ValueSet(c) : curr[v] = yes}
      IN  /\ \A v, w \in chosen : v = w
          /\ curr[c] = yes /\ (\A v \in ValueSet(c) : visible[v] # mod)
               => chosen # {}

(* An answer sym_set_tristate_value accepts becomes the symbol's value,    *)
(* and stays it until the next answer, whatever is calculated again in     *)
(* between; a choice without a visible value has none to give.  The values *)
(* the answer was given by must be right: without a configuration file     *)
(* modules_sym is not calculated before the first answer is.               *)
AnswerHonoured ==
  asked # None =>
    LET s == asked.sym
    IN  asked.clean /\ s \in valid /\ ~(s \in Choices /\ ShownValues(s) = {})
          => curr[s] = asked.val

(* Reading back a file conf_write has written gives every symbol the value *)
(* it was written with, unless the file sets a choice inconsistently, or   *)
(* modules_sym had not been calculated before the values of tristates were *)
(* (as happens without a configuration file, confdata.c:313).              *)
RereadSame ==
  reread = 2 /\ phase = "idle" /\ (\A c \in Choices : ~Inconsistent(c)) =>
     \A s \in Named \cap valid : curr[s] = file[s]

(* The Kconfig files this is proved for: no expression reads a choice, as  *)
(* one that is y with all its values limited to m is m when it is read     *)
(* again, and no tristate decides whether there are modules.               *)
ChoicesUnread ==
  \A s \in Symbols :
    /\ ExprSymbols(Prompt[s]) \cap Choices = {}
    /\ ~IsChoiceValue(s) => Deps(s) \cap Choices = {}
PlainModules == ModulesNeeds \cap Tristates = {}

(* A Kconfig file of the kind of this repository's own: only booleans, and *)
(* a choice always has a value (configs/i486tcc-linux.kconfig).  In one of *)
(* these AllCoherent always holds, and the two promises at the end are     *)
(* kept: reading a configuration does drop the answer to a choice behind   *)
(* the cache, but such a choice is y whenever its prompt is visible,       *)
(* answered or not.                                                        *)
BooleanKconfig == Tristates = {} /\ OptionalChoices = {}

(* The file's line for s says its value, or there is none and none is due: *)
(* "no previous value and not saved" (confdata.c:349).                     *)
Saved(s) ==
  curr[s] = file[s] \/ (file[s] = Unset /\ s \notin write /\ curr[s] = no)

(* While sym_change_count is zero the file holds the current values: conf  *)
(* skips conf_write in that case (conf.c:603).  A load that fails clears   *)
(* the counter too, and is left out.                                       *)
CleanMeansSaved ==
  phase = "idle" /\ ~changed /\ ~mislaid =>
     \A s \in Named \cap valid : Saved(s)

(* What makes it inductive: a value that is not n is written; the counter  *)
(* is not zero before the first read nor while writing; and while the loop *)
(* of conf_read runs it has compared what it is through with.              *)
WriteInv ==
  /\ \A c \in Choices \cap valid : curr[c] # no => ValueSet(c) \subseteq write
  /\ \A s \in (Named \cap valid) \ write : curr[s] = no
CheckingInv ==
  /\ ~changed /\ ~mislaid /\ file # NoFile
  /\ Symbols \ todo \subseteq valid
  /\ \A s \in Named \cap todo :
       /\ s \in def_user <=> Accepted(s)
       /\ def[s] = LineValue(s)
       /\ file[s] # Unset /\ ~Accepted(s) => unsaved
  /\ unsaved \/ \A s \in Named \ todo : Saved(s)
CleanInv ==
  /\ WriteInv
  /\ phase \in {"start", "writing"} => changed
  /\ phase = "checking" => CheckingInv
  /\ phase = "idle" /\ ~changed /\ ~mislaid =>
       Named \subseteq valid /\ \A s \in Named : Saved(s)

(* mconf_readme (mconf.c:126) says the previously saved settings can be    *)
(* restored from .config by loading it: so for every file conf_write       *)
(* leaves.                                                                 *)
SavedSettingsRestored ==
  reread = 2 /\ phase = "idle" => \A s \in Named \cap valid : curr[s] = file[s]

(* mconf_readme (mconf.c:43) says to press <Y> to build a feature in, <M>  *)
(* to make it a module or <N> to remove it: so for every accepted answer.  *)
EveryAnswerHonoured ==
  asked # None =>
    LET s == asked.sym
    IN  s \in Trusted /\ s \notin Choices => curr[s] = asked.val
=============================================================================
