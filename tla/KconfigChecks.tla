----------------------------- MODULE KconfigChecks -----------------------------
(***************************************************************************)
(* What the parsed tree, and a configurator that walks it, owe to the text *)
(* of the Kconfig files.  The first part says what a text means from its   *)
(* lines alone; the properties compare the tree with it.                   *)
(***************************************************************************)
EXTENDS KconfigConf

(* Flat is the text with the files read where they are sourced, each line  *)
(* with the file it is in, and without the help texts: a help text ends    *)
(* before the first line that is indented less than its first one.         *)
InHelp(lines, i) ==
  \E h \in 1 .. i - 1 :
    LET after == {n \in h + 1 .. Len(lines) : lines[n].k # "blank"}
        first == CHOOSE n \in after : \A o \in after : n <= o
    IN  /\ lines[h].k = "help" /\ ~\E j \in 1 .. h - 1 : lines[j].k = "help"
        /\ \A n \in after : n <= i => lines[n].indent >= lines[first].indent
RECURSIVE Flat(_)
Flat(f) ==
  FlattenSeq([i \in DOMAIN text[f] |->
                IF InHelp(text[f], i) THEN <<>>
                ELSE <<[in |-> f] @@ text[f][i]>> \o
                     (IF text[f][i].k = "source" THEN Flat(text[f][i].file) ELSE <<>>)])

Openers == {"if", "menu", "choice"}
Entries == Openers \cup {"config", "menuconfig", "comment"}
Count(flat, i, j, kinds) == Cardinality({n \in i..j : flat[n].k \in kinds})
Encloses(flat, j, i) ==
  /\ j < i /\ flat[j].k \in Openers
  /\ \A n \in j + 1 .. i :
       Count(flat, j + 1, n, EndStatements) <= Count(flat, j + 1, n, Openers)

(* The dependencies of the entry on line i: its own, and those of the      *)
(* blocks around it; a choice stands for those around itself.              *)
OwnDeps(flat, i) ==
  IF flat[i].k = "if" THEN {flat[i].e} ELSE
  {flat[n].e : n \in {n \in i + 1 .. Len(flat) :
     flat[n].k = "depends" /\ Count(flat, i + 1, n, Entries \cup EndStatements \cup {"source"}) = 0}}
BlockDeps(flat, j) ==
  IF flat[j].k = "choice" THEN {Symbol(flat[j].sym)} ELSE OwnDeps(flat, j)
WrittenDeps(flat, i) ==
  LET around == {j \in DOMAIN flat : Encloses(flat, j, i)}
      near   == {j \in around : \A c \in around : flat[c].k = "choice" => c <= j}
  IN  OwnDeps(flat, i) \cup UNION {BlockDeps(flat, j) : j \in near}
MinValue(exprs, val) ==
  LET vals == {expr_calc_value(menu_check_dep(e), val) : e \in exprs} \cup {2}
  IN  CHOOSE v \in vals : \A w \in vals : v <= w

(* The values the boolean and tristate symbols may have; only a tristate   *)
(* is ever m, and only with modules.                                       *)
Free == {s \in Names \ ConstTri : t.types[s] \in BoolTypes}
Valuations ==
  {v \in [Free -> {"n", "m", "y"}] :
     \A s \in Free : v[s] = "m" => t.types[s] = "tristate" /\ v[MS] = "y"}

JustParsed == result = "parsed" /\ stage = "start"

(* The condition of the prompt of the entry on line i.                     *)
PromptIf(flat, i) ==
  {flat[n].e : n \in {n \in i + 1 .. Len(flat) :
     /\ flat[n].k = "prompt" \/ (flat[n].k = "type" /\ flat[n].prompt)
     /\ Count(flat, i + 1, n, Entries \cup EndStatements \cup {"source"}) = 0}}
AsWritten(m, deps, prompt, v) ==
  LET shown == expr_calc_value(ShownIf(t, m), v)
      asked == MinValue(deps \cup prompt, v)
  IN  /\ expr_calc_value(t.menus[m].dep, v) = MinValue(deps, v)
      /\ IF SymOf(t, m) # NoSym /\ t.types[SymOf(t, m)] = "tristate" THEN shown = asked
         ELSE (shown = 0) = (asked = 0)
(* The symbols an expression reads the value of as it is, and negated.     *)
RECURSIVE SignedSymbols(_, _)
SignedSymbols(e, plain) ==
  CASE e.type = "E_SYMBOL"  -> {<<e.sym, plain>>}
    [] e.type = "E_NOT"     -> SignedSymbols(e.left, ~plain)
    [] e.type \in Junctions -> SignedSymbols(e.left, plain) \cup SignedSymbols(e.right, plain)
    [] OTHER -> {}
BothSigns(exprs) ==
  LET signed == UNION {SignedSymbols(e, TRUE) : e \in exprs}
  IN  {s \in Names : <<s, TRUE>> \in signed /\ <<s, FALSE>> \in signed}
Negates(e) == {s \in Free : <<s, FALSE>> \in SignedSymbols(e, TRUE)}

EntryLines(flat) == SelectSeq([i \in DOMAIN flat |-> i], LAMBDA i : flat[i].k \in Entries)

-----------------------------------------------------------------------------
(* Whatever menu_finalize and the simplifier do to them, the dependencies  *)
(* of an entry and the condition of its prompt have the value the text     *)
(* gives them: that of its own "depends", and of the blocks around it      *)
(* (menu.c:254-278, expr.c).  The simplifier may treat a symbol that is    *)
(* both plain and negated as if it were never m.                           *)
DependenciesAsWritten ==
  JustParsed =>
    LET flat  == Flat(RootFile)
        lines == EntryLines(flat)
        deps   == [n \in DOMAIN lines |-> WrittenDeps(flat, lines[n])]
        prompt == [n \in DOMAIN lines |-> PromptIf(flat, lines[n])]
        signs  == [n \in DOMAIN lines |-> BothSigns(deps[n] \cup prompt[n]) \cap Free]
    IN  \A v \in Valuations : \A n \in DOMAIN lines :
          (\A s \in signs[n] : v[s] # "m") => AsWritten(n + 1, deps[n], prompt[n], v)

(* An entry is put below a symbol only if it is hidden whenever the symbol *)
(* is n, or shown only when the symbol is (kconfig-language.txt:185,       *)
(* menu.c:286-306).  The second is so only while no symbol its condition   *)
(* negates is m: expr_trans_compare makes B = n of !B != n (expr.c:913),   *)
(* which then misses that the entry is shown.                              *)
SubmenuBelongs ==
  JustParsed =>
    \A k \in DOMAIN t.menus \ {Root} :
      LET m == t.menus[k].parent
          s == SymOf(t, m)
          below(v) == expr_calc_value(ShownIf(t, k), v)
      IN  s # NoSym /\ s \notin t.choices =>
            \/ \A v \in Valuations : v[s] = "n" => below(v) = 0
            \/ \A v \in Valuations :
                 (\A x \in Negates(ShownIf(t, k)) : v[x] # "m") =>
                   (below(v) # 0 => expr_calc_value(ShownIf(t, m), v) # 0)

(* Entries are moved, but none is lost, none is in two places, and read    *)
(* from the top they are in the order of the text (menu.c:307, 337).       *)
RECURSIVE Preorder(_)
Preorder(m) ==
  <<m>> \o FlattenSeq([i \in DOMAIN t.kids[m] |-> Preorder(t.kids[m][i])])
OrderKept ==
  JustParsed =>
    /\ Preorder(Root) = [i \in DOMAIN t.menus |-> i]
    /\ \A m \in DOMAIN t.menus : \A k \in Range(t.kids[m]) : t.menus[k].parent = m

(* The lower limit of a symbol that is no choice comes from exactly the    *)
(* entries of the text that select it, while they are on (menu.c:272).     *)
OwnerLine(flat, i) ==
  CHOOSE j \in 1..i : flat[j].k \in Entries /\ Count(flat, j + 1, i, Entries) = 0
SelectsCollected ==
  JustParsed =>
    LET flat    == Flat(RootFile)
        selects == {i \in DOMAIN flat : flat[i].k = "select"}
        needs   == [i \in selects |-> {flat[i].e, Symbol(flat[OwnerLine(flat, i)].sym)}
                                        \cup WrittenDeps(flat, OwnerLine(flat, i))]
    IN  \A v \in Valuations : \A s \in Free \ t.choices :
          (t.rev_dep[s] # NULL /\ expr_calc_value(t.rev_dep[s], v) # 0) =
            \E i \in selects : flat[i].sym = s /\ MinValue(needs[i], v) # 0

(* The depth-first search of sym_check_deps reports a cycle exactly if     *)
(* there is one, though it skips what it has seen (symbol.c:792).          *)
UsesOf(s) == UNION {ExprSymbols(Uses(t, s)[i]) : i \in DOMAIN Uses(t, s)} \cap Names
RECURSIVE Reaches(_, _)
Reaches(S, n) ==
  IF n = 0 THEN S ELSE Reaches(S \cup UNION {UsesOf(s) : s \in S}, n - 1)
CyclesReported ==
  JustParsed =>
    (cycles # {}) = \E s \in Names : s \in Reaches(UsesOf(s), Cardinality(Free))

(* A condition shown to the user means what it is (expr_print): read as    *)
(* the grammar reads conditions, it has the same value.                    *)
PrintedAsMeant ==
  JustParsed =>
    LET printed == [m \in DOMAIN t.menus |-> Parsed(expr_print(ShownIf(t, m), "E_NONE"))]
    IN  \A v \in Valuations : \A m \in DOMAIN t.menus :
          expr_calc_value(printed[m], v) = expr_calc_value(ShownIf(t, m), v)

Balanced(flat) ==
  /\ \A i \in DOMAIN flat : Count(flat, 1, i, EndStatements) <= Count(flat, 1, i, Openers)
  /\ Count(flat, 1, Len(flat), EndStatements) = Count(flat, 1, Len(flat), Openers)
EndOfBlock(flat, i) ==
  CHOOSE j \in i + 1 .. Len(flat) :
    /\ Count(flat, i, j, EndStatements) = Count(flat, i, j, Openers)
    /\ \A n \in i .. j - 1 : Count(flat, i, n, EndStatements) < Count(flat, i, n, Openers)
BeginOf(flat, i) ==
  IF flat[i].k # "if" THEN i
  ELSE CHOOSE j \in i + 1 .. Len(flat) :
         /\ flat[j].k # "blank"
         /\ \A n \in i + 1 .. j - 1 : flat[n].k = "blank"

(* A text is accepted only if its blocks are nested, and each ends in the  *)
(* file it began in (zconf.tab.c:2163), although the lexer opens and       *)
(* closes files by itself.  The block of an "if" begins where the first    *)
(* line after it is: if that is in the file that sources this one, it is   *)
(* there that it ends.                                                     *)
BlocksNested ==
  JustParsed =>
    LET flat == Flat(RootFile)
    IN  /\ Balanced(flat)
        /\ \A i \in DOMAIN flat : flat[i].k \in Openers =>
             LET end == flat[EndOfBlock(flat, i)]
             IN  /\ end.k = EndOf(flat[i].k)
                 /\ end.in = flat[BeginOf(flat, i)].in

-----------------------------------------------------------------------------
(* conf.                                                                   *)

Finished == stage = "exit 0" /\ mode # "none"

(* When conf has written .config, and also when it found nothing to write, *)
(* no entry that is shown is left for which the user has said nothing      *)
(* (conf.c:612-615, 603): an answer may show entries above and below.      *)
NothingLeftNew ==
  Finished => \A m \in DOMAIN t.menus : menu_is_visible(Now, m) => ~NewEntry(m)

(* Taking the value that is shown, by an empty line or because the mode    *)
(* does not ask, changes no value of any symbol: sym_set_tristate_value    *)
(* keeps what is cached then (symbol.c:458).                               *)
Values(c) == [s \in {s \in Names : c.t.types[s] # "unknown"} |-> Value(c, s)]
Confirmed ==
  \/ Doing("conf", "ask") /\ def'[Sym].v = Value(Now, Sym)
  \/ Doing("conf", "choose") /\ def'[Sym].sel = ChoiceValue(Now, Sym)
ConfirmingChangesNothing ==
  [][Confirmed => Values([t |-> t, def |-> def']) = Values(Now)]_def

(* allyesconfig: "New config where all options are accepted with yes"      *)
(* (src/kconfig/Makefile:53): nothing that could be on is off.             *)
YesMeansYes ==
  Finished /\ mode = "set_yes" /\ file = NoFile =>
    \A m \in DOMAIN t.menus : 
      LET s == SymOf(t, m)
      IN  s \in Free \ t.choicevals /\ menu_is_visible(Now, m) => Tri(Now, s) # 0

(* When check_conf has had the menu of a new entry asked, that entry is    *)
(* not new any more (conf.c:478-487).  Answers are never taken back, so    *)
(* main's loop ends: every pass that is not the last has answered one.     *)
RestartAnswers ==
  Doing("check_conf", "kids") /\ Top.kid = 1 => ~NewEntry(Top.menu)
=============================================================================
