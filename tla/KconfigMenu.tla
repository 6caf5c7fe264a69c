------------------------------ MODULE KconfigMenu ------------------------------
(***************************************************************************)
(* The menu tree the parser builds and menu_finalize reorganises (menu.c), *)
(* with the properties of symbols (prop_alloc).                            *)
(*                                                                         *)
(* A tree t has                                                            *)
(*   menus   its entries, in the order they were added; 1 is rootmenu;     *)
(*   kids    the children of each (the list and next pointers);            *)
(*   props   all properties, in the order they were allocated: those of a  *)
(*           symbol, in this order, are its prop list;                     *)
(*   types, rev_dep, values   of symbols: values of choices only;          *)
(*   optional, choices, choicevals   the symbols with each flag;           *)
(*   entry, menu   current_entry and current_menu.                         *)
(* A choice has no name in the program: here it has one, to tell them      *)
(* apart.  MS is modules_sym.                                              *)
(***************************************************************************)
EXTENDS KconfigExpr, SequencesExt

MS == "MODULES_SYM"
NoSym  == "none"
NoProp == 0
Root   == 1

Put2(f, k, v) == [f EXCEPT ![k] = v]

prop_alloc(t, type, sym, expr, dep, entry) ==
  [t EXCEPT !.props = Append(@, [type |-> type, sym |-> sym, menu |-> entry,
                                 expr |-> expr, visible |-> dep])]
PropsOf(t, s) == SelectSeq([i \in DOMAIN t.props |-> i], LAMBDA i : t.props[i].sym = s)
PropsOfType(t, s, types) ==
  SelectSeq(PropsOf(t, s), LAMBDA i : t.props[i].type \in types)
Prompts == {"P_PROMPT", "P_MENU", "P_COMMENT"}

(* rootmenu, and the symbol that says whether modules are enabled.         *)
menu_init(Names) ==
  [menus |-> <<[sym |-> NoSym, parent |-> 0, dep |-> NULL, prompt |-> 1, file |-> NoSym]>>,
   kids |-> <<<<>>>>,
   props |-> <<[type |-> "P_MENU", sym |-> NoSym, menu |-> Root, expr |-> NULL,
                visible |-> NULL]>>,
   types |-> [s \in Names |-> IF s = MS THEN "boolean" ELSE "unknown"],
   rev_dep |-> [s \in Names |-> NULL],
   values |-> [s \in Names |-> <<>>],
   optional |-> {}, choices |-> {}, choicevals |-> {},
   entry |-> Root, menu |-> Root]

menu_add_entry(t, sym, file) ==
  LET n == Len(t.menus) + 1
  IN  [t EXCEPT !.menus = Append(@, [sym |-> sym, parent |-> t.menu, dep |-> NULL,
                                     prompt |-> NoProp, file |-> file]),
                !.kids  = Append(Put2(@, t.menu, Append(@[t.menu], n)), <<>>),
                !.entry = n]
menu_add_menu(t) == [t EXCEPT !.menu = t.entry]
menu_end_menu(t) == [t EXCEPT !.menu = t.menus[t.menu].parent]

(* A plain 'm' is 'm' && MODULES.                                          *)
RECURSIVE menu_check_dep(_)
menu_check_dep(e) ==
  CASE e.type = "E_NOT" -> Not(menu_check_dep(e.left))
    [] e.type \in Junctions -> Two(e.type, menu_check_dep(e.left), menu_check_dep(e.right))
    [] e = Symbol("m") -> expr_alloc_and(e, Symbol(MS))
    [] OTHER -> e

menu_add_dep(t, e) ==
  [t EXCEPT !.menus[t.entry].dep = expr_alloc_and(@, menu_check_dep(e))]

(* The first type a symbol is given stays.                                 *)
menu_set_type(t, s, type) ==
  IF t.types[s] = "unknown" THEN [t EXCEPT !.types[s] = type] ELSE t

menu_add_prop(t, type, expr, dep) ==
  prop_alloc(t, type, t.menus[t.entry].sym, expr, menu_check_dep(dep), t.entry)
menu_add_prompt(t, type, dep) ==
  LET added == menu_add_prop(t, type, NULL, dep)
  IN  [added EXCEPT !.menus[t.entry].prompt = Len(added.props)]
menu_add_symbol(t, type, s, dep) == menu_add_prop(t, type, Symbol(s), dep)

menu_add_option(t, what) ==
  IF what = "modules"
  THEN prop_alloc(t, "P_DEFAULT", MS, Symbol(t.menus[t.entry].sym), NULL, 0)
  ELSE t

-----------------------------------------------------------------------------
(* menu_finalize.                                                          *)

PromptVisible(t, m) == t.props[t.menus[m].prompt].visible
IsChoiceMenu(t, m)  == t.menus[m].sym \in t.choices
SymOf(t, m)         == t.menus[m].sym

(* What an entry is shown for: its prompt's condition, else its own.       *)
ShownIf(t, m) == IF t.menus[m].prompt # NoProp THEN PromptVisible(t, m) ELSE t.menus[m].dep

(* A choice and its first value take their types from each other.          *)
ChoiceType(t, m) ==
  LET withSym == SelectSeq(t.kids[m], LAMBDA k : SymOf(t, k) # NoSym)
  IN  IF ~IsChoiceMenu(t, m) \/ withSym = <<>> THEN t
      ELSE LET c == SymOf(t, m)
               v == SymOf(t, Head(withSym))
               u == menu_set_type(t, c, t.types[v])
           IN  menu_set_type(u, v, u.types[c])

(* The condition children inherit.                                         *)
ParentDep(t, m) == IF IsChoiceMenu(t, m) THEN Symbol(SymOf(t, m)) ELSE ShownIf(t, m)

Simplified(t, base, e) == expr_eliminate_dups(expr_alloc_and(base, expr_transform(e, t.types)), t.types)

(* A property of entry k gets the condition of k; select adds to the       *)
(* lower limit of what it selects.                                         *)
LastSelects(t, k, p, vis) ==
  LET u == [t EXCEPT !.props[p].visible = vis]
  IN  IF t.props[p].type # "P_SELECT" THEN u
      ELSE [u EXCEPT !.rev_dep[t.props[p].expr.sym] = expr_alloc_and(Symbol(SymOf(t, k)), vis)]
VisibleIf(t, k, p, vis) ==
  LET u == [t EXCEPT !.props[p].visible = vis]
  IN  IF t.props[p].type # "P_SELECT" THEN u
      ELSE [u EXCEPT !.rev_dep[t.props[p].expr.sym] =
                        expr_alloc_or(@, expr_alloc_and(Symbol(SymOf(t, k)), vis))]
ForSymbol(t, s, dep) ==
  IF s # NoSym /\ t.types[s] # "tristate" THEN expr_trans_bool(dep, t.types) ELSE dep
InheritProp(t, k, p) ==
  VisibleIf(t, k, p, ForSymbol(t, SymOf(t, k), 
                               Simplified(t, t.menus[k].dep, t.props[p].visible)))
Inherit(t, parentdep, k) ==
  LET u   == [t EXCEPT !.menus[k].dep = Simplified(t, parentdep, @)]
      its == SelectSeq([i \in DOMAIN t.props |-> i], LAMBDA i : t.props[i].menu = k)
  IN  FoldLeft(LAMBDA acc, p : InheritProp(acc, k, p), u, its)

(* May sibling k become part of the menu of symbol s, shown if basedep?    *)
ComparedToNo(t, e) == expr_eliminate_dups(expr_transform(expr_trans_compare(e, "E_UNEQUAL"), t.types), t.types)
Mentioning(t, s, basedep, k) == expr_contains_symbol(ShownIf(t, k), s)
Adoptable(t, s, basedep, k) ==
  /\ expr_contains_symbol(ShownIf(t, k), s)
  /\ \/ expr_depends_symbol(ShownIf(t, k), s)
     \/ expr_is_yes(expr_eliminate_eq(ComparedToNo(t, ShownIf(t, k)), basedep)[2])

Position(t, m) ==
  LET among == t.kids[t.menus[m].parent]
  IN  CHOOSE i \in DOMAIN among : among[i] = m

(* A child without a prompt that has children is replaced by them.         *)
RECURSIVE Splice(_, _, _)
Splice(t, m, i) ==
  IF i > Len(t.kids[m]) THEN t
  ELSE LET k    == t.kids[m][i]
           c    == SymOf(t, m)
           s    == SymOf(t, k)
           chosen == IF ~IsChoiceMenu(t, m) \/ s = NoSym THEN t
                     ELSE menu_set_type(
                            [prop_alloc(t, "P_CHOICE", s, Symbol(c), NULL, k)
                               EXCEPT !.choicevals = @ \cup {s},
                                      !.values[c]  = Append(@, s)],
                            s, t.types[c])
           grand == t.kids[k]
       IN  IF grand = <<>> \/ t.menus[k].prompt # NoProp THEN Splice(chosen, m, i + 1)
           ELSE Splice([chosen EXCEPT
                          !.menus   = [x \in DOMAIN @ |->
                                         IF x \in Range(grand)
                                         THEN [@[x] EXCEPT !.parent = m] ELSE @[x]],
                          !.kids[m] = SubSeq(@, 1, i) \o grand \o SubSeq(@, i + 1, Len(@)),
                          !.kids[k] = <<>>],
                       m, i + 1)

(* A choice that is not optional cannot be n while it is visible.          *)
Mandatory(t, m) ==
  LET s == SymOf(t, m)
  IN  IF s = NoSym \/ s \in t.optional \/ t.menus[m].prompt = NoProp THEN t
      ELSE [t EXCEPT !.rev_dep[s] =
              expr_alloc_or(@, expr_alloc_and(PromptVisible(t, m), Symbol("m")))]

RECURSIVE menu_finalize(_, _), AdoptFrom(_, _, _, _)

(* The siblings from position i on that belong into the menu of m, each    *)
(* finalized in its turn; ends with <<the tree, the first that does not>>. *)
AdoptFrom(t, m, basedep, i) ==
  LET among == t.kids[t.menus[m].parent]
  IN  IF i > Len(among) \/ ~Adoptable(t, SymOf(t, m), basedep, among[i]) THEN <<t, i>>
      ELSE AdoptFrom(menu_finalize(t, among[i]), m, basedep, i + 1)
MovedAndLost(t, m, end) ==
  LET parent == t.menus[m].parent
      at     == Position(t, m)
      all    == t.kids[parent]
  IN  [t EXCEPT !.kids[m]      = SubSeq(all, at + 1, end - 1),
                !.kids[parent] = SubSeq(all, 1, at) \o SubSeq(all, end + 1, Len(all))]
Moved(t, m, end) ==
  LET parent == t.menus[m].parent
      at     == Position(t, m)
      all    == t.kids[parent]
      mine   == SubSeq(all, at + 1, end - 1)
  IN  [t EXCEPT !.kids[m]      = mine,
                !.kids[parent] = SubSeq(all, 1, at) \o SubSeq(all, end, Len(all)),
                !.menus = [x \in DOMAIN @ |-> IF x \in Range(mine)
                                              THEN [@[x] EXCEPT !.parent = m] ELSE @[x]]]
MovedTo(m, r) == Moved(r[1], m, r[2])
Adopt(t, m) ==
  LET base == ComparedToNo(t, IF t.menus[m].prompt = NoProp THEN NULL ELSE PromptVisible(t, m))
  IN  MovedTo(m, AdoptFrom(t, m, base, Position(t, m) + 1))

RECURSIVE FinalizeFrom(_, _, _)
FinalizeFrom(t, m, i) ==
  IF i > Len(t.kids[m]) THEN t
  ELSE FinalizeFrom(menu_finalize(t, t.kids[m][i]), m, i + 1)

InheritAll(t, m) ==
  FoldLeft(LAMBDA acc, k : Inherit(acc, ParentDep(t, m), k), t, t.kids[m])
menu_finalize(t, m) ==
  LET settled == IF t.kids[m] # <<>> THEN FinalizeFrom(InheritAll(ChoiceType(t, m), m), m, 1)
                 ELSE IF SymOf(t, m) # NoSym THEN Adopt(t, m)
                 ELSE t
  IN  Mandatory(Splice(settled, m, 1), m)
=============================================================================
