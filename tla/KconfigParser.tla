----------------------------- MODULE KconfigParser -----------------------------
(***************************************************************************)
(* Reading Kconfig files: conf_parse with the statements of the grammar    *)
(* (zconf.tab.c), the include stack and the help texts of the scanner      *)
(* (lex.zconf.c).                                                          *)
(*                                                                         *)
(* Text is a set of files, each a sequence of lines; a line is a record    *)
(* with the keyword k, what follows it, and its indentation.  The parser   *)
(* reads one token ahead only after "if", so an if block begins where the  *)
(* next statement does.  Any error makes conf_parse exit at its end: from  *)
(* the first one on, the result is "rejected".                             *)
(***************************************************************************)
EXTENDS KconfigMenu

CONSTANTS Names,    \* all symbol names, those of choices and y, m, n
          RootFile  \* the file conf_parse is called with

VARIABLES text,     \* file name -> its lines
          open,     \* the files being read: <<[file, at]>>, current_file last
          scanned,  \* files read to their end
          blocks,   \* the blocks not yet ended: <<[kind, file]>>, innermost last
          context,  \* the kind of entry whose options may follow
          pending,  \* the condition of an "if" whose block has not begun yet
          help,     \* the help text being read: [first, lines], or NoHelp
          t,        \* the tree
          result,   \* "reading", "rejected", "parsed" (finalized)
          cycles    \* symbols at which a recursive dependency was reported
parseVars == <<text, open, scanned, blocks, context, pending, help, t, result, cycles>>

NoHelp == [first |-> -1, lines |-> -1]
NoIf   == [type |-> "no if"]

-----------------------------------------------------------------------------
(* Files.                                                                  *)
Reading     == result = "reading" /\ open # <<>>
CurrentFile == Last(open).file
AtEnd       == Last(open).at > Len(text[CurrentFile])
Line        == text[CurrentFile][Last(open).at]
NextLine    == [open EXCEPT ![Len(open)].at = @ + 1]
Advance     == open' = NextLine /\ UNCHANGED <<text, scanned>>

zconf_initscan ==
  /\ open = <<[file |-> RootFile, at |-> 1]>>
  /\ scanned = {}

Fatal == result' = "rejected" /\ UNCHANGED <<text, open, scanned, blocks, context,
                                             pending, help, t, cycles>>

(* A file may be read once, and not while it is being read.                *)
CanOpen(f) == f \in DOMAIN text /\ f \notin {open[i].file : i \in DOMAIN open} \cup scanned
zconf_nextfile(f) ==
  /\ CanOpen(f)
  /\ open' = Append(NextLine, [file |-> f, at |-> 1])
  /\ UNCHANGED <<text, scanned>>

zconf_endfile ==
  /\ Reading /\ AtEnd
  /\ scanned' = scanned \cup {CurrentFile}
  /\ open' = Front(open)
  /\ help' = NoHelp
  /\ UNCHANGED <<text, blocks, context, pending, t, result, cycles>>

-----------------------------------------------------------------------------
(* Help text: its first line sets the indentation, and it ends before a    *)
(* line with less; the line after "help" is part of it in any case.        *)
Swallowed ==
  /\ help # NoHelp
  /\ \/ Line.k = "blank"
     \/ Line.indent = 0 /\ help.lines = 0
     \/ Line.indent > 0 /\ Line.indent >= help.first
HelpText ==
  /\ Reading /\ ~AtEnd /\ Swallowed
  /\ help' = [first |-> IF help.first = 0 /\ Line.k # "blank" THEN Line.indent ELSE help.first,
              lines |-> help.lines + 1]
  /\ Advance
  /\ UNCHANGED <<blocks, context, pending, t, result, cycles>>

BlankLine ==
  /\ Reading /\ ~AtEnd /\ ~Swallowed
  /\ Line.k = "blank"
  /\ help' = NoHelp
  /\ Advance
  /\ UNCHANGED <<blocks, context, pending, t, result, cycles>>

-----------------------------------------------------------------------------
(* Statements.                                                             *)
Statement(k) == Reading /\ ~AtEnd /\ ~Swallowed /\ Line.k = k

(* The block of an "if" begins with the statement after it; the option     *)
(* list of a menuconfig ends there, and makes its prompt a menu.           *)
MenuconfigEnded ==
  IF context = "menuconfig" /\ t.menus[t.entry].prompt # NoProp
  THEN [t EXCEPT !.props[t.menus[t.entry].prompt].type = "P_MENU"]
  ELSE t
Tree == IF pending = NoIf THEN MenuconfigEnded
        ELSE menu_add_menu(menu_add_dep(menu_add_entry(t, NoSym, CurrentFile), pending))
Blocks == IF pending = NoIf THEN blocks
          ELSE Append(blocks, [kind |-> "if", file |-> CurrentFile])
Innermost == IF Blocks = <<>> THEN "top" ELSE Last(Blocks).kind

(* Menus and choices may not stand directly in a choice.                   *)
Allowed(k) == k \in {"menu", "choice"} => Innermost # "choice"

Entry(kind, tree) ==
  /\ t' = tree /\ context' = kind
  /\ blocks' = Blocks /\ pending' = NoIf /\ help' = NoHelp
  /\ Advance
  /\ UNCHANGED <<result, cycles>>

Config(k) ==
  /\ Statement(k)
  /\ Entry(k, menu_add_entry([Tree EXCEPT !.optional = @ \cup {Line.sym}], Line.sym, CurrentFile))
Comment ==
  /\ Statement("comment")
  /\ Entry("comment", menu_add_prompt(menu_add_entry(Tree, NoSym, CurrentFile), "P_COMMENT", NULL))

Opened(kind, tree) ==
  /\ t' = tree /\ context' = kind
  /\ blocks' = Append(Blocks, [kind |-> kind, file |-> CurrentFile])
  /\ pending' = NoIf /\ help' = NoHelp
  /\ Advance
  /\ UNCHANGED <<result, cycles>>
(* Their options follow, so the children are added once they are over:     *)
(* menu_add_menu is called then, and changes nothing options look at.      *)
Menu ==
  /\ Statement("menu") /\ Allowed("menu")
  /\ Opened("menu", menu_add_menu(
       menu_add_prompt(menu_add_entry(Tree, NoSym, CurrentFile), "P_MENU", NULL)))
Choice ==
  /\ Statement("choice") /\ Allowed("choice")
  /\ Opened("choice", menu_add_menu(menu_add_prop(
       menu_add_entry([Tree EXCEPT !.choices = @ \cup {Line.sym}], Line.sym, CurrentFile),
       "P_CHOICE", NULL, NULL)))

If ==
  /\ Statement("if")
  /\ t' = Tree /\ blocks' = Blocks
  /\ pending' = Line.e
  /\ context' = "none" /\ help' = NoHelp
  /\ Advance
  /\ UNCHANGED <<result, cycles>>

Source ==
  /\ Statement("source")
  /\ zconf_nextfile(Line.file)
  /\ t' = Tree /\ blocks' = Blocks
  /\ pending' = NoIf /\ context' = "none" /\ help' = NoHelp
  /\ UNCHANGED <<result, cycles>>

(* zconf_endtoken: the end of the innermost block, in the same file as     *)
(* current_menu.  A slip: the files are not compared.                      *)
EndOf(kind) == "end" \o kind
EndsAnywhere ==
  /\ Blocks # <<>>
  /\ Line.k = EndOf(Innermost)
zconf_endtoken ==
  /\ Blocks # <<>>
  /\ Line.k = EndOf(Innermost)
  /\ Tree.menus[Tree.menu].file = CurrentFile
EndStatements == {"endmenu", "endchoice", "endif"}
End ==
  /\ Reading /\ ~AtEnd /\ ~Swallowed
  /\ Line.k \in EndStatements
  /\ zconf_endtoken
  /\ t' = menu_end_menu(Tree)
  /\ blocks' = Front(Blocks)
  /\ pending' = NoIf /\ context' = "none" /\ help' = NoHelp
  /\ Advance
  /\ UNCHANGED <<result, cycles>>

-----------------------------------------------------------------------------
(* Options.                                                                *)
OptionsOf ==
  [config     |-> {"type", "prompt", "default", "select", "range", "option", "depends", "help"},
   menuconfig |-> {"type", "prompt", "default", "select", "range", "option", "depends", "help"},
   choice     |-> {"type", "prompt", "default", "optional", "depends", "help"},
   menu       |-> {"depends"}, comment |-> {"depends"}, none |-> {}]
(* A choice is boolean or tristate, and its default is one of its symbols. *)
OptionAllowed ==
  /\ pending = NoIf /\ Line.k \in OptionsOf[context]
  /\ context = "choice" =>
       /\ Line.k = "type" => Line.type \in {"boolean", "tristate"}
       /\ Line.k = "default" => Line.type = "unknown" /\ Line.value.type = "E_SYMBOL"
Option(k, tree) ==
  /\ Statement(k)
  /\ OptionAllowed
  /\ t' = tree
  /\ help' = NoHelp
  /\ Advance
  /\ UNCHANGED <<blocks, context, pending, result, cycles>>

Typed(tree, type) == menu_set_type(tree, tree.menus[tree.entry].sym, type)
Type ==
  Option("type", IF Line.prompt
                 THEN menu_add_prompt(Typed(t, Line.type), "P_PROMPT", Line.e)
                 ELSE Typed(t, Line.type))
Prompt  == Option("prompt", menu_add_prompt(t, "P_PROMPT", Line.e))
(* def_bool and the like also set the type.                                *)
Default ==
  Option("default", Typed(menu_add_prop(t, "P_DEFAULT", Line.value, Line.e), Line.type))
Select  == Option("select", menu_add_symbol(t, "P_SELECT", Line.sym, Line.e))
RangeOf == Option("range", menu_add_prop(t, "P_RANGE", Comp("E_RANGE", Line.lo, Line.hi), Line.e))
Depends == Option("depends", menu_add_dep(t, Line.e))
OptionModules == Option("option", menu_add_option(t, Line.what))
Optional ==
  Option("optional", [t EXCEPT !.optional = @ \cup {t.menus[t.entry].sym}])
Help ==
  /\ Statement("help")
  /\ OptionAllowed
  /\ help' = [first |-> 0, lines |-> 0]
  /\ Advance
  /\ UNCHANGED <<blocks, context, pending, t, result, cycles>>

(* Whatever else is an error, and so is a block without an end.            *)
Accepted ==
  CASE Line.k \in {"blank", "config", "menuconfig", "comment", "if"} -> TRUE
    [] Line.k \in {"menu", "choice"} -> Allowed(Line.k)
    [] Line.k \in EndStatements      -> zconf_endtoken
    [] Line.k = "source"             -> CanOpen(Line.file)
    [] OTHER                         -> OptionAllowed
SyntaxError ==
  /\ Reading /\ ~AtEnd /\ ~Swallowed
  /\ ~Accepted
  /\ Fatal
UnexpectedEnd ==
  /\ result = "reading" /\ open = <<>>
  /\ blocks # <<>> \/ pending # NoIf
  /\ Fatal

-----------------------------------------------------------------------------
(* sym_check_deps: a depth-first search along what a symbol's value is     *)
(* calculated from, with the flags SYMBOL_CHECK (on) and SYMBOL_CHECKED    *)
(* (seen).  s is [on, seen, found, reports]; found is the symbol a cycle   *)
(* was found at, until the search is back at it.                           *)
Uses(tree, s) ==
  LET of(i) == LET p == tree.props[i]
               IN  IF p.type \in {"P_CHOICE", "P_SELECT"} THEN <<>>
                   ELSE <<p.visible>> \o
                        (IF p.type = "P_DEFAULT" /\ s \notin tree.choices THEN <<p.expr>> ELSE <<>>)
  IN  <<tree.rev_dep[s]>> \o FlattenSeq([i \in DOMAIN PropsOf(tree, s) |-> of(PropsOf(tree, s)[i])])
RECURSIVE SymbolsInOrder(_)
SymbolsInOrder(e) ==
  CASE e.type = "NULL"        -> <<>>
    [] e.type = "E_SYMBOL"    -> <<e.sym>>
    [] e.type \in Comparisons -> <<e.sym, e.with>>
    [] e.type = "E_NOT"       -> SymbolsInOrder(e.left)
    [] e.type \in Junctions   -> SymbolsInOrder(e.left) \o SymbolsInOrder(e.right)

RECURSIVE sym_check_deps(_, _, _), sym_check_each(_, _, _)
sym_check_each(tree, s, syms) ==
  IF syms = <<>> \/ s.found # NoSym THEN s
  ELSE sym_check_each(tree, sym_check_deps(tree, s, Head(syms)), Tail(syms))
CheckSeenFirst(tree, s, x) ==
  IF x \in s.seen THEN s
  ELSE IF x \in s.on THEN [s EXCEPT !.found = x, !.reports = @ \cup {x}]
  ELSE LET next == FlattenSeq([i \in DOMAIN Uses(tree, x) |-> SymbolsInOrder(Uses(tree, x)[i])])
           r == sym_check_each(tree, [s EXCEPT !.on = @ \cup {x}, !.seen = @ \cup {x}], next)
       IN  [r EXCEPT !.on = @ \ {x}, !.found = IF @ = x THEN NoSym ELSE @]
sym_check_deps(tree, s, x) ==
  IF x \in s.on THEN [s EXCEPT !.found = x, !.reports = @ \cup {x}]
  ELSE IF x \in s.seen THEN s
  ELSE LET next == FlattenSeq([i \in DOMAIN Uses(tree, x) |-> SymbolsInOrder(Uses(tree, x)[i])])
           r == sym_check_each(tree, [s EXCEPT !.on = @ \cup {x}, !.seen = @ \cup {x}], next)
       IN  [r EXCEPT !.on = @ \ {x}, !.found = IF @ = x THEN NoSym ELSE @]
RECURSIVE CheckAll(_, _, _)
CheckAll(tree, s, todo) ==
  IF todo = {} THEN s.reports
  ELSE LET x == CHOOSE x \in todo : TRUE
       IN  CheckAll(tree, sym_check_deps(tree, [s EXCEPT !.found = NoSym], x), todo \ {x})

(* The end of conf_parse.                                                  *)
WithModules(tree) ==
  IF PropsOf(tree, MS) # <<>> THEN tree
  ELSE prop_alloc(tree, "P_DEFAULT", MS, Symbol("MODULES"), NULL, 0)
EndInput ==
  /\ result = "reading" /\ open = <<>>
  /\ blocks = <<>> /\ pending = NoIf
  /\ t' = menu_finalize(WithModules(MenuconfigEnded), Root)
  /\ cycles' = CheckAll(t', [on |-> {}, seen |-> {}, found |-> NoSym, reports |-> {}], Names)
  /\ result' = "parsed"
  /\ UNCHANGED <<text, open, scanned, blocks, context, pending, help>>

ParseInit ==
  /\ zconf_initscan
  /\ blocks = <<>> /\ context = "none" /\ pending = NoIf /\ help = NoHelp
  /\ t = menu_init(Names)
  /\ result = "reading" /\ cycles = {}

Statements ==
  \/ Config("config") \/ Config("menuconfig") \/ Comment \/ Menu \/ Choice
  \/ If \/ Source \/ End
Options ==
  \/ Type \/ Prompt \/ Default \/ Select \/ RangeOf \/ Depends
  \/ OptionModules \/ Optional \/ Help
ParseNext ==
  \/ Statements \/ Options \/ HelpText \/ BlankLine \/ zconf_endfile
  \/ SyntaxError \/ UnexpectedEnd \/ EndInput
=============================================================================
