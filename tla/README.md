# Verification of i486tcc-linux

TLA+ models of the programs of this repository that hold state and make decisions: kconfig, which
reads a language of options, keeps a configuration and asks for it, and the scripts that turn a
configuration into a bootable system.  TLC checks them on small instances; TLAPS proves what matters
most for every instance.  Source paths are below `src/`; `PROJECT.json` maps every definition to the
lines it models.

    tlc -config KconfigChoice.cfg MCKconfig      # and the other .cfg files, see "Runs"
    tlapm KconfigCache_proofs.tla                # and the other *_proofs.tla

## The system

| component | state | operations | hard behaviour |
|---|---|---|---|
| lexer and parser (`kconfig/lex.zconf.c`, `zconf.tab.c`) | stack of files, open blocks, the current entry | statements, `source`, help texts, end of input | help ends by indentation; blocks must end in the file they began in |
| expression simplifier (`kconfig/expr.c`) | expression trees, rewritten in place | `expr_transform`, `expr_eliminate_dups`, `expr_eliminate_eq`, `expr_trans_compare`, `expr_print` | rules that hold only for some types of symbols |
| menu construction (`kconfig/menu.c`) | tree of entries, properties of symbols | `menu_add_*`, `menu_finalize` | dependencies are handed down, selects collected, entries adopted by the one before |
| symbol table (`kconfig/symbol.c`) | per symbol: cached value, visibility, lower bound, flags VALID, DEF_USER, WRITE; the user's answer; `modules_val`; `sym_change_count` | `sym_calc_value`, `sym_calc_choice`, `sym_set_*`, `sym_clear_all_valid` | a cache with global invalidation, filled in whatever order is asked; choices and their values depend on each other |
| reading and writing (`kconfig/confdata.c`) | user answers, counters of warnings | `conf_read_simple`, `conf_read`, `conf_write` | reading starts evaluating before it has finished; what was written must come back |
| saving to disk (`conf_write`) | `.config`, `.config.old`, `.tmpconfig.<pid>` | fopen, fprintf, fclose, two renames | several programs, kills between system calls, failing calls |
| autoconf (`confdata.c:575-806`) | stamps in `include/config`, the header, `auto.conf` | `conf_split_config`, `conf_write_autoconf` | `auto.conf` must come last; kills; time stamps |
| line configurator (`kconfig/conf.c`) | mode, position in the menus, `conf_cnt` | ask, answer, start again, write | asks until nothing is new |
| menu configurator (`kconfig/mconf.c`, `lxdialog/`) | stack of menus, list of items, one window with its scrolling | keys, resizing, dialogs | what is on the screen must be what a key acts on |
| incremental build (`scripts/build.sh`, `download.sh`, `create_ramdisk.sh`, `create_root.sh`, `clean.sh`) | files: downloads, markers, images, a loop device | stanzas "if on and marker missing, run these commands" under `set -e` | failures and kills anywhere, reruns, edits in between |
| minimal configuration (`scripts/miniconfig.sh`) | candidate file | drop a line, compare | - |
| boot and shutdown (`local/init`, `rc.init`, `rc.shutdown`, `patches/ubase-killall5-omit-pid.patch`) | processes, mounts, the network block device | signal, sync, remount, halt | the root is served by a process that must outlive the others |
| tests (`tests/*.sh`) | an emulator | poll, retry | timeouts |
| `tools/rdev.c` | a kernel image's header | patch a word | 16-bit arithmetic |

Both configurators parse the Kconfig file once, which simplifies its expressions and builds the menus,
and then call the symbol table for each entry they draw or ask and for each answer.  The
table reads and writes `.config` (`configs/config` here, `menuconfig.sh`), which `build.sh` sources once,
at its start.  `build.sh` calls `download.sh`, `create_ramdisk.sh` and `create_root.sh`; the images contain the
boot and shutdown scripts.  Kconfig and the build therefore meet in files only.  Autoconf is reached by
`make config` (`kconfig/Makefile:14-15`): `conf` without an option publishes what it has written.

What makes each correct: the parsed menus mean what the text says; the cache never shows a value that no
longer follows from the answers; an accepted answer stays; a choice has one value; what is saved comes
back; a save is atomic; the configurators ask for all that is new, and act on what they show; what make
takes for up to date is; a build that ends well has built everything, and can always be started again.

## The modules

`KconfigConf`, with `KconfigChecks`, and `Mconf` compose the parser, the menus, the expressions, the values
and their own control flow; `Mconf` also the four windows.  The cache is in a module of its own.

**Tristate** - `no`, `mod`, `yes`, `E_AND` as minimum, `E_OR` as maximum, for KconfigSymbols.  Dependencies
are there in disjunctive form, which every dependency has, so that evaluation needs no recursion.

**KconfigSymbols** - the symbol table and one configuration file.  The recursion of `sym_calc_value` is
one step per symbol, taken once the symbols it reads (`Deps`) are valid: the calls of the code are one of
the orders this allows, and the properties hold in all.  `conf_read` is `conf_read_simple` (the file's
answers replace the user's), the evaluation of all symbols, one `ReadCheck` for each in any order, and
`conf_read_done`.  `conf_write` is a beginning, evaluation of what is not valid, and an end, for it reads
the cache in between.  `forced` says `sym_clear_all_valid` is calculating `modules_sym`, during which
nothing else runs than the evaluation of what it needs (`ModulesNeeds`).  Without a `.config` the code does
not calculate it first (confdata.c:313), so tristates may be shown, answered and even written as booleans until
something clears the cache.  History variables: `stale` (symbols known to be cached with an input changed behind
them: the three places the code allows it at; `modules_sym` itself if it came after tristates that it changes),
`asked` (the last accepted answer, and whether all that was cached when it was given was right), `reread` (the file
is one `conf_write` made of right values, and whether it has been read since), `mislaid`.
What a menu can offer is `OnScreen`: its items have been calculated when it was drawn (`build_conf`).
The Kconfig file itself is the constants: types, prompts' conditions, selects, defaults and the values of
choices, as `menu_finalize` leaves them.

**ConfSave** - `conf_write` at the level of system calls, for several programs.  A file is its content and
the programs that have it open, so that a rename does not redirect a write.  `conf_read` and `Edit` stand
for the whole of the configurator.  **ConfigStore** is what it promises: one stored configuration,
replaced in single steps by what a program has in memory.

**KconfigTerms** - expressions as trees, and what the functions of `expr.c` do to one node of a tree, given what
they do to those below it (`NodeTransform`, `NodeEq`, `expr_join_or`, ...). **KconfigExpr** ties the recursion
over them (`PROJECT.json` has the lines of each function there), and has what works on a whole tree at once:
`expr_eliminate_dups`, which rewrites through pointers into one tree that are paths here, `expr_extract_eq`, and
printing.

**KconfigMenu** - the tree of entries with the properties of symbols, and `menu_finalize` with what it is
made of: the type of a choice and of its values, dependencies handed down, selects collected into
`rev_dep`, entries adopted by the one before, and when an entry is visible.

**KconfigParser** - a text is a set of files of lines; `conf_parse` is one step per statement, with the
stack of open files (`open`), the open blocks with the file each is ended in (`blocks`, `zconf_endtoken`) and
the help text being skipped.  The end of the input runs `menu_finalize` and `sym_check_deps`.

**KconfigValues** - what `sym_calc_value` computes, as functions of the user's values, with numbers, texts and
ranges, and what an answer, `conf_read` and `conf_write` do to them.  It has no cache: KconfigSymbols shows for
booleans and tristates that the cache holds these values.

**KconfigConf** - `conf.c`: the recursion of `conf` and `check_conf` is a stack of calls, an action is what
happens between two questions.  All eight modes of asking and filling are there, with and without a terminal,
and the end of `main`: check, start again, write.  **KconfigChecks** has the properties; its first part
says what a text means from its lines alone: `Flat` is the text with sourced files in place, each line with the file
it is in, from which the blocks around an entry follow.  **MCConf** has the texts.

**AutoConf** - `conf_split_config` and `conf_write_autoconf`, system call by system call.  Of the times of
files only what is compared is kept: is `auto.conf` newer than `.config` (`current`), an object newer than its
stamps (`fresh`).  The `make` that uses the files is external: it runs
`conf -s` unless `auto.conf` is newer than `.config`, and builds objects older than a stamp they use.

**Lxdialog, MenuBox, CheckList, InputBox, TextBox** - what the dialogs share, and one module for each
window: the program's variables, what is on the screen, the keys, and a resize.  What is on the screen is a
variable apart from what the program believes to be there, as a key redraws only some rows.
**Mconf** - `mconf.c`: the stack of `conf`, `conf_choice`, `conf_string`, `conf_load`, `conf_save` and
`search_conf`, each waiting for a dialog or using what it returned.

**BuildPipeline** - the interpreter of the build: stanzas are data (option, marker file, commands), a
command is the files it needs, must not find, begins, finishes and removes.  A file is missing, cut
short, or whole.  `test` is the two `if`s of a stanza, `command` one of its commands, `refused` a command
that must fail, `abort` one that fails or is killed in its midst, with any part of its effect done,
`unnoticed` one in a pipeline.  **BuildScripts** has the scripts in this form: one stanza of each shape
(cloned and fetched downloads, a plain package, packages that do more after their marker file, the
kernel, the images).

**MCKconfig, MCConfSave, MCConf, MCMconf, MCAutoConf, MCBuild** - instances for TLC.  The `*_proofs` modules
hold the theorems.

Definitions whose comment calls them a slip are wrong forms of the definition after them; `PROJECT.json`
lists under `mutants` which property notices each.

## Runs

| run | instance and bounds | what it shows |
|---|---|---|
| KconfigChoice | a tristate choice of two values, one limited to `m` by a third symbol; five files; five answers, reads and writes | types, cache, choices, answers, and reading back what was written |
| KconfigOptional | an optional boolean choice with a conditional default, a select, defaults, `modules_sym`; four files; four operations | the inductive cache invariant; no `m` without modules; the change counter is zero only when the file is up to date |
| KconfigReload | as KconfigChoice | violation: a saved configuration that is not restored |
| KconfigAnswer | as KconfigOptional | violation: an accepted answer is lost |
| KconfigConf | some 8,800 texts: dependencies, submenus, selects and cycles, blocks in one and two files, help texts; 14 sessions of conf in every mode | the menus mean what the text says; errors are found; conf leaves nothing unasked, and changes nothing by confirming |
| AutoConf | a boolean and a string that may be hidden, two objects, kills and failing calls anywhere | what is up to date is right, only what changed is rebuilt, building again settles |
| Mconf | four texts, every key of every dialog, three heights of the terminal | what is shown is what a key acts on; menus keep their place |
| ConfSaveShared | two programs that rename, two versions, kills and failing fopen and rename | the store is atomic, a backup is kept, no file has two writers |
| ConfSaveDiskFull | writes may fail | violation: a cut file is reported as written |
| BuildAll | all stanzas, one failure, kill, edit or clean-up | success means everything was built |
| BuildRetry | the stanzas others depend on, two of these events, DHCP on or off at first | the content of the root image, the inductive invariant, and that starting again ends in success |
| BuildCompiler | all stanzas | violation: the compiler test passes by failing once |

Bounds.  `MaxOps` counts answers, reads and writes.  Four are enough to answer, save, answer and load again; five
let an answer follow that.  Evaluation steps are not bounded.  Two programs are enough for ConfSave, as
its interactions are pairwise (two writers of one file, two renames), and the theorems are for any
number.  `MaxEvents` counts failures, kills, edits and clean-ups: two let a run stop in a stanza, and the next in
the same or another.  In KconfigConf a text has one or two conditions chosen from all literals and their pairs, or
up to three lines of blocks (two more in a sourced file); `MaxNumber` 12 bounds integers, the ranges tried
being below it.  In Mconf a terminal of 21 lines shows all of a menu, one of 16 makes it scroll, and 7 is too
small for it; `list_height` is 2 instead of 6, `box_width` 2 and `MAX_LEN` 4, so that lists and fields scroll with
three values and two characters; `MaxResizes` is 1, `MaxSelects` 3, `max_hscroll` 1.  The runs of KconfigSymbols and
of ConfSave do not need the deadlock check where `MaxOps` stops them; it is on in the others, and in KconfigConf it
says that no question is left without an answer that leads on.

Fairness: none in KconfigSymbols and ConfSave, whose properties are safety properties.  The build has
weak fairness of a running script getting on (`GetsOn`: commands end, in success or because they must fail) and
of starting it (the user starts it until it succeeds); events are bounded.  `RetrySucceeds` asks for a
configuration whose packages are what the ramdisk is filled from (`Complete`), for no file an aborted run leaves
in the way of the next (`Blocking`: clone directories and the loop device), and for no stanza broken off with its
marker in place (`torn`): in each of these cases the scripts indeed never succeed, or succeed wrongly.  `PROJECT.json`
lists these as hazards that no property covers, with the downloads and pipelines that fail unseen (`torn` in
`SuccessMeansBuilt`) and the packages turned on after root.img exists (left out by `ShippedAll`).  AutoConf has
weak fairness of the program (`conf_write_autoconf`), of the user running make and of make's own steps: programs
that are not killed end.  conf and mconf have none, as the user need not go on; that conf comes to an end is stated
as a safety property instead, `RestartAnswers`: each pass over the menus that is not the last has answered an
entry that was new, and answers are not taken back.

## Theorems

KconfigSymbols, from `KconfigAssumption` (what a parsed Kconfig file looks like) alone, where nothing more is said:

* `TypeCorrect` (KconfigCache_proofs): `TypeOK` is inductive.
* `CacheInvariant`, and from it `CacheCorrect`, `ModulesCorrect`, `ChoiceCorrect` (KconfigCache_proofs).  The
  argument: a cached value was right when calculated, and stays right as long as nothing it reads
  changes.  `sym_calc_value` changes one symbol, and no valid one reads it, as what a valid symbol reads is
  valid (`DepsValid`); an answer that changes a value clears everything; one that does not, changes nothing a
  valid symbol was calculated from.  This last case needs `ValuesOfChoices`: that choice values have no lower
  bound, and an answer to one has been recorded with its choice.  That a choice has one value then follows from
  coherence at its values, and that `m` needs modules from coherence at the symbol.
* `CleanCorrect` (KconfigFiles_proofs), with `CleanInv`: between operations nothing but the property is needed;
  within `conf_read`, that what its loop is through with is saved or counted as a change, and that what it is not
  through with still has the answer of the file (`CheckingInv`); and always, that a value that is not `n` is
  written (`WriteInv`), a choice's values through their choice.
* `AnswerCorrect` (KconfigAnswers_proofs): an answer was accepted by the values of the symbols it is calculated from
  (`Cone`).  None of them reads the answered symbol, for nothing is calculated in a circle (`WellFounded`), so calculating
  them again changes nothing (`Settled`), and the symbol's next value is foretold: it is the answer.  The exception is
  `y` for a value of a choice, whose choice does change, to choose it (`Pending`).  `AnswerInv` says this of the
  last answer.  `Below`, which `Cone` is made of, is the least set closed under what is read, and not a recursion.
* `OrderIrrelevant` (KconfigAnswers_proofs): two states of the program with the same answers have the same entries in the
  cache for every symbol calculated in both, if what is cached is right in both (`AllCoherent`).  So the steps of
  `sym_calc_value` may be taken in any order, that of the code included.  Of the symbols that differ one would read none
  that does (`WellFounded`), and would then have been calculated from equal inputs.  There must be no tristates, or both
  states have the same `modules_val`, or have calculated `MODULES` with `PlainModules` (below).  The primed variables of
  its statement stand for the second state, which need not come after the first; no run states it, as it is about two
  runs.
* `RereadCorrect` (KconfigFiles_proofs), assuming `ChoicesUnread` and `PlainModules`: a file `conf_write` has
  written, read again, gives the values it was written with.  Two invariants.  `FitInv`: at any time, whatever has
  been answered since, a valid value is one its inputs allow for some answer (`Fits`), and so would be the result
  if that value were the answer (`ValueAgain`).  `RereadInv`: the file was written from a table of values `W` that
  fit, of the symbols that were valid then, and while it is read back all of these that are calculated equal `W`
  (`Follows`), because what is read does (`ReadsFile`) and the answer is the file's line, or none if the symbol is
  hidden, where it does not matter.  A choice is the hard case: it has no line, is put together from those of its
  values, and need not become what it was, but it gives each value what the value was (`ChoiceAgain`).
* `BooleanCorrect`, `BooleanAnswers`, `BooleanRestored` (the three modules above), assuming `BooleanKconfig` (no
  tristates, and no choice that may be off), the last also `ChoicesUnread`: what the repository's own Kconfig file is
  like.  What is cached is then right at any time, every accepted answer is the symbol's value, and the settings
  that come back are those saved, without exceptions and history.  What makes the others conditional is
  that `conf_read` drops answers behind the cache and that `modules_sym` may not have been calculated.  Without tristates
  nothing reads `modules_val`; and a boolean choice that is not optional is `y` just if its prompt is visible,
  whatever the answer (`BooleanChoice`), so that dropping one changes no value.  Hence
  every answer is given by right values, and `AnswerInv` applies to all.  For the file it
  remains that reading one that was saved finds no choice inconsistent (`BooleanConsistent`): nothing in it is `m`,
  and at most one value of a choice is set, as it was written from a cache that was right (`BooleanWrites`).  No run has
  such a Kconfig file; the runs of KconfigReload and KconfigAnswer show that the hypothesis is needed.

`ChoicesUnread` says no expression reads a choice: one that was `y` with all its values limited to `m` is `m` when read
again, which such an expression would see.  (A select by a choice value reads the value "and" its choice, which is
the value alone.)  `PlainModules` says no tristate decides `MODULES`, as its value would depend on
`modules_val` before that is known.  The code enforces neither; the Kconfig files of both instances are of this
kind (`RereadAssumption` in MCKconfig), and so is every one in which choices and `MODULES` are used as usual.

ConfSave, assuming `Careful` (nobody overwrites, writes succeed):

* `SaveInvariant`, and from it `OneWriterCorrect`, `WrittenCorrect`: a temporary file belongs to its program and is
  whole once closed, and the other two files have only ever been renamed.
* `BackupCorrect`: the backup is kept, unless two programs rename at once.  `BackupInv` adds to the above what
  holds while a program is between its two renames.
* `SaveImplementsStore`: each step of ConfSave is a step of ConfigStore or a stutter.

BuildPipeline, from `ScriptAssumption` (how a stanza is written), for any number of stanzas, failures
and edits:

* `BuildCorrect`, `SuccessCorrect`: `SuccessMeansBuilt` says nothing of a run under way or broken off.  In
  `BuildInv` a stanza whose marker is in place is finished or being run (`Built`), as long as no stanza up to it
  was broken off after its marker (`Clear`).  That a command is handed whole files then follows: it reads what
  its own stanza has made, which is whole, or what another makes with or after its marker (`Following`), which
  implies that marker (`MarkerFirst`) and so a finished stanza.  `clean` keeps this, for with a marker it keeps all
  that the stanza and the ones before it have made.
* `ShippedCorrect`, with `ImageAssumption` (one stanza, which is always on, fills the image): what the image was
  filled from is what the stanzas before it had made, and these are finished when it is filled.

AutoConf, from `AutoAssumption` (values, stamps and objects), for any set of symbols and values:

* `AutoInvCorrect`, and from it `UpToDateCorrect` and `OnlyChangedCorrect`: an object that is up to date by its stamps
  was compiled as `auto.conf` says, at any time, for the program has touched whatever differs from `auto.conf` before
  it renames; after a kill `auto.conf` is as it was, and the next program does the work again.  All but the types
  is conditional on `.config` not having been written while the program ran (`raced`).

The windows, from `HeightsAssumption`, `NoDataAssumption`, `ListAssumption`, `InputAssumption` and
`TextsAssumption` (sizes are numbers, and boxes not empty), for lists and texts of any length:

* `MenuCorrect`, `ListCorrect`: each row on the screen shows the item at `scroll` plus its number, and one row, that
  of the choice, is lit.  They are inductive with the bounds of `scroll` and `choice`.
* `FocusCorrect`, an action property: a menu opens, and is drawn again, on the entry it was left at, if that is still
  in the list (`ActiveChosen`, from the arithmetic of `Placed` and the bounds above).
* `InputCorrect`, `TextCorrect`, `SidewaysCorrect`.  `page` stands behind the last line shown, and as many lines before
  it as `page_length` says are on the screen.

The simplifier (KconfigTerms_proofs), for expressions of any size, over any symbols:

* `TransformKeeps`, `EliminateYnKeeps`, `TransBoolKeeps`, `TransCompareKeeps`: the value of an expression, for every
  value of its symbols, is that of what the function makes of it.  For `expr_trans_bool` it is whether the value is `n`;
  `expr_trans_compare` needs an expression that negates nothing that is `m` (`NegatesNoModule`), as its rule for `!` is
  wrong otherwise.
  The first two also say what form is left, which the others build on.
* `ExprEqKeeps`, `EliminateEqKeeps`: what `expr_eq` calls equal has one value, and what `expr_eliminate_eq`
  leaves of two expressions differs the way they do, so that a `y` left of the second means that the first
  implies it.  The two call each other, so both are proved at once, for pairs of trees (`PairKept`): what the
  one has taken from both is a term of a common value (`Reduces`).
* `JoinKeeps`, from `JoinOrKeeps` and `JoinAndKeeps`: two terms that `expr_eliminate_dups1` makes one keep their value.

They assume no Kconfig file.  `Trees` says what finite trees are, with a weight that grows from part to whole;
a function of `expr.c` is a function on them that does to every node what KconfigTerms says, which determines it;
`Suits` says that a boolean has no other value than `y` and `n`, and a constant that of its name.  The induction is on the
weight (`TreeInduction`, `PairInduction`), which a negation doubles, as `!(a && b)` becomes the larger
`!a || !b`.  KconfigExpr makes the same definitions recursive for TLC.

TLC evaluates each assumption on the instances.  The theorems exclude, by history variables and conditions named in
the modules, the places the findings below are about.

Only model-checked: all of KconfigChecks and `OnlyTheSeen` of Mconf, as KconfigExpr, KconfigMenu, KconfigParser and
KconfigValues recur over trees with recursive operators, which the prover has no backend for, nor a rule of induction
over data; functions described node by node, as above, get around this for the rules of the simplifier, but not for
`expr_eliminate_dups` as a whole (paths into a tree that changes, and its second pass does have a wrong rule), `expr_extract_eq`
and printing, nor for menus and the parser; `RetrySucceeds` and `BuildSettles`, as liveness under fairness (and ENABLED) is beyond
the prover.

## What the checks found

The violation runs, and `findings` in `PROJECT.json`, say where the program does not do what it or its documents
say; those without a run were met while modelling, and the instance leaves their inputs out.

* Configuration: a saved choice that is not restored, and an answer lost after loading an incomplete file, neither of
  which can happen with a Kconfig file like the repository's own (`BooleanAnswers`, `BooleanRestored`); a full disk
  reported as success; two programs writing one temporary file of `auto.conf`.
* Language: rules of the simplifier that do not hold for `m` (`DependenciesAsWritten` leaves out symbols that are
  both plain and negated); conditions of selects taken as booleans (`SelectsCollected` compares only with `n`);
  entries put below a symbol they merely compare with; a help text that is not indented; a comment that contradicts its
  rewriting rule.
* Submenus: an entry is adopted because it is "only visible if the parent is visible", which is worked out by
  `expr_trans_compare`; that takes `!B != n` for `B = n`, so that with `B` at `m` the entry may be shown below a parent
  that is hidden (`A if B=n`, and below it `if !B && (A || MODULES)`).  `SubmenuBelongs` ranges over all values of all
  symbols for its first reason, and for the second leaves out those at which a symbol the entry's condition
  negates is `m` (`Negates`); without that it is violated.
* Files: an `if` on the last line of a sourced file belongs to the file that sources it.  `BlocksNested` wants every
  block to end in the file it begins in, and has an `if` begin where the first line after it is (`BeginOf`).
* conf: it asks for ever about entries after the first below a choice's value, about tristate choices limited to
  `m`, and about integers without a default; it looks before a line it has not read.
* mconf: rows drawn from another item than the one keys act on, after a resize that refuses the saved scroll; a
  cursor past the end after a resize; a text that jumps; boxes opened for ever, and changes discarded unasked, in a
  terminal too small.
* Build: a compiler test that passes the second time; a loop device that stays attached.

## Not modelled

In kconfig: alternate file names and lists of defaults, lines of a configuration file that name no symbol or one twice; the
tables of flex and bison and their recovery from syntax errors; widths, colours and the timing of ESC; what a search
finds.  In the dialogs: `init_wsize`'s refusal of less than 19 lines by 80 columns when mconf starts (mconf.c:316; the
run starts on some smaller terminals too, which only adds behaviour); the wrapping of prompts (`print_autowrap`), also
over the rows of a list; the copying of an initial value longer than `MAX_LEN` (inputbox.c:55), as `CursorAtEnd` begins
within it; the list of a choice that has no visible value (mconf.c:729-742), which `ListAssumption` leaves out.
A choice is boolean when conf reads a file; with modules off by default, as in the texts of MCConf, `MODULES` is
read before it decides anything, and it depends on no tristate.  The cached half of strings and numbers: KconfigSymbols
has booleans and tristates.

In the build: packages that repeat the shape of one that is modelled; the trimming of the tree in create_root.sh.

Left out as a whole: `miniconfig.sh` (one loop around `make`, and no target of the repository calls it); boot and
shutdown (straight lines of commands whose difficulty is in the kernel, nbd-client and dropbear, which are not in
the repository); the tests and launchers (they type at an emulator); rdev (one word, no state); third-party patches
and configuration data.

## What is left

1. Lines of a configuration file that are broken or repeated, and alternate names, in KconfigValues.
2. The cache of strings and ranges in KconfigSymbols, and an abstract specification that KconfigValues implements.
3. Theorems: every property of the runs the prover can express has one, and so have the rules of the simplifier but for
   `expr_extract_eq`.  What remains is to do with fewer hypotheses: `RereadCorrect` for Kconfig files with expressions that read a choice, and for tristates what the program
   does before `modules_sym` is first calculated.
