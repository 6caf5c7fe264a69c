------------------------------- MODULE AutoConf -------------------------------
(***************************************************************************)
(* Publishing the configuration to a build (conf -s, and conf without an   *)
(* option: conf_write_autoconf and conf_split_config of confdata.c).  The  *)
(* program compares every symbol with include/config/auto.conf, touches    *)
(* the stamp file of each one that differs, and then renames the new       *)
(* header and, last, the new auto.conf into place; it may fail or be       *)
(* killed between any two steps.                                           *)
(*                                                                         *)
(* The build is external, that of the kbuild the code is written for: it   *)
(* runs conf -s unless auto.conf is newer than .config, and compiles the   *)
(* objects that are older than a stamp they use.                           *)
(*                                                                         *)
(* A configuration gives each option a value: No for a boolean that is n,  *)
(* Unset for a symbol without SYMBOL_WRITE.  A file that is missing says   *)
(* the same as an empty one: every option is Unset.                        *)
(***************************************************************************)
EXTENDS Naturals, Sequences

CONSTANTS
  Options,  \* the symbols with a name
  Possible, \* Possible[o]: the values o can have
  No, Unset,
  Path,     \* Path[o]: the directories its stamp is in, the outermost first
  Objects,  \* what the build makes
  Uses      \* Uses[x]: the options object x is compiled with

Settings == (UNION {Possible[o] : o \in Options}) \cup {Unset}
Dirs == UNION {{Path[o][i] : i \in DOMAIN Path[o]} : o \in Options}

ASSUME AutoAssumption ==
  /\ No # Unset
  /\ Uses \in [Objects -> SUBSET Options]

VARIABLES
  value,   \* what conf makes of .config
  auto,    \* include/config/auto.conf
  header,  \* include/linux/autoconf.h
  current, \* is auto.conf newer than .config
  dirs,    \* the directories in include/config
  pc,      \* where conf -s is
  mem,     \* the values it has read and calculated
  todo,    \* the options conf_split_config has still to compare
  make,    \* what the build is doing
  fresh,   \* fresh[x]: x is newer than the stamps of the options it uses
  built,   \* built[x]: what the header said when x was compiled
  raced    \* history: .config was written while conf -s was running

confVars == <<auto, header, dirs, mem, todo>>
vars == <<value, current, confVars, pc, make, fresh, built, raced>>

Configs == {v \in [Options -> Settings] :
              \A o \in Options : v[o] \in Possible[o]}

(* What the files say of a configuration: 'no' is not saved.               *)
Empty    == [o \in Options |-> Unset]
Lines(v) == [o \in Options |-> IF v[o] = No THEN Unset ELSE v[o]]

-----------------------------------------------------------------------------
(* Another program saves .config, at any moment.                           *)
Edit ==
  /\ value' \in Configs \ {value}
  /\ current' = FALSE
  /\ raced' = (raced \/ pc # "off")
  /\ UNCHANGED <<confVars, pc, make, fresh, built>>

(* conf -s reads .config and, if that leaves symbols open, asks for them   *)
(* and saves it; conf_split_config then reads auto.conf.                   *)
Begin ==
  /\ pc = "off" /\ pc' = "split"
  /\ mem' = value
  /\ \E asked \in BOOLEAN : current' = (current /\ ~asked)
  /\ todo' = Options
  /\ UNCHANGED <<value, auto, header, dirs, fresh, built, raced>>

by_hand == make = "off" /\ Begin /\ UNCHANGED make

(* Does o have to be touched?                                              *)
(* Slips: only what is set counts; everything counts.                      *)
SetOnly(o) == mem[o] \notin {Unset, No} /\ mem[o] # auto[o]
AlwaysSo(o) == mem[o] # auto[o] \/ mem[o] = No
Differs(o) ==
  \/ mem[o] # Unset /\ auto[o] # Unset /\ mem[o] # auto[o]
  \/ mem[o] \notin {Unset, No} /\ auto[o] = Unset
  \/ mem[o] = Unset /\ auto[o] # Unset

keep(o) ==
  /\ pc = "split" /\ o \in todo /\ ~Differs(o)
  /\ todo' = todo \ {o}
  /\ UNCHANGED <<value, current, auto, header, dirs, pc, mem, make, fresh, built, raced>>

Missing(o) == {i \in DOMAIN Path[o] : Path[o][i] \notin dirs}

(* mkdir, after stat has found that there is no such directory.            *)
(* A slip: without stat, it fails if there is one.                         *)
MkdirAll(o) ==
  /\ pc = "split" /\ o \in todo /\ Differs(o)
  /\ Missing(o) = DOMAIN Path[o] /\ Path[o] # <<>>
  /\ dirs' = dirs \cup {Path[o][i] : i \in DOMAIN Path[o]}
  /\ UNCHANGED <<value, current, auto, header, pc, mem, todo, make, fresh, built, raced>>
make_dir(o) ==
  /\ pc = "split" /\ o \in todo /\ Differs(o)
  /\ \E i \in Missing(o) :
       /\ \A j \in Missing(o) : i <= j
       /\ dirs' = dirs \cup {Path[o][i]}
  /\ UNCHANGED <<value, current, auto, header, pc, mem, todo, make, fresh, built, raced>>

touch(o) ==
  /\ pc = "split" /\ o \in todo /\ Differs(o) /\ Missing(o) = {}
  /\ todo' = todo \ {o}
  /\ fresh' = [x \in Objects |-> fresh[x] /\ o \notin Uses[x]]
  /\ UNCHANGED <<value, current, auto, header, dirs, pc, mem, make, built, raced>>

conf_split_config == \E o \in Options : keep(o) \/ make_dir(o) \/ touch(o)

(* .tmpconfig and .tmpconfig.h are written only now, and afresh.           *)
(* A slip: the stamps are left for later.                                  *)
WriteAtOnce ==
  /\ pc = "split" /\ pc' = "header"
  /\ UNCHANGED <<value, current, confVars, make, fresh, built, raced>>
write_files ==
  /\ pc = "split" /\ todo = {} /\ pc' = "header"
  /\ UNCHANGED <<value, current, confVars, make, fresh, built, raced>>

rename_header ==
  /\ pc = "header" /\ pc' = "auto"
  /\ header' = Lines(mem)
  /\ UNCHANGED <<value, current, auto, dirs, mem, todo, make, fresh, built, raced>>

(* "This must be the last step": auto.conf is now the newest file.         *)
rename_auto ==
  /\ pc = "auto" /\ pc' = "off"
  /\ auto' = Lines(mem)
  /\ current' = TRUE
  /\ mem' = Empty
  /\ make' = IF make = "sync" THEN "compile" ELSE make
  /\ UNCHANGED <<value, header, dirs, todo, fresh, built, raced>>

conf_write_autoconf == conf_split_config \/ write_files \/ rename_header \/ rename_auto

(* A system call fails, and conf exits with an error, or it is killed; the *)
(* build ends with it.                                                     *)
Trouble ==
  /\ pc # "off" /\ pc' = "off"
  /\ mem' = Empty /\ todo' = {}
  /\ make' = "off"
  /\ UNCHANGED <<value, current, auto, header, dirs, fresh, built, raced>>

-----------------------------------------------------------------------------
(* The build.                                                              *)
MakeStart ==
  /\ make = "off" /\ pc = "off"
  /\ IF current
     THEN /\ make' = "compile"
          /\ UNCHANGED <<value, current, confVars, pc, fresh, built, raced>>
     ELSE make' = "sync" /\ Begin

Compile(x) ==
  /\ make = "compile" /\ ~fresh[x]
  /\ built' = [built EXCEPT ![x] = [o \in Uses[x] |-> header[o]]]
  /\ fresh' = [fresh EXCEPT ![x] = TRUE]
  /\ UNCHANGED <<value, current, confVars, pc, make, raced>>

(* All is made, or the build is stopped.                                   *)
MakeEnd ==
  /\ make = "compile" /\ make' = "off"
  /\ UNCHANGED <<value, current, confVars, pc, fresh, built, raced>>

-----------------------------------------------------------------------------
Init ==
  /\ value \in Configs
  /\ auto = Empty /\ header = Empty /\ current = FALSE
  /\ dirs = {}
  /\ pc = "off" /\ mem = Empty /\ todo = {}
  /\ make = "off"
  /\ fresh = [x \in Objects |-> FALSE]
  /\ built = [x \in Objects |-> [o \in Uses[x] |-> Unset]]
  /\ raced = FALSE

Building == (\E x \in Objects : Compile(x)) \/ (MakeEnd /\ \A x \in Objects : fresh[x])

Next ==
  \/ Edit \/ by_hand \/ conf_write_autoconf \/ Trouble
  \/ MakeStart \/ (\E x \in Objects : Compile(x)) \/ MakeEnd

(* conf gets on, and the build is run again and again to its end.          *)
Spec ==
  /\ Init /\ [][Next]_vars
  /\ WF_vars(conf_write_autoconf)
  /\ WF_vars(MakeStart) /\ WF_vars(Building)

-----------------------------------------------------------------------------
TypeOK ==
  /\ value \in Configs
  /\ auto \in [Options -> Settings]
  /\ header \in [Options -> Settings]
  /\ mem \in Configs \cup {Empty}
  /\ current \in BOOLEAN /\ raced \in BOOLEAN
  /\ dirs \subseteq Dirs /\ todo \subseteq Options
  /\ pc \in {"off", "split", "header", "auto"}
  /\ make \in {"off", "sync", "compile"}
  /\ fresh \in [Objects -> BOOLEAN]
  /\ built \in [Objects -> UNION {[S -> Settings] : S \in SUBSET Options}]
  /\ \A x \in Objects : built[x] \in [Uses[x] -> Settings]

AsIn(x, file) == \A o \in Uses[x] : built[x][o] = file[o]

(* An object that is up to date by the stamps was compiled with the values *)
(* .config has, once auto.conf is newer than it: also after conf has       *)
(* failed or was killed with some of the stamps touched, or between its    *)
(* two renames (confdata.c:790-803), and when an edit is taken back then.  *)
(* Unless .config was written while conf was running: then auto.conf is    *)
(* the newer file, does not know of it, and a kill of the next conf -s may *)
(* leave the header and auto.conf at odds with nobody to notice.           *)
UpToDateIsRight ==
  current /\ ~raced => \A x \in Objects : fresh[x] => AsIn(x, Lines(value))

(* Why: such an object was compiled as auto.conf says, at any time, and    *)
(* conf has touched what differs from it before it renames.                *)
Compared(o) == pc # "split" \/ o \notin todo
Touched ==
  \A o \in Options : Compared(o) /\ auto[o] # Lines(mem)[o] =>
    \A x \in Objects : o \in Uses[x] => ~fresh[x]
Agreement ==
  /\ \A x \in Objects : fresh[x] => AsIn(x, auto)
  /\ current => auto = Lines(value) /\ header = auto
  /\ make = "compile" => header = auto
  /\ pc # "off" => mem = value /\ Touched
  /\ pc = "auto" => header = Lines(mem)
AutoInv ==
  /\ TypeOK
  /\ make = "compile" => pc = "off"
  /\ ~raced => Agreement

(* What the stamps are for (confdata.c:575-680): nothing is compiled again *)
(* unless an option it uses has another value than auto.conf says, or has  *)
(* appeared or gone.                                                       *)
OnlyChangedRebuilt ==
  [][\A x \in Objects : fresh[x] /\ ~fresh'[x] =>
       \E o \in Uses[x] : auto[o] # Lines(mem)[o]]_vars

(* If .config is left alone and no call fails, the build comes to where    *)
(* every object is up to date and right, and stays there, whatever partial *)
(* work earlier failures have left: stamps, directories, a header.         *)
Settled == \A x \in Objects : fresh[x] /\ AsIn(x, Lines(value))
BuildSettles ==
  \/ []<><<Edit \/ Trouble \/ by_hand>>_vars
  \/ []<><<MakeEnd /\ ~\A x \in Objects : fresh[x]>>_vars
  \/ <>[](raced \/ Settled)
=============================================================================
