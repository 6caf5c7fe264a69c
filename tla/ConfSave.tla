------------------------------- MODULE ConfSave -------------------------------
(***************************************************************************)
(* Writing the configuration file (conf_write of confdata.c): several      *)
(* programs (mconf, conf) may save to the same .config, each may be killed *)
(* between any two system calls, and calls may fail.                       *)
(*                                                                         *)
(* A file is what it holds and the programs that have it open for writing: *)
(* renaming it does not redirect their writes.  The writes between fopen   *)
(* and fclose are buffered and unchecked, so they take effect, or not, at  *)
(* fclose.                                                                 *)
(***************************************************************************)
CONSTANTS
  Procs,     \* the programs; each has a process id of its own
  Overwrite, \* those run with KCONFIG_OVERWRITECONFIG
  Versions,  \* what a configuration may say
  Default,   \* what it says without a file
  Partial,   \* a file not, or not yet, written to its end
  Mixed,     \* a file two programs have written to at once
  NoFile,
  None,
  DiskFull,  \* may writes fail for want of space
  IOErrors   \* may fopen and rename fail

ASSUME SaveAssumption ==
  /\ Overwrite \subseteq Procs
  /\ Default \in Versions
  /\ {Partial, Mixed, None} \cap Versions = {} /\ Partial # Mixed
  /\ DiskFull \in BOOLEAN /\ IOErrors \in BOOLEAN

Contents == Versions \cup {Partial, Mixed}
File     == [ver : Contents, by : SUBSET Procs]
ASSUME NoFileAssumption == NoFile \notin File

VARIABLES
  config, \* the file .config
  old,    \* the file .config.old
  tmp,    \* tmp[p]: the file .tmpconfig.<pid of p>
  pc,     \* pc[p]: where p is in conf_write
  mem,    \* mem[p]: the configuration in the memory of p
  told,   \* told[p]: what the last conf_write of p told the user
  saves,  \* history: the last two versions put in place, the latest first
  mixedup \* history: two programs renamed at once, or a rename failed

vars == <<config, old, tmp, pc, mem, told, saves, mixedup>>

Whole(f) == f # NoFile /\ f.ver \in Versions
Goto(p, from, to) == pc[p] = from /\ pc' = [pc EXCEPT ![p] = to]

-----------------------------------------------------------------------------
(* conf_read(NULL): without a file, the defaults; what is missing from a   *)
(* file that is not whole may be anything.                                 *)
conf_read(p) ==
  /\ Goto(p, "off", "menu")
  /\ \E v \in Versions :
       /\ config = NoFile => v = Default
       /\ Whole(config)   => v = config.ver
       /\ mem' = [mem EXCEPT ![p] = v]
  /\ UNCHANGED <<config, old, tmp, told, saves, mixedup>>

Edit(p) ==
  /\ pc[p] = "menu"
  /\ \E v \in Versions : mem' = [mem EXCEPT ![p] = v]
  /\ UNCHANGED <<config, old, tmp, pc, told, saves, mixedup>>

(* fopen(name, "w") by p: a file already there is cut, and shared with the *)
(* programs that still write to it.                                        *)
Opened(f, p) ==
  IF f = NoFile \/ f.by = {}
  THEN [ver |-> Partial, by |-> {p}]
  ELSE [ver |-> Mixed, by |-> f.by \cup {p}]

(* A slip: one temporary name for all.                                     *)
OpenShared(p) ==
  /\ Goto(p, "menu", "opened")
  /\ tmp' = [q \in Procs |-> Opened(tmp[p], p)]
  /\ told' = [told EXCEPT ![p] = "nothing"]
  /\ UNCHANGED <<config, old, mem, saves, mixedup>>
open_config(p) ==
  /\ Goto(p, "menu", "opened")
  /\ IF p \in Overwrite
     THEN config' = Opened(config, p) /\ UNCHANGED tmp
     ELSE tmp' = [tmp EXCEPT ![p] = Opened(@, p)] /\ UNCHANGED config
  /\ told' = [told EXCEPT ![p] = "nothing"]
  /\ UNCHANGED <<old, mem, saves, mixedup>>

Fail(p, from) ==
  /\ IOErrors
  /\ Goto(p, from, "menu")
  /\ told' = [told EXCEPT ![p] = "not saved"]
  /\ UNCHANGED <<config, old, tmp, mem, saves, mixedup>>

open_fails(p) == Fail(p, "menu")

(* The file p has open, wherever it is by now, when p closes it.           *)
Closed(f, p, written) ==
  IF f # NoFile /\ p \in f.by
  THEN [ver |-> IF written /\ f.ver = Partial THEN mem[p] ELSE f.ver,
        by  |-> f.by \ {p}]
  ELSE f
(* A slip: what was buffered is not written.                               *)
Truncated(p, written) ==
  /\ config' = Closed(config, p, FALSE)
  /\ old'    = Closed(old, p, FALSE)
  /\ tmp'    = [q \in Procs |-> Closed(tmp[q], p, FALSE)]
Close(p, written) ==
  /\ config' = Closed(config, p, written)
  /\ old'    = Closed(old, p, written)
  /\ tmp'    = [q \in Procs |-> Closed(tmp[q], p, written)]

(* fprintf and fclose, whose results are not looked at.                    *)
close_config(p) ==
  /\ IF p \in Overwrite
     THEN /\ Goto(p, "opened", "menu")
          /\ told' = [told EXCEPT ![p] = "written"]
          /\ saves' = <<mem[p], saves[1]>>
     ELSE Goto(p, "opened", "closed") /\ UNCHANGED <<told, saves>>
  /\ \E written \in BOOLEAN : (written \/ DiskFull) /\ Close(p, written)
  /\ UNCHANGED <<mem, mixedup>>

Alone(p) == \A q \in Procs \ {p} : pc[q] # "rotated"

(* rename(".config", ".config.old"), whose result is not looked at either. *)
(* Slips: the old file is removed, or kept in place.                       *)
Unlink(p) ==
  /\ Goto(p, "closed", "rotated")
  /\ config' = NoFile
  /\ UNCHANGED <<old, tmp, mem, told, saves, mixedup>>
KeepOld(p) ==
  /\ Goto(p, "closed", "rotated")
  /\ UNCHANGED <<config, old, tmp, mem, told, saves, mixedup>>
rotate(p) ==
  /\ Goto(p, "closed", "rotated")
  /\ \/ config # NoFile /\ old' = config /\ config' = NoFile
        /\ mixedup' = (mixedup \/ ~Alone(p))
     \/ (config = NoFile \/ IOErrors) /\ UNCHANGED <<config, old>>
        /\ mixedup' = (mixedup \/ ~Alone(p) \/ config # NoFile)
  /\ UNCHANGED <<tmp, mem, told, saves>>

install(p) ==
  /\ Goto(p, "rotated", "menu")
  /\ config' = tmp[p]
  /\ tmp' = [tmp EXCEPT ![p] = NoFile]
  /\ told' = [told EXCEPT ![p] = "written"]
  /\ saves' = <<mem[p], saves[1]>>
  /\ mixedup' = (mixedup \/ ~Alone(p))
  /\ UNCHANGED <<old, mem>>

install_fails(p) == Fail(p, "rotated")

(* The program ends: by itself from the menu, or killed anywhere.          *)
Exit(p) ==
  /\ pc[p] # "off"
  /\ pc' = [pc EXCEPT ![p] = "off"]
  /\ Close(p, FALSE)
  /\ UNCHANGED <<mem, told, saves, mixedup>>

-----------------------------------------------------------------------------
Init ==
  /\ config \in {NoFile} \cup {[ver |-> v, by |-> {}] : v \in Versions}
  /\ old = NoFile
  /\ tmp = [p \in Procs |-> NoFile]
  /\ pc = [p \in Procs |-> "off"]
  /\ mem = [p \in Procs |-> Default]
  /\ told = [p \in Procs |-> "nothing"]
  /\ saves = <<IF config = NoFile THEN None ELSE config.ver, None>>
  /\ mixedup = FALSE

Next == \E p \in Procs :
  \/ conf_read(p) \/ Edit(p)
  \/ open_config(p) \/ open_fails(p) \/ close_config(p)
  \/ rotate(p) \/ install(p) \/ install_fails(p)
  \/ Exit(p)

Spec == Init /\ [][Next]_vars

-----------------------------------------------------------------------------
TypeOK ==
  /\ config \in File \cup {NoFile} /\ old \in File \cup {NoFile}
  /\ tmp \in [Procs -> File \cup {NoFile}]
  /\ pc \in [Procs -> {"off", "menu", "opened", "closed", "rotated"}]
  /\ mem \in [Procs -> Versions]
  /\ told \in [Procs -> {"nothing", "written", "not saved"}]
  /\ saves \in (Versions \cup {None}) \X (Versions \cup {None})
  /\ mixedup \in BOOLEAN

(* The stored configuration: .config, or .config.old in the moment between *)
(* the two renames, which a kill or a failing rename may make last.        *)
Stored == IF config # NoFile THEN config.ver
          ELSE IF old # NoFile THEN old.ver ELSE None
Store  == INSTANCE ConfigStore WITH saved <- Stored, working <- mem

(* However programs overlap, fail and are killed, .config, or else         *)
(* .config.old, holds a configuration some program saved, whole, and it    *)
(* changes in one step only, to what a program has in memory               *)
(* (confdata.c:558-564).  Asks for whole writes, and no overwriting.       *)
ImplementsStore == Store!Spec

(* No file is ever written by two programs: the name of the temporary file *)
(* has the process id in it (confdata.c:435), and one program at most      *)
(* overwrites .config.                                                     *)
OneWriter ==
  \A f \in {config, old} \cup {tmp[p] : p \in Procs} : f # NoFile => f.ver # Mixed

(* Why: a temporary file is open to its own program only, and whole once   *)
(* closed; .config and .config.old are only ever renamed ones.             *)
RenamedWhole == \A f \in {config, old} : f # NoFile => f.ver \in Versions /\ f.by = {}
OwnTmp(p) ==
  /\ pc[p] = "opened" => tmp[p] = [ver |-> Partial, by |-> {p}]
  /\ pc[p] \in {"closed", "rotated"} => tmp[p] = [ver |-> mem[p], by |-> {}]
  /\ pc[p] # "opened" /\ tmp[p] # NoFile => tmp[p].by = {} /\ tmp[p].ver # Mixed
SaveInv == TypeOK /\ RenamedWhole /\ \A p \in Procs : OwnTmp(p)

(* "configuration written to .config" (confdata.c:566) is true when it is  *)
(* printed by a program that does not overwrite, whatever others do.       *)
WrittenIsWritten ==
  [][\A p \in Procs \ Overwrite :
       told'[p] = "written" /\ told[p] # "written" =>
         config' # NoFile /\ config'.ver = mem[p]]_vars

(* The configuration before the last is in .config.old, also over kills    *)
(* and restarts; but not once two programs rename at the same time, when   *)
(* what one has just saved may be lost, or once a rename has failed.       *)
BackupKept ==
  ~mixedup =>
    IF config # NoFile
    THEN /\ config.ver = saves[1]
         /\ saves[2] # None => Whole(old) /\ old.ver = saves[2]
    ELSE saves[1] # None => Whole(old) /\ old.ver = saves[1]
=============================================================================
