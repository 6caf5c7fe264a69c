--------------------------- MODULE ConfSave_proofs ---------------------------
(***************************************************************************)
(* Saving is safe for any number of programs, as long as writes succeed    *)
(* and nothing overwrites .config in place.                                *)
(***************************************************************************)
EXTENDS ConfSave, TLAPS

Careful == Overwrite = {} /\ DiskFull = FALSE

LEMMA SaveInit == ASSUME Init PROVE SaveInv
<1>1. config \in File \cup {NoFile} /\ RenamedWhole
  BY DEF Init, RenamedWhole, File, Contents
<1>2. config # NoFile => config.ver \in Versions
  BY DEF Init
<1>3. saves \in (Versions \cup {None}) \X (Versions \cup {None})
  BY <1>2 DEF Init
<1>4. TypeOK
  BY <1>1, <1>3, SaveAssumption DEF Init, TypeOK
<1>5. \A p \in Procs : OwnTmp(p)
  BY DEF Init, OwnTmp
<1>6. QED
  BY <1>1, <1>4, <1>5 DEF SaveInv

(* Closing a temporary file touches no other, and makes it whole if it is  *)
(* written.                                                                *)
LEMMA CloseOwn ==
  ASSUME SaveInv, NEW p \in Procs, NEW written \in BOOLEAN, Close(p, written)
  PROVE  /\ config' = config /\ old' = old
         /\ \A q \in Procs \ {p} : tmp'[q] = tmp[q]
         /\ pc[p] = "opened" =>
              tmp'[p] = [ver |-> IF written THEN mem[p] ELSE Partial, by |-> {}]
         /\ pc[p] # "opened" => tmp'[p] = tmp[p]
         /\ tmp' \in [Procs -> File \cup {NoFile}]
<1>1. config' = config /\ old' = old
  BY DEF SaveInv, RenamedWhole, Close, Closed
<1>2. ASSUME NEW q \in Procs \ {p} PROVE tmp'[q] = tmp[q]
  <2>1. OwnTmp(q)
    BY DEF SaveInv
  <2>2. tmp[q] # NoFile => p \notin tmp[q].by
    BY <2>1 DEF OwnTmp
  <2>3. Closed(tmp[q], p, written) = tmp[q]
    BY <2>2 DEF Closed
  <2>4. QED
    BY <2>3 DEF Close
<1>3. ASSUME pc[p] = "opened"
      PROVE  tmp'[p] = [ver |-> IF written THEN mem[p] ELSE Partial, by |-> {}]
  <2>1. tmp[p] = [ver |-> Partial, by |-> {p}]
    BY <1>3 DEF SaveInv, OwnTmp
  <2>2. tmp[p] \in File
    BY <2>1 DEF File, Contents
  <2>3. tmp'[p] = Closed(tmp[p], p, written)
    BY DEF Close
  <2>4. QED
    BY <2>1, <2>2, <2>3, NoFileAssumption DEF Closed
<1>4. ASSUME pc[p] # "opened" PROVE tmp'[p] = tmp[p]
  <2>1. Closed(tmp[p], p, written) = tmp[p]
    BY <1>4 DEF SaveInv, OwnTmp, Closed
  <2>2. QED
    BY <2>1 DEF Close
<1>5. tmp' \in [Procs -> File \cup {NoFile}]
  <2>1. \A q \in Procs : tmp[q] \in File \cup {NoFile}
    BY DEF SaveInv, TypeOK
  <2>2. mem[p] \in Contents
    BY DEF SaveInv, TypeOK, Contents
  <2>3. [ver |-> IF written THEN mem[p] ELSE Partial, by |-> {}] \in File
    BY <2>2 DEF File, Contents
  <2>4. tmp'[p] \in File \cup {NoFile}
    BY <1>3, <1>4, <2>1, <2>3
  <2>5. \A q \in Procs : tmp'[q] \in File \cup {NoFile}
    BY <1>2, <2>1, <2>4
  <2>6. tmp' = [q \in Procs |-> tmp'[q]]
    BY DEF Close
  <2>7. QED
    BY <2>5, <2>6
<1>6. QED
  BY <1>1, <1>2, <1>3, <1>4, <1>5

(* A step of p that leaves the renamed files and the others' alone.        *)
LEMMA OwnStep ==
  ASSUME SaveInv, TypeOK', NEW p \in Procs, OwnTmp(p)',
         UNCHANGED <<config, old>>,
         \A q \in Procs \ {p} : tmp'[q] = tmp[q] /\ pc'[q] = pc[q] /\ mem'[q] = mem[q]
  PROVE  SaveInv'
<1>1. ASSUME NEW q \in Procs \ {p} PROVE OwnTmp(q)'
  BY DEF SaveInv, OwnTmp
<1>2. RenamedWhole'
  BY DEF SaveInv, RenamedWhole
<1>3. QED
  BY <1>1, <1>2 DEF SaveInv

LEMMA SaveStep ==
  ASSUME Careful, SaveInv, [Next]_vars
  PROVE  SaveInv'
<1>0. /\ TypeOK /\ RenamedWhole
      /\ \A p \in Procs : OwnTmp(p)
  BY DEF SaveInv
<1>1. ASSUME NEW p \in Procs, conf_read(p) PROVE SaveInv'
  BY <1>0, <1>1, OwnStep DEF TypeOK, OwnTmp, conf_read, Goto
<1>2. ASSUME NEW p \in Procs, Edit(p) PROVE SaveInv'
  BY <1>0, <1>2, OwnStep DEF TypeOK, OwnTmp, Edit
<1>3. ASSUME NEW p \in Procs, open_config(p) PROVE SaveInv'
  <2> DEFINE f == [ver |-> Partial, by |-> {p}]
  <2>1. Opened(tmp[p], p) = f
    BY <1>0, <1>3 DEF OwnTmp, Opened, open_config, Goto
  <2>2. tmp' = [tmp EXCEPT ![p] = f] /\ f \in File
    BY <1>3, <2>1 DEF open_config, Careful, File, Contents
  <2>3. TypeOK' /\ UNCHANGED <<config, old, mem>>
    BY <1>0, <1>3, <2>2 DEF TypeOK, open_config, Careful, Goto
  <2>4. pc' = [pc EXCEPT ![p] = "opened"]
    BY <1>3 DEF open_config, Goto
  <2>5. OwnTmp(p)'
    BY <1>0, <2>2, <2>4 DEF OwnTmp, TypeOK
  <2>6. QED
    BY <1>0, <2>2, <2>3, <2>4, <2>5, OwnStep DEF TypeOK
<1>4. ASSUME NEW p \in Procs, open_fails(p) PROVE SaveInv'
  BY <1>0, <1>4, OwnStep DEF TypeOK, OwnTmp, open_fails, Fail, Goto
<1>5. ASSUME NEW p \in Procs, close_config(p) PROVE SaveInv'
  <2>1. Close(p, TRUE) /\ pc[p] = "opened" /\ pc' = [pc EXCEPT ![p] = "closed"]
        /\ UNCHANGED <<mem, told, saves, mixedup>>
    BY <1>5 DEF close_config, Careful, Goto
  <2>2. /\ UNCHANGED <<config, old>> /\ tmp' \in [Procs -> File \cup {NoFile}]
        /\ tmp'[p] = [ver |-> mem[p], by |-> {}]
        /\ \A q \in Procs \ {p} : tmp'[q] = tmp[q]
    BY <2>1, CloseOwn
  <2>3. TypeOK'
    BY <1>0, <2>1, <2>2 DEF TypeOK
  <2>4. OwnTmp(p)'
    <3>1. pc'[p] = "closed" /\ mem'[p] = mem[p] /\ mem[p] # Mixed
      BY <1>0, <2>1, SaveAssumption DEF TypeOK
    <3>2. QED
      BY <2>2, <3>1 DEF OwnTmp
  <2>5. QED
    BY <1>0, <2>1, <2>2, <2>3, <2>4, OwnStep DEF TypeOK
<1>6. ASSUME NEW p \in Procs, rotate(p) PROVE SaveInv'
  <2>1. TypeOK' /\ RenamedWhole'
    BY <1>0, <1>6 DEF TypeOK, RenamedWhole, rotate, Goto
  <2>2. \A q \in Procs : OwnTmp(q)'
    BY <1>0, <1>6 DEF TypeOK, OwnTmp, rotate, Goto
  <2>3. QED
    BY <2>1, <2>2 DEF SaveInv
<1>7. ASSUME NEW p \in Procs, install(p) PROVE SaveInv'
  <2>1. config' = [ver |-> mem[p], by |-> {}] /\ mem[p] \in Versions
    BY <1>0, <1>7 DEF OwnTmp, TypeOK, install, Goto
  <2>2. config' \in File
    BY <2>1 DEF File, Contents
  <2>3. saves' \in (Versions \cup {None}) \X (Versions \cup {None})
    BY <1>0, <1>7, <2>1 DEF install, TypeOK
  <2>4. TypeOK'
    BY <1>0, <1>7, <2>2, <2>3 DEF TypeOK, install, Goto
  <2>5. RenamedWhole'
    BY <1>0, <1>7, <2>1 DEF RenamedWhole, install
  <2>6. \A q \in Procs : OwnTmp(q)'
    BY <1>0, <1>7 DEF OwnTmp, TypeOK, install, Goto
  <2>7. QED
    BY <2>4, <2>5, <2>6 DEF SaveInv
<1>8. ASSUME NEW p \in Procs, install_fails(p) PROVE SaveInv'
  <2>1. TypeOK'
    BY <1>0, <1>8 DEF TypeOK, install_fails, Fail, Goto
  <2>2. OwnTmp(p)'
    BY <1>0, <1>8, SaveAssumption DEF OwnTmp, TypeOK, install_fails, Fail, Goto
  <2>3. QED
    BY <1>0, <1>8, <2>1, <2>2, OwnStep DEF TypeOK, install_fails, Fail, Goto
<1>9. ASSUME NEW p \in Procs, Exit(p) PROVE SaveInv'
  <2>1. Close(p, FALSE) /\ pc' = [pc EXCEPT ![p] = "off"]
        /\ UNCHANGED <<mem, told, saves, mixedup>>
    BY <1>9 DEF Exit
  <2>2. /\ UNCHANGED <<config, old>> /\ tmp' \in [Procs -> File \cup {NoFile}]
        /\ pc[p] = "opened" => tmp'[p] = [ver |-> Partial, by |-> {}]
        /\ pc[p] # "opened" => tmp'[p] = tmp[p]
        /\ \A q \in Procs \ {p} : tmp'[q] = tmp[q]
    BY <2>1, CloseOwn
  <2>3. TypeOK'
    BY <1>0, <2>1, <2>2 DEF TypeOK
  <2>4. OwnTmp(p)'
    <3>1. pc'[p] = "off" /\ Partial # Mixed
      BY <1>0, <2>1, SaveAssumption DEF TypeOK
    <3>2. tmp'[p] # NoFile => tmp'[p].by = {} /\ tmp'[p].ver # Mixed
      <4>1. CASE pc[p] = "opened"
        BY <2>2, <3>1, <4>1
      <4>2. CASE pc[p] # "opened"
        BY <1>0, <2>2, <4>2 DEF OwnTmp
      <4>3. QED
        BY <4>1, <4>2
    <3>3. QED
      BY <3>1, <3>2 DEF OwnTmp
  <2>5. QED
    BY <1>0, <2>1, <2>2, <2>3, <2>4, OwnStep DEF TypeOK
<1>10. CASE UNCHANGED vars
  BY <1>0, <1>10 DEF vars, SaveInv, TypeOK, RenamedWhole, OwnTmp
<1>11. QED
  BY <1>1, <1>2, <1>3, <1>4, <1>5, <1>6, <1>7, <1>8, <1>9, <1>10 DEF Next

(* Temporary files belong to their programs, and are whole once closed.    *)
THEOREM SaveInvariant == ASSUME Careful PROVE Spec => []SaveInv
  BY SaveInit, SaveStep, PTL DEF Spec

(* The temporary file of a program is written by it alone.                 *)
THEOREM OneWriterCorrect == ASSUME Careful PROVE Spec => []OneWriter
<1>1. SaveInv => OneWriter
  <2>1. ASSUME SaveInv, NEW p \in Procs, tmp[p] # NoFile PROVE tmp[p].ver # Mixed
    <3>1. OwnTmp(p) /\ TypeOK
      BY <2>1 DEF SaveInv
    <3>2. CASE pc[p] = "opened"
      BY <3>1, <3>2, SaveAssumption DEF OwnTmp
    <3>3. CASE pc[p] # "opened"
      BY <2>1, <3>1, <3>3 DEF OwnTmp
    <3>4. QED
      BY <3>2, <3>3
  <2>2. ASSUME SaveInv, NEW f \in {config, old}, f # NoFile PROVE f.ver # Mixed
    BY <2>2, SaveAssumption DEF SaveInv, RenamedWhole
  <2>3. QED
    BY <2>1, <2>2 DEF OneWriter
<1>2. QED
  BY <1>1, SaveInvariant, PTL

(* What conf_write reports written is in .config, and whole.               *)
THEOREM WrittenCorrect == ASSUME Careful PROVE Spec => WrittenIsWritten
<1>1. ASSUME SaveInv, [Next]_vars,
             NEW p \in Procs, told'[p] = "written", told[p] # "written"
      PROVE  config' # NoFile /\ config'.ver = mem[p]
  <2>1. PICK q \in Procs : close_config(q) \/ install(q)
    BY <1>1 DEF Next, vars, SaveInv, TypeOK, conf_read, Edit, open_config, open_fails,
                Fail, rotate, install_fails, Exit
  <2>2. ~close_config(q)
    BY <1>1, <2>1 DEF close_config, Careful
  <2>3. install(q) /\ q = p
    BY <1>1, <2>1, <2>2 DEF install, SaveInv, TypeOK
  <2>4. config' = [ver |-> mem[p], by |-> {}] /\ mem[p] \in Versions
    BY <1>1, <2>3 DEF install, Goto, SaveInv, OwnTmp, TypeOK
  <2>5. config' \in File
    BY <2>4 DEF File, Contents
  <2>6. QED
    BY <2>4, <2>5, NoFileAssumption
<1>2. ASSUME SaveInv, [Next]_vars
      PROVE  [\A p \in Procs \ Overwrite :
                told'[p] = "written" /\ told[p] # "written" =>
                  config' # NoFile /\ config'.ver = mem[p]]_vars
  BY <1>1, <1>2
<1>3. QED
  BY <1>2, SaveInvariant, PTL DEF Spec, WrittenIsWritten

-----------------------------------------------------------------------------
(* conf_write implements the store: only the rename of the temporary file  *)
(* changes what is stored.                                                 *)

LEMMA StoreInit == ASSUME Init PROVE Store!Init
  BY NoFileAssumption DEF Init, Store!Init, Stored

LEMMA StoreStep ==
  ASSUME Careful, SaveInv, [Next]_vars
  PROVE  [Store!Next]_<<Stored, mem>>
<1>0. TypeOK /\ RenamedWhole /\ \A p \in Procs : OwnTmp(p)
  BY DEF SaveInv
<1>1. ASSUME NEW p \in Procs, conf_read(p) PROVE Store!Load(p)
  <2>1. PICK v \in Versions : /\ config = NoFile => v = Default
                              /\ Whole(config) => v = config.ver
                              /\ mem' = [mem EXCEPT ![p] = v]
    BY <1>1 DEF conf_read
  <2>2. v \in {Stored, Default}
    BY <1>0, <2>1 DEF RenamedWhole, Whole, Stored
  <2>3. Stored' = Stored
    BY <1>1 DEF conf_read, Stored
  <2>4. QED
    BY <2>1, <2>2, <2>3 DEF Store!Load
<1>2. ASSUME NEW p \in Procs, Edit(p) PROVE Store!Edit(p)
  BY <1>2 DEF Edit, Store!Edit, Stored
<1>3. ASSUME NEW p \in Procs, install(p) PROVE Store!Save(p)
  <2>1. config' = [ver |-> mem[p], by |-> {}] /\ mem[p] \in Versions
    BY <1>0, <1>3 DEF OwnTmp, TypeOK, install, Goto
  <2>2. config' \in File
    BY <2>1 DEF File, Contents
  <2>3. Stored' = mem[p]
    BY <2>1, <2>2, NoFileAssumption DEF Stored
  <2>4. QED
    BY <1>3, <2>3 DEF Store!Save, install
<1>4. ASSUME NEW p \in Procs,
             open_config(p) \/ open_fails(p) \/ rotate(p) \/ install_fails(p)
      PROVE  UNCHANGED <<Stored, mem>>
  BY <1>0, <1>4 DEF Stored, open_config, open_fails, rotate, install_fails, Fail, Careful
<1>5. ASSUME NEW p \in Procs, close_config(p) \/ Exit(p)
      PROVE  UNCHANGED <<Stored, mem>>
  <2>1. \E written \in BOOLEAN : Close(p, written)
    BY <1>5 DEF close_config, Exit
  <2>2. UNCHANGED <<config, old>>
    BY <2>1, CloseOwn
  <2>3. QED
    BY <1>5, <2>2 DEF Stored, close_config, Exit
<1>6. CASE UNCHANGED vars
  BY <1>6 DEF vars, Stored
<1>7. QED
  BY <1>1, <1>2, <1>3, <1>4, <1>5, <1>6 DEF Next, Store!Next

(* However many programs save, fail and are killed, .config and            *)
(* .config.old together are a store that changes in one step and forgets   *)
(* nothing.                                                                *)
THEOREM SaveImplementsStore == ASSUME Careful PROVE Spec => ImplementsStore
<1>1. Init => Store!Init
  BY StoreInit
<1>2. SaveInv /\ [Next]_vars => [Store!Next]_<<Stored, mem>>
  BY StoreStep
<1>3. QED
  BY <1>1, <1>2, SaveInvariant, PTL DEF Spec, ImplementsStore, Store!Spec

-----------------------------------------------------------------------------
(* The backup.  BackupKept alone is not inductive: a program between the   *)
(* two renames must still find .config away, which holds as long as it is  *)
(* the only one there.                                                     *)
Between == ~mixedup => \A p \in Procs : pc[p] = "rotated" => config = NoFile /\ Alone(p)
BackupInv == SaveInv /\ Between /\ BackupKept

LEMMA BackupInit == ASSUME Init PROVE BackupInv
<1>1. BackupKept
  BY NoFileAssumption DEF Init, BackupKept
<1>2. Between
  BY DEF Init, Between
<1>3. QED
  BY <1>1, <1>2, SaveInit DEF BackupInv

(* A step that renames nothing.                                            *)
LEMMA NoRename ==
  ASSUME BackupInv, SaveInv', UNCHANGED <<config, old, saves, mixedup>>,
         \A q \in Procs : pc'[q] = "rotated" => pc[q] = "rotated"
  PROVE  BackupInv'
<1>1. BackupKept'
  BY DEF BackupInv, BackupKept, Whole
<1>2. Between'
  BY DEF BackupInv, Between, Alone
<1>3. QED
  BY <1>1, <1>2 DEF BackupInv

LEMMA BackupStep ==
  ASSUME Careful, BackupInv, [Next]_vars
  PROVE  BackupInv'
<1>0. SaveInv /\ SaveInv' /\ TypeOK /\ RenamedWhole /\ Between /\ BackupKept
  BY SaveStep DEF BackupInv, SaveInv
<1>1. ASSUME NEW p \in Procs, conf_read(p) \/ Edit(p) PROVE BackupInv'
  BY <1>0, <1>1, NoRename DEF TypeOK, conf_read, Edit, Goto
<1>2. ASSUME NEW p \in Procs, open_config(p) \/ open_fails(p) \/ install_fails(p)
      PROVE  BackupInv'
  BY <1>0, <1>2, NoRename DEF TypeOK, open_config, open_fails, install_fails, Fail, Goto, Careful
<1>3. ASSUME NEW p \in Procs, close_config(p) \/ Exit(p) PROVE BackupInv'
  <2>1. \E written \in BOOLEAN : Close(p, written)
    BY <1>3 DEF close_config, Exit
  <2>2. UNCHANGED <<config, old>>
    BY <1>0, <2>1, CloseOwn
  <2>3. UNCHANGED <<saves, mixedup>>
    BY <1>3 DEF close_config, Exit, Careful
  <2>4. \A q \in Procs : pc'[q] = "rotated" => pc[q] = "rotated"
    BY <1>0, <1>3 DEF TypeOK, close_config, Exit, Goto, Careful
  <2>5. QED
    BY <1>0, <2>2, <2>3, <2>4, NoRename
<1>4. ASSUME NEW p \in Procs, rotate(p) PROVE BackupInv'
  <2> SUFFICES ASSUME ~mixedup' PROVE Between' /\ BackupKept'
    BY <1>0 DEF BackupInv, Between, BackupKept
  <2>1. ~mixedup /\ Alone(p) /\ config' = NoFile /\ saves' = saves
        /\ pc' = [pc EXCEPT ![p] = "rotated"]
    BY <1>4 DEF rotate, Goto
  <2>2. old' = IF config # NoFile THEN config ELSE old
    BY <1>4 DEF rotate
  <2>3. \A q \in Procs : pc'[q] = "rotated" => q = p
    BY <1>0, <2>1 DEF TypeOK, Alone
  <2>4. Between'
    BY <2>1, <2>3 DEF Between, Alone
  <2>5. config # NoFile => config.ver = saves[1] /\ config.ver \in Versions
    BY <1>0, <2>1 DEF BackupKept, RenamedWhole
  <2>6. BackupKept'
    BY <1>0, <2>1, <2>2, <2>5 DEF BackupKept, Whole
  <2>7. QED
    BY <2>4, <2>6
<1>5. ASSUME NEW p \in Procs, install(p) PROVE BackupInv'
  <2> SUFFICES ASSUME ~mixedup' PROVE Between' /\ BackupKept'
    BY <1>0 DEF BackupInv, Between, BackupKept
  <2>1. ~mixedup /\ Alone(p) /\ pc[p] = "rotated" /\ pc' = [pc EXCEPT ![p] = "menu"]
        /\ config' = tmp[p] /\ old' = old /\ saves' = <<mem[p], saves[1]>>
    BY <1>5 DEF install, Goto
  <2>2. config = NoFile
    BY <1>0, <2>1 DEF Between
  <2>3. config' = [ver |-> mem[p], by |-> {}] /\ mem[p] \in Versions
    BY <1>0, <2>1 DEF SaveInv, OwnTmp, TypeOK
  <2>4. config' # NoFile
    BY <2>3, NoFileAssumption DEF File, Contents
  <2>5. saves[1] # None => Whole(old) /\ old.ver = saves[1]
    BY <1>0, <2>1, <2>2 DEF BackupKept
  <2>6. BackupKept'
    BY <2>1, <2>3, <2>4, <2>5 DEF BackupKept, Whole
  <2>7. Between'
    BY <1>0, <2>1 DEF Between, Alone, TypeOK
  <2>8. QED
    BY <2>6, <2>7
<1>6. CASE UNCHANGED vars
  BY <1>0, <1>6, NoRename DEF vars
<1>7. QED
  BY <1>1, <1>2, <1>3, <1>4, <1>5, <1>6 DEF Next

(* What was saved before the last save can be had back from .config.old,   *)
(* after any kills and failing calls, for as long as no two programs       *)
(* rename at once.                                                         *)
THEOREM BackupCorrect == ASSUME Careful PROVE Spec => []BackupKept
<1>1. BackupInv => BackupKept
  BY DEF BackupInv
<1>2. QED
  BY <1>1, BackupInit, BackupStep, PTL DEF Spec
=============================================================================
