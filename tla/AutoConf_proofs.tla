---------------------------- MODULE AutoConf_proofs ----------------------------
(***************************************************************************)
(* Proofs about AutoConf, for any options, values, objects and uses.       *)
(***************************************************************************)
EXTENDS AutoConf, TLAPS

(* Configurations, and what a file says of them, are functions on Options. *)
LEMMA ConfigsAreFunctions ==
  ASSUME NEW v \in Configs \cup {Empty} PROVE v \in [Options -> Settings]
  BY DEF Configs, Empty, Settings

LEMMA LinesAreFunctions ==
  ASSUME NEW v \in Configs \cup {Empty} PROVE Lines(v) \in [Options -> Settings]
<1>1. v \in [Options -> Settings]
  BY ConfigsAreFunctions
<1>2. Unset \in Settings
  BY DEF Settings
<1>3. QED
  BY <1>1, <1>2 DEF Lines

LEMMA InitInv == Init => AutoInv
<1> SUFFICES ASSUME Init PROVE AutoInv
  OBVIOUS
<1>1. Empty \in [Options -> Settings] /\ Empty \in Configs \cup {Empty}
  BY ConfigsAreFunctions
<1>2. ASSUME NEW x \in Objects
      PROVE  /\ built[x] \in [Uses[x] -> Settings]
             /\ built[x] \in UNION {[S -> Settings] : S \in SUBSET Options}
  <2>1. built[x] \in [Uses[x] -> Settings]
    BY DEF Init, Settings
  <2>2. QED
    BY <2>1, AutoAssumption
<1>3. built \in [Objects -> UNION {[S -> Settings] : S \in SUBSET Options}]
  BY <1>2 DEF Init
<1>4. QED
  BY <1>1, <1>2, <1>3, AutoAssumption
     DEF Init, AutoInv, TypeOK, Agreement

(* What conf_split_config passes over has not changed: the test of the     *)
(* flags is the test of the lines.                                         *)
LEMMA UntouchedIsSame ==
  ASSUME NEW o \in Options, ~Differs(o), auto[o] # No PROVE auto[o] = Lines(mem)[o]
  BY AutoAssumption DEF Differs, Lines
LEMMA TouchedDiffers ==
  ASSUME NEW o \in Options, Differs(o), auto[o] # No PROVE auto[o] # Lines(mem)[o]
  BY AutoAssumption DEF Differs, Lines

(* auto.conf never says n.                                                 *)
NoSilent == \A o \in Options : auto[o] # No
LEMMA NoSilentInit == Init => NoSilent
  BY AutoAssumption DEF Init, NoSilent, Empty
LEMMA NoSilentStep == ASSUME NoSilent, [Next]_vars PROVE NoSilent'
<1>1. CASE rename_auto
  BY <1>1, AutoAssumption DEF rename_auto, NoSilent, Lines
<1>2. CASE auto' = auto
  BY <1>2 DEF NoSilent
<1>3. QED
  BY <1>1, <1>2 DEF Next, vars, confVars, Edit, by_hand, Begin, conf_write_autoconf,
     conf_split_config, keep, make_dir, touch, write_files, rename_header, Trouble,
     MakeStart, Compile, MakeEnd

IInv == AutoInv /\ NoSilent

(* Starting conf -s, by hand or from the build.                            *)
LEMMA BeginKeeps ==
  ASSUME AutoInv, Begin, make = "off", make' \in {"off", "sync"} PROVE AutoInv'
<1>1. TypeOK'
  BY DEF Begin, AutoInv, TypeOK
<1>2. ASSUME ~raced' PROVE Agreement'
  <2>1. Agreement /\ mem' = value /\ value' = value /\ auto' = auto /\ header' = header
        /\ fresh' = fresh /\ built' = built /\ pc' = "split" /\ todo' = Options
        /\ (current' => current)
    BY <1>2 DEF Begin, AutoInv
  <2>2. Touched'
    BY <2>1 DEF Touched, Compared
  <2>3. QED
    BY <2>1, <2>2 DEF Agreement, AsIn
<1>3. QED
  BY <1>1, <1>2 DEF AutoInv

(* The steps of conf_split_config: after each, what has been compared and  *)
(* differs from auto.conf is touched.                                      *)
LEMMA SplitKeeps ==
  ASSUME IInv, NEW o \in Options, keep(o) \/ make_dir(o) \/ touch(o) PROVE AutoInv'
<1>1. pc = "split" /\ pc' = pc /\ o \in todo
      /\ UNCHANGED <<value, current, auto, header, mem, make, built, raced>>
  BY DEF keep, make_dir, touch
<1>2. TypeOK
  BY DEF IInv, AutoInv
<1>3. TypeOK'
  <2>1. CASE keep(o)
    BY <1>2, <2>1 DEF keep, TypeOK
  <2>2. CASE make_dir(o)
    BY <1>2, <2>2 DEF make_dir, TypeOK, Missing, Dirs
  <2>3. CASE touch(o)
    BY <1>2, <2>3 DEF touch, TypeOK
  <2>4. QED
    BY <2>1, <2>2, <2>3
<1>4. ASSUME NEW x \in Objects, fresh'[x] PROVE fresh[x]
  BY <1>2, <1>4 DEF keep, make_dir, touch, TypeOK
<1>5. ASSUME ~raced' PROVE Agreement'
  <2>1. Agreement
    BY <1>1, <1>5 DEF IInv, AutoInv
  <2>2. ASSUME NEW p \in Options, Compared(p)', auto'[p] # Lines(mem')[p],
               NEW x \in Objects, p \in Uses[x], fresh'[x]
        PROVE  FALSE
    <3>1. fresh[x] /\ auto[p] # Lines(mem)[p]
      BY <1>1, <1>4, <2>2
    <3>2. ~Compared(p)
      BY <1>1, <2>1, <2>2, <3>1 DEF Agreement, Touched
    <3>3. p = o /\ (keep(o) \/ touch(o))
      BY <1>1, <2>2, <3>2 DEF Compared, keep, make_dir, touch
    <3>4. ~touch(o)
      BY <1>2, <2>2, <3>3 DEF touch, TypeOK
    <3>5. QED
      BY <3>1, <3>3, <3>4, UntouchedIsSame DEF keep, IInv, NoSilent
  <2>3. Touched'
    BY <2>2 DEF Touched, Lines
  <2>4. QED
    BY <1>1, <1>4, <2>1, <2>3 DEF Agreement, AsIn, Lines
<1>6. QED
  BY <1>1, <1>3, <1>5 DEF IInv, AutoInv

LEMMA StepInv == ASSUME IInv, [Next]_vars PROVE AutoInv'
<1> USE DEF IInv, AutoInv
<1>1. CASE Edit
  <2>1. TypeOK'
    BY <1>1 DEF Edit, TypeOK, confVars
  <2>2. ASSUME ~raced' PROVE Agreement'
    <3>1. pc = "off" /\ ~raced /\ ~current'
      BY <1>1, <2>2 DEF Edit
    <3>2. QED
      BY <1>1, <3>1 DEF Edit, Agreement, AsIn, confVars
  <2>3. QED
    BY <1>1, <2>1, <2>2 DEF Edit
<1>2. CASE by_hand
  BY <1>2, BeginKeeps DEF by_hand
<1>3. CASE conf_split_config
  BY <1>3, SplitKeeps DEF conf_split_config
<1>4. CASE write_files
  <2>1. TypeOK'
    BY <1>4 DEF write_files, TypeOK, confVars
  <2>2. ASSUME ~raced' PROVE Agreement'
    BY <1>4, <2>2 DEF write_files, Agreement, Touched, Compared, AsIn, Lines, confVars
  <2>3. QED
    BY <1>4, <2>1, <2>2 DEF write_files
<1>5. CASE rename_header
  <2>1. TypeOK'
    BY <1>5, LinesAreFunctions DEF rename_header, TypeOK
  <2>2. ASSUME ~raced' PROVE Agreement'
    BY <1>5, <2>2 DEF rename_header, Agreement, Touched, Compared, AsIn, Lines
  <2>3. QED
    BY <1>5, <2>1, <2>2 DEF rename_header
<1>6. CASE rename_auto
  <2>1. TypeOK'
    BY <1>6, LinesAreFunctions DEF rename_auto, TypeOK
  <2>2. ASSUME ~raced' PROVE Agreement'
    <3>1. Agreement /\ auto' = Lines(mem) /\ mem = value /\ header = Lines(mem)
      BY <1>6, <2>2 DEF rename_auto, Agreement
    <3>2. ASSUME NEW x \in Objects, fresh[x], NEW o \in Uses[x]
          PROVE  built[x][o] = Lines(mem)[o]
      <4>1. o \in Options
        BY AutoAssumption
      <4>2. auto[o] = Lines(mem)[o]
        BY <1>6, <3>1, <3>2, <4>1 DEF rename_auto, Agreement, Touched, Compared
      <4>3. QED
        BY <3>1, <3>2, <4>2 DEF Agreement, AsIn
    <3>3. \A x \in Objects : fresh'[x] => AsIn(x, auto)'
      BY <1>6, <3>1, <3>2 DEF rename_auto, AsIn
    <3>4. auto' = Lines(value') /\ header' = auto' /\ pc' = "off"
      BY <1>6, <3>1 DEF rename_auto, Lines
    <3>5. QED
      BY <3>3, <3>4 DEF Agreement
  <2>3. QED
    BY <1>6, <2>1, <2>2 DEF rename_auto
<1>7. CASE Trouble
  <2>1. TypeOK'
    BY <1>7 DEF Trouble, TypeOK
  <2>2. ASSUME ~raced' PROVE Agreement'
    BY <1>7, <2>2 DEF Trouble, Agreement, AsIn
  <2>3. QED
    BY <1>7, <2>1, <2>2 DEF Trouble
<1>8. CASE MakeStart
  <2>1. CASE current
    <3>1. TypeOK'
      BY <1>8, <2>1 DEF MakeStart, TypeOK, confVars
    <3>2. ASSUME ~raced' PROVE Agreement'
      BY <1>8, <2>1, <3>2 DEF MakeStart, Agreement, AsIn, confVars
    <3>3. QED
      BY <1>8, <2>1, <3>1, <3>2 DEF MakeStart, confVars
  <2>2. CASE ~current
    BY <1>8, <2>2, BeginKeeps DEF MakeStart
  <2>3. QED
    BY <2>1, <2>2
<1>9. ASSUME NEW x \in Objects, Compile(x) PROVE AutoInv'
  <2>1. TypeOK'
    <3>1. [o \in Uses[x] |-> header[o]] \in [Uses[x] -> Settings]
      BY AutoAssumption DEF TypeOK
    <3>2. [o \in Uses[x] |-> header[o]] \in UNION {[S -> Settings] : S \in SUBSET Options}
      BY <3>1, AutoAssumption
    <3>3. QED
      BY <1>9, <3>1, <3>2 DEF Compile, TypeOK, confVars
  <2>2. ASSUME ~raced' PROVE Agreement'
    <3>1. Agreement /\ header = auto /\ pc = "off" /\ pc' = pc
          /\ UNCHANGED <<value, current, auto, header, make>>
      BY <1>9, <2>2 DEF Compile, Agreement, confVars
    <3>2. ASSUME NEW y \in Objects, fresh'[y] PROVE AsIn(y, auto)'
      BY <1>9, <3>1, <3>2 DEF Compile, Agreement, AsIn, TypeOK
    <3>3. QED
      BY <3>1, <3>2 DEF Agreement
  <2>3. QED
    BY <1>9, <2>1, <2>2 DEF Compile
<1>10. CASE MakeEnd
  <2>1. TypeOK'
    BY <1>10 DEF MakeEnd, TypeOK, confVars
  <2>2. ASSUME ~raced' PROVE Agreement'
    BY <1>10, <2>2 DEF MakeEnd, Agreement, AsIn, confVars
  <2>3. QED
    BY <1>10, <2>1, <2>2 DEF MakeEnd
<1>11. CASE UNCHANGED vars
  BY <1>11 DEF vars, confVars, TypeOK, Agreement, Touched, Compared, AsIn, Lines
<1>12. QED
  BY <1>1, <1>2, <1>3, <1>4, <1>5, <1>6, <1>7, <1>8, <1>9, <1>10, <1>11
     DEF Next, conf_write_autoconf

LEMMA Invariant == Spec => []IInv
<1>1. Init => IInv
  BY InitInv, NoSilentInit DEF IInv
<1>2. IInv /\ [Next]_vars => IInv'
  BY StepInv, NoSilentStep DEF IInv
<1>3. QED
  BY <1>1, <1>2, PTL DEF Spec

-----------------------------------------------------------------------------
(* The stamps, the header and auto.conf agree with each other as far as    *)
(* the renames have got.                                                   *)
THEOREM AutoInvCorrect == Spec => []AutoInv
  BY Invariant, PTL DEF IInv

(* An object the stamps call up to date is.                                *)
THEOREM UpToDateCorrect == Spec => []UpToDateIsRight
<1>1. AutoInv => UpToDateIsRight
  BY DEF AutoInv, Agreement, UpToDateIsRight
<1>2. QED
  BY <1>1, AutoInvCorrect, PTL

(* And none is compiled again without need.                                *)
THEOREM OnlyChangedCorrect == Spec => OnlyChangedRebuilt
<1> DEFINE Needed == \A x \in Objects : fresh[x] /\ ~fresh'[x] =>
                       \E o \in Uses[x] : auto[o] # Lines(mem)[o]
<1>1. ASSUME IInv, [Next]_vars PROVE Needed
  <2>1. CASE \E o \in Options : touch(o)
    <3>1. PICK o \in Options : touch(o)
      BY <2>1
    <3>2. auto[o] # Lines(mem)[o]
      BY <1>1, <3>1, TouchedDiffers DEF touch, IInv, NoSilent
    <3>3. ASSUME NEW x \in Objects, fresh[x], ~fresh'[x] PROVE o \in Uses[x]
      BY <3>1, <3>3 DEF touch
    <3>4. QED
      BY <3>2, <3>3
  <2>2. CASE \E x \in Objects : Compile(x)
    BY <1>1, <2>2 DEF Compile, IInv, AutoInv, TypeOK
  <2>3. CASE UNCHANGED fresh
    BY <2>3
  <2>4. QED
    BY <1>1, <2>1, <2>2, <2>3
       DEF Next, vars, Edit, by_hand, Begin, conf_write_autoconf, conf_split_config,
           keep, make_dir, write_files, rename_header, rename_auto, Trouble, MakeStart, MakeEnd
<1>2. QED
  BY <1>1, Invariant, PTL DEF Spec, OnlyChangedRebuilt
================================================================================
