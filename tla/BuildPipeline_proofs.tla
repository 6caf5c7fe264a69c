------------------------ MODULE BuildPipeline_proofs ------------------------
(***************************************************************************)
(* Proof that a successful run has built everything, whatever the script,  *)
(* as long as its stanzas are written the way ScriptAssumption says.       *)
(***************************************************************************)
EXTENDS BuildPipeline, TLAPS

-----------------------------------------------------------------------------
(* What a script is.                                                       *)

LEMMA Shape ==
  /\ Len(Script) \in Nat
  /\ Stanzas = 1..Len(Script)
  /\ \A k \in Stanzas :
       /\ Cmds(k) \in Seq(Command)
       /\ Len(Cmds(k)) \in Nat
       /\ DOMAIN Cmds(k) = 1..Len(Cmds(k))
       /\ Script[k].marker \in Files
       /\ \A j \in 1..Len(Cmds(k)) : Cmds(k)[j] \in Command
<1>1. ASSUME NEW T, NEW s \in Seq(T)
      PROVE  /\ Len(s) \in Nat /\ DOMAIN s = 1..Len(s)
             /\ \A j \in 1..Len(s) : s[j] \in T
  OBVIOUS
<1> DEFINE R == [option : Options \cup {Always}, marker : Files, cmds : Seq(Command)]
<1>2. Script \in Seq(R)
  BY ScriptAssumption
<1> HIDE DEF R
<1>3. /\ Len(Script) \in Nat /\ Stanzas = 1..Len(Script)
      /\ \A k \in Stanzas : Script[k] \in R
  BY <1>1, <1>2 DEF Stanzas
<1>4. ASSUME NEW k \in Stanzas
      PROVE  Cmds(k) \in Seq(Command) /\ Script[k].marker \in Files
  <2>1. ASSUME NEW T, NEW r \in [option : Options \cup {Always}, marker : Files, cmds : T]
        PROVE  r.cmds \in T /\ r.marker \in Files
    OBVIOUS
  <2>2. QED
    BY <1>3, <2>1 DEF Cmds, R
<1>5. QED
  BY <1>1, <1>3, <1>4

(* Its commands keep to their own stanza's files, and the marker.          *)
LEMMA Manners ==
  ASSUME NEW k \in Stanzas, NEW j \in 1..Len(Cmds(k))
  PROVE  /\ Script[k].marker \notin Cmds(k)[j].removes
         /\ Cmds(k)[j].begins \cap Cmds(k)[j].makes = {}
         /\ (Cmds(k)[j].begins \cup Cmds(k)[j].makes) \cap Cmds(k)[j].removes = {}
         /\ \A f \in Cmds(k)[j].needs \ MadeBy[k][j - 1] :
              \E h \in 1..(k - 1) : f \in Following[h]
         /\ \A h \in Stanzas \ {k} : \A i \in 1..Len(Cmds(h)) :
              Changed(Cmds(k)[j]) \cap Changed(Cmds(h)[i]) = {}
<1>1. j \in DOMAIN Cmds(k) /\ \A h \in Stanzas : DOMAIN Cmds(h) = 1..Len(Cmds(h))
  BY Shape
<1>2. QED
  BY <1>1, ScriptAssumption

LEMMA Markers ==
  ASSUME NEW k \in Stanzas
  PROVE  /\ \E j \in 1..Len(Cmds(k)) : MakesMarker(k, j)
         /\ Script[k].marker \in Products[k]
         /\ Script[k].marker \in Kept =>
              /\ Products[k] \subseteq Kept
              /\ \A h \in 1..k : Script[h].marker \in Kept
<1>1. DOMAIN Cmds(k) = 1..Len(Cmds(k))
  BY Shape
<1>2. QED
  BY <1>1, ScriptAssumption

LEMMA MadeIs ==
  ASSUME NEW k \in Stanzas, NEW j \in 0..Len(Cmds(k))
  PROVE  MadeBy[k][j] =
           {f \in Files : \E i \in 1..j :
              /\ f \in Cmds(k)[i].makes
              /\ \A h \in (i + 1)..j : f \notin Cmds(k)[h].removes \cup Cmds(k)[h].begins}
  BY DEF MadeBy

(* Nothing is made by no command.                                          *)
LEMMA MadeNone ==
  ASSUME NEW k \in Stanzas
  PROVE  MadeBy[k][0] = {}
<1>1. 0 \in 0..Len(Cmds(k))
  BY Shape
<1>2. QED
  BY <1>1, MadeIs

(* What is made by j commands: by the last, or before and left alone.      *)
LEMMA MadeStep ==
  ASSUME NEW k \in Stanzas, NEW j \in 1..Len(Cmds(k)), NEW f \in MadeBy[k][j]
  PROVE  /\ f \in Files
         /\ \/ f \in Cmds(k)[j].makes
            \/ /\ f \in MadeBy[k][j - 1]
               /\ f \notin Cmds(k)[j].removes \cup Cmds(k)[j].begins
<1>1. Len(Cmds(k)) \in Nat
  BY Shape
<1>2. j \in 0..Len(Cmds(k)) /\ j - 1 \in 0..Len(Cmds(k))
  BY <1>1
<1>3. PICK i \in 1..j :
        /\ f \in Cmds(k)[i].makes
        /\ \A h \in (i + 1)..j : f \notin Cmds(k)[h].removes \cup Cmds(k)[h].begins
  BY <1>2, MadeIs
<1>4. f \in Files
  BY <1>2, MadeIs
<1>5. CASE i = j
  BY <1>3, <1>4, <1>5
<1>6. CASE i # j
  <2>1. i \in 1..(j - 1) /\ j \in (i + 1)..j
    BY <1>6
  <2>2. \A h \in (i + 1)..(j - 1) : h \in (i + 1)..j
    OBVIOUS
  <2>3. f \in MadeBy[k][j - 1]
    BY <1>2, <1>3, <1>4, <2>1, <2>2, MadeIs
  <2>4. QED
    BY <1>3, <1>4, <2>1, <2>3
<1>7. QED
  BY <1>5, <1>6

(* Products are files, made by commands of the stanza.                     *)
LEMMA ProductsMade ==
  ASSUME NEW k \in Stanzas, NEW f \in Products[k]
  PROVE  /\ f \in Files
         /\ \E i \in 1..Len(Cmds(k)) : f \in Changed(Cmds(k)[i])
<1>1. Len(Cmds(k)) \in 0..Len(Cmds(k))
  BY Shape
<1>2. f \in MadeBy[k][Len(Cmds(k))]
  BY DEF Products
<1>3. QED
  BY <1>1, <1>2, MadeIs DEF Changed

LEMMA FollowingIs ==
  ASSUME NEW k \in Stanzas, NEW f \in Following[k]
  PROVE  /\ f \in Products[k]
         /\ f \in Kept <=> Script[k].marker \in Kept
         /\ \/ f = Script[k].marker
            \/ \A i, j \in 1..Len(Cmds(k)) :
                 MakesMarker(k, j) /\ f \in Changed(Cmds(k)[i]) => j < i
<1>1. DOMAIN Cmds(k) = 1..Len(Cmds(k))
  BY Shape
<1>2. QED
  BY <1>1 DEF Following

(* A command does not touch what another stanza makes.                     *)
LEMMA Apart ==
  ASSUME NEW k \in Stanzas, NEW h \in Stanzas, h # k, NEW j \in 1..Len(Cmds(k)),
         NEW f \in Products[h]
  PROVE  f \notin Changed(Cmds(k)[j])
<1>1. PICK i \in 1..Len(Cmds(h)) : f \in Changed(Cmds(h)[i])
  BY ProductsMade
<1>2. QED
  BY <1>1, Manners

-----------------------------------------------------------------------------
(* Types.                                                                  *)

(* The quality of what is written.                                         *)
LEMMA QualityType == ASSUME NEW c PROVE Quality(c) \in {"part", "whole"}
  BY DEF Quality

LEMMA TypeInit == Init => TypeOK
<1>1. Len(Script) \in Nat
  BY Shape
<1>2. QED
  BY <1>1 DEF Init, TypeOK, Running

(* The command a run is at.                                                *)
LEMMA AtCommand ==
  ASSUME TypeOK, Running, cmd # 0
  PROVE  /\ stanza \in Stanzas
         /\ cmd \in 1..Len(Cmds(stanza))
         /\ Current = Cmds(stanza)[cmd]
         /\ Current \in Command
<1>1. stanza \in Stanzas /\ cmd \in 0..Len(Cmds(stanza))
  BY DEF TypeOK, Running
<1>2. Len(Cmds(stanza)) \in Nat
  BY <1>1, Shape
<1>3. cmd \in 1..Len(Cmds(stanza))
  BY <1>1, <1>2
<1>4. QED
  BY <1>1, <1>3, Shape DEF Current

LEMMA AdvanceType ==
  ASSUME TypeOK, Running, cmd # 0, Advance, status' = status
  PROVE  /\ stanza' \in 1..(Len(Script) + 1)
         /\ cmd' \in Nat
         /\ Running' => cmd' \in 0..Len(Cmds(stanza'))
<1>1. stanza \in Stanzas /\ cmd \in 1..Len(Cmds(stanza)) /\ Len(Cmds(stanza)) \in Nat
  BY AtCommand, Shape
<1>2. Len(Script) \in Nat /\ stanza \in 1..Len(Script)
  BY <1>1, Shape
<1>3. CASE cmd < Len(Cmds(stanza))
  BY <1>1, <1>2, <1>3 DEF Advance
<1>4. CASE ~(cmd < Len(Cmds(stanza)))
  <2>1. cmd' = 0 /\ stanza' = stanza + 1
    BY <1>4 DEF Advance
  <2>2. Running' => Len(Cmds(stanza')) \in Nat
    BY Shape DEF Running
  <2>3. QED
    BY <1>2, <2>1, <2>2
<1>5. QED
  BY <1>3, <1>4

LEMMA TypeStep == TypeOK /\ [Next]_vars => TypeOK'
<1> SUFFICES ASSUME TypeOK, [Next]_vars PROVE TypeOK'
  OBVIOUS
<1> USE DEF TypeOK
<1>0. Len(Script) \in Nat /\ Stanzas = 1..Len(Script)
  BY Shape
<1>1. CASE build
  <2>1. stanza' \in Stanzas => Len(Cmds(stanza')) \in Nat
    BY Shape
  <2>2. QED
    BY <1>0, <1>1, <2>1 DEF build, Running
<1>2. CASE test
  <2>1. stanza \in Stanzas /\ cmd = 0 /\ Len(Cmds(stanza)) \in Nat /\ DOMAIN Cmds(stanza) = 1..Len(Cmds(stanza))
    BY <1>2, Shape DEF test, Running
  <2>2. \E j \in 1..Len(Cmds(stanza)) : MakesMarker(stanza, j)
    BY <2>1, Markers
  <2>3. 1 <= Len(Cmds(stanza))
    BY <2>1, <2>2
  <2>4. Running' => Len(Cmds(stanza')) \in Nat
    BY Shape DEF Running
  <2>5. CASE ToDo(stanza)
    BY <1>0, <1>2, <2>1, <2>3, <2>5 DEF test, Running
  <2>6. CASE ~ToDo(stanza)
    BY <1>0, <1>2, <2>1, <2>4, <2>6 DEF test, Running
  <2>7. QED
    BY <2>5, <2>6
<1>3. CASE command
  <2>1. files' \in [Files -> {"none", "part", "whole"}]
    BY <1>3, QualityType DEF command, Effect
  <2>2. image' \subseteq Files /\ imaged' \subseteq Options
    BY <1>3 DEF command, Copy
  <2>3. status' = status /\ Running /\ cmd # 0 /\ Advance
    BY <1>3 DEF command
  <2>4. QED
    BY <1>3, <2>1, <2>2, <2>3, AdvanceType DEF command
<1>4. CASE unnoticed
  <2>1. files' \in [Files -> {"none", "part", "whole"}]
    BY <1>4 DEF unnoticed, Effect
  <2>2. status' = status /\ Running /\ cmd # 0 /\ Advance /\ events' \in Nat
    BY <1>4 DEF unnoticed, Fails, Event
  <2>3. torn' \subseteq Stanzas
    BY <1>4 DEF unnoticed, Running
  <2>4. QED
    BY <1>4, <2>1, <2>2, <2>3, AdvanceType DEF unnoticed
<1>5. CASE refused
  BY <1>5 DEF refused, BreakOff, Running
<1>6. CASE abort
  <2>1. files' \in [Files -> {"none", "part", "whole"}]
    BY <1>6, QualityType DEF abort
  <2>2. events' \in Nat
    BY <1>6 DEF abort, Fails, Event
  <2>3. QED
    BY <1>6, <2>1, <2>2 DEF abort, BreakOff, Running
<1>7. CASE finish
  BY <1>7 DEF finish, Running
<1>8. CASE menuconfig
  BY <1>8 DEF menuconfig, Event, runVars, Running
<1>9. CASE clean
  BY <1>9 DEF clean, Event, Running
<1>10. CASE UNCHANGED vars
  BY <1>10 DEF vars, runVars, Running
<1>11. QED
  BY <1>1, <1>2, <1>3, <1>4, <1>5, <1>6, <1>7, <1>8, <1>9, <1>10 DEF Next, Run

-----------------------------------------------------------------------------
(* What one command, whole or broken off, leaves as it was.                *)

Touches ==
  /\ \A f \in Files \ Changed(Current) : files'[f] = files[f]
  /\ Present(Script[stanza].marker) => files'[Script[stanza].marker] # "none"

(* The files of other stanzas.                                             *)
LEMMA OthersSame ==
  ASSUME TypeOK, Running, cmd # 0, Touches,
         NEW h \in Stanzas, h # stanza, NEW f \in Products[h]
  PROVE  files'[f] = files[f]
<1>1. stanza \in Stanzas /\ cmd \in 1..Len(Cmds(stanza)) /\ Current = Cmds(stanza)[cmd]
  BY AtCommand
<1>2. f \in Files /\ f \notin Changed(Current)
  BY <1>1, ProductsMade, Apart
<1>3. QED
  BY <1>2 DEF Touches

(* What others need of a stanza still comes after its marker.              *)
LEMMA TouchFirst ==
  ASSUME TypeOK, MarkerFirst, MarkerMade, Running, cmd # 0, Touches
  PROVE  MarkerFirst'
<1>1. stanza \in Stanzas /\ cmd \in 1..Len(Cmds(stanza)) /\ Current = Cmds(stanza)[cmd]
  BY AtCommand
<1>2. SUFFICES ASSUME NEW k \in Stanzas, NEW f \in Following[k], Present(f)'
               PROVE  Present(Script[k].marker)'
  BY DEF MarkerFirst
<1>3. f \in Products[k] /\ Script[k].marker \in Products[k] /\ f \in Files
  BY FollowingIs, Markers, ProductsMade
<1>4. CASE k # stanza
  <2>1. files'[f] = files[f] /\ files'[Script[k].marker] = files[Script[k].marker]
    BY <1>3, <1>4, OthersSame
  <2>2. QED
    BY <1>2, <2>1 DEF MarkerFirst, Present
<1>5. CASE k = stanza /\ f # Script[k].marker
  <2>1. \A i, j \in 1..Len(Cmds(k)) : MakesMarker(k, j) /\ f \in Changed(Cmds(k)[i]) => j < i
    BY <1>5, FollowingIs
  <2>2. PICK j \in 1..Len(Cmds(k)) : MakesMarker(k, j)
    BY Markers
  <2>3. CASE f \in Changed(Current)
    <3>1. j < cmd
      BY <1>1, <1>5, <2>1, <2>2, <2>3
    <3>2. j \in 1..(cmd - 1)
      BY <1>1, <1>5, <2>2, <3>1, Shape
    <3>3. Present(Script[k].marker)
      BY <1>5, <2>2, <3>2 DEF MarkerMade, Busy
    <3>4. QED
      BY <1>5, <3>3 DEF Touches, Present
  <2>4. CASE f \notin Changed(Current)
    <3>1. Present(f)
      BY <1>2, <1>3, <2>4 DEF Touches, Present
    <3>2. Present(Script[k].marker)
      BY <3>1 DEF MarkerFirst
    <3>3. QED
      BY <1>5, <3>2 DEF Touches, Present
  <2>5. QED
    BY <2>3, <2>4
<1>6. CASE f = Script[k].marker
  BY <1>2, <1>6
<1>7. QED
  BY <1>4, <1>5, <1>6

(* The run advances past a command that has created the marker.            *)
LEMMA AdvanceMade ==
  ASSUME TypeOK, MarkerMade, Running, cmd # 0, Touches, Advance, status' = status,
         MakesMarker(stanza, cmd) => files'[Script[stanza].marker] # "none"
  PROVE  MarkerMade'
<1>1. stanza \in Stanzas /\ cmd \in 1..Len(Cmds(stanza)) /\ Len(Cmds(stanza)) \in Nat
  BY AtCommand, Shape
<1>2. SUFFICES ASSUME NEW k \in Stanzas, Busy(k)', NEW j \in 1..(cmd' - 1), MakesMarker(k, j)
               PROVE  Present(Script[k].marker)'
  BY DEF MarkerMade
<1>3. cmd' = cmd + 1 /\ stanza' = stanza /\ k = stanza
  BY <1>2 DEF Busy, Advance
<1>4. CASE j = cmd
  BY <1>2, <1>3, <1>4 DEF Present
<1>5. CASE j # cmd
  <2>1. j \in 1..(cmd - 1)
    BY <1>1, <1>3, <1>5
  <2>2. Present(Script[k].marker)
    BY <1>2, <1>3, <2>1 DEF MarkerMade, Busy
  <2>3. QED
    BY <1>3, <2>2 DEF Touches, Present
<1>6. QED
  BY <1>4, <1>5

(* The other stanzas are as built as they were.                            *)
LEMMA OthersBuilt ==
  ASSUME TypeOK, Running, cmd # 0, Touches, sourced' = sourced,
         (Advance /\ status' = status) \/ status' = "aborted",
         NEW h \in Stanzas, h # stanza, Built(h)
  PROVE  Built(h)'
<1>1. stanza \in Nat /\ h \in Nat
  BY Shape DEF TypeOK
<1>2. \A f \in Products[h] : files'[f] = files[f]
  BY OthersSame
<1>3. Script[h].marker \in Products[h]
  BY Markers
<1>4. ~Busy(h)
  BY DEF Busy
<1>5. ~Busy(h)'
  BY DEF Busy, Running, Advance
<1>6. Past(h)' => Past(h)
  BY <1>1 DEF Past, Running, Advance
<1>7. Whole(Products[h]) => Whole(Products[h])'
  BY <1>2 DEF Whole
<1>8. Present(Script[h].marker)' => Present(Script[h].marker)
  BY <1>2, <1>3 DEF Present
<1>9. On(h, sourced)' <=> On(h, sourced)
  BY DEF On
<1>10. QED
  BY <1>4, <1>5, <1>6, <1>7, <1>8, <1>9 DEF Built

(* A command done in full, or believed to be.                              *)
LEMMA EffectTouches ==
  ASSUME TypeOK, Running, cmd # 0, NEW q \in {"part", "whole"}, Effect(Current, q)
  PROVE  /\ Touches
         /\ MakesMarker(stanza, cmd) => files'[Script[stanza].marker] # "none"
<1>1. stanza \in Stanzas /\ cmd \in 1..Len(Cmds(stanza)) /\ Current = Cmds(stanza)[cmd]
  BY AtCommand
<1>2. Script[stanza].marker \in Files /\ Script[stanza].marker \notin Current.removes
  BY <1>1, Shape, Manners
<1>3. \A f \in Files \ Changed(Current) : files'[f] = files[f]
  BY DEF Effect, Changed
<1>4. \A f \in Files \ Current.removes :
         /\ files[f] # "none" => files'[f] # "none"
         /\ f \in Current.begins \cup Current.makes => files'[f] # "none"
  BY DEF Effect
<1>5. QED
  BY <1>1, <1>2, <1>3, <1>4 DEF Touches, Present, MakesMarker

(* A command broken off.                                                   *)
LEMMA AbortTouches ==
  ASSUME TypeOK, abort
  PROVE  Touches
<1>1. Running /\ cmd # 0
  BY DEF abort
<1>2. stanza \in Stanzas /\ cmd \in 1..Len(Cmds(stanza)) /\ Current = Cmds(stanza)[cmd]
  BY <1>1, AtCommand
<1>3. Script[stanza].marker \in Files /\ Script[stanza].marker \notin Current.removes
  BY <1>2, Shape, Manners
<1>4. PICK done \in SUBSET Changed(Current) : \E cut \in SUBSET (Changed(Current) \ done) :
       files' = [f \in Files |->
                   IF f \in cut \cup (done \cap Current.begins) THEN "part"
                   ELSE IF f \in done \cap Current.makes THEN Quality(Current)
                   ELSE IF f \in done \cap Current.removes THEN "none"
                   ELSE files[f]]
  BY DEF abort
<1>5. \A f \in Files \ Changed(Current) : files'[f] = files[f]
  BY <1>4 DEF Changed
<1>6. \A f \in Files \ Current.removes : files[f] # "none" => files'[f] # "none"
  BY <1>4, QualityType
<1>7. QED
  BY <1>3, <1>5, <1>6 DEF Touches, Present

(* What a command of an untorn stanza finds is whole.                      *)
LEMMA NeedsWhole ==
  ASSUME BuildInv, Running, cmd # 0, Clear(stanza), \A f \in Current.needs : Present(f)
  PROVE  Quality(Current) = "whole"
<1>1. stanza \in Stanzas /\ cmd \in 1..Len(Cmds(stanza)) /\ Current = Cmds(stanza)[cmd]
  BY AtCommand DEF BuildInv
<1>2. SUFFICES ASSUME NEW f \in Current.needs PROVE files[f] = "whole"
  BY DEF Quality
<1>3. CASE f \in MadeBy[stanza][cmd - 1]
  BY <1>1, <1>3 DEF BuildInv, Built, Busy, Whole
<1>4. CASE f \notin MadeBy[stanza][cmd - 1]
  <2>1. PICK h \in 1..(stanza - 1) : f \in Following[h]
    BY <1>1, <1>2, <1>4, Manners
  <2>2. h \in Stanzas /\ h # stanza /\ 1..h \subseteq 1..stanza
    BY <1>1, Shape
  <2>3. Clear(h)
    BY <2>2 DEF Clear
  <2>4. Present(Script[h].marker)
    BY <1>2, <2>1, <2>2 DEF BuildInv, MarkerFirst
  <2>5. Whole(Products[h])
    BY <2>2, <2>3, <2>4 DEF BuildInv, Built, Busy
  <2>6. QED
    BY <2>1, <2>2, <2>5, FollowingIs DEF Whole
<1>5. QED
  BY <1>3, <1>4

(* What it and those before it make is whole after it.                     *)
LEMMA CommandMakes ==
  ASSUME BuildInv, command, Clear(stanza)
  PROVE  \A f \in MadeBy[stanza][cmd] : files'[f] = "whole"
<1>1. TypeOK /\ Running /\ cmd # 0 /\ Effect(Current, Quality(Current))
      /\ \A f \in Current.needs : Present(f)
  BY DEF BuildInv, command
<1>2. stanza \in Stanzas /\ cmd \in 1..Len(Cmds(stanza)) /\ Current = Cmds(stanza)[cmd]
  BY <1>1, AtCommand
<1>3. Effect(Current, "whole")
  BY <1>1, NeedsWhole
<1>4. TAKE f \in MadeBy[stanza][cmd]
<1>5. f \in Files
  BY <1>2, MadeStep
<1>6. CASE f \in Current.makes
  BY <1>2, <1>3, <1>5, <1>6, Manners DEF Effect
<1>7. CASE f \notin Current.makes
  <2>1. f \in MadeBy[stanza][cmd - 1] /\ f \notin Current.removes \cup Current.begins
    BY <1>2, <1>7, MadeStep
  <2>2. files[f] = "whole"
    BY <1>1, <1>2, <2>1 DEF BuildInv, Built, Busy, Whole
  <2>3. QED
    BY <1>3, <1>5, <1>7, <2>1, <2>2 DEF Effect
<1>8. QED
  BY <1>6, <1>7

(* The stanza being run is as built as its commands have got.              *)
LEMMA OwnBuilt ==
  ASSUME BuildInv, command, Clear(stanza), NEW k \in Stanzas, k = stanza
  PROVE  Built(k)'
<1>1. TypeOK /\ Running /\ cmd # 0 /\ Advance /\ status' = status
  BY DEF BuildInv, command
<1>2. cmd \in 1..Len(Cmds(k)) /\ Len(Cmds(k)) \in Nat /\ stanza \in Nat
  BY <1>1, AtCommand, Shape DEF TypeOK
<1>3. \A f \in MadeBy[k][cmd] : files'[f] = "whole"
  BY CommandMakes
<1>4. CASE cmd < Len(Cmds(k))
  <2>1. cmd' = cmd + 1 /\ stanza' = stanza
    BY <1>1, <1>4 DEF Advance
  <2>2. Busy(k)' /\ ~Past(k)'
    BY <1>1, <1>2, <2>1 DEF Busy, Past, Running
  <2>3. cmd' - 1 = cmd
    BY <1>2, <2>1
  <2>4. Whole(MadeBy[k][cmd - 1])'
    BY <1>3, <2>3 DEF Whole
  <2>5. QED
    BY <2>2, <2>4 DEF Built
<1>5. CASE ~(cmd < Len(Cmds(k)))
  <2>1. cmd' = 0 /\ ~Busy(k)'
    BY <1>1, <1>5 DEF Advance, Busy
  <2>2. cmd = Len(Cmds(k))
    BY <1>2, <1>5
  <2>3. Whole(Products[k])'
    BY <1>3, <2>2 DEF Whole, Products
  <2>4. QED
    BY <2>1, <2>3 DEF Built
<1>6. QED
  BY <1>4, <1>5

-----------------------------------------------------------------------------
(* Every step keeps the invariant.                                         *)

LEMMA BuildInvInit == Init => BuildInv
<1> SUFFICES ASSUME Init PROVE BuildInv
  OBVIOUS
<1>1. TypeOK
  BY TypeInit
<1>2. \A k \in Stanzas : ~Present(Script[k].marker)
  BY Shape DEF Init, Present
<1>3. \A k \in Stanzas : Built(k)
  BY <1>2 DEF Init, Built, Past, Busy, Running
<1>4. MarkerFirst
  <2>1. \A k \in Stanzas : \A f \in Following[k] : f \in Files
    BY FollowingIs, ProductsMade
  <2>2. QED
    BY <2>1 DEF Init, MarkerFirst, Present
<1>5. MarkerMade
  BY DEF Init, MarkerMade, Busy
<1>6. QED
  BY <1>1, <1>3, <1>4, <1>5 DEF BuildInv

(* A step that leaves the files alone, and commands none.                  *)
LEMMA QuietStep ==
  ASSUME BuildInv, TypeOK', files' = files, ~(Running /\ cmd # 0)', torn \subseteq torn',
         \A k \in Stanzas : Clear(k)' =>
           /\ Present(Script[k].marker) => Whole(Products[k])
           /\ (On(k, sourced) /\ Past(k))' => Whole(Products[k])
  PROVE  BuildInv'
<1>1. ASSUME NEW k \in Stanzas, Clear(k)' PROVE Built(k)'
  BY <1>1 DEF Built, Busy, Whole, Present
<1>2. MarkerFirst' /\ MarkerMade'
  BY DEF BuildInv, MarkerFirst, MarkerMade, Busy, Present
<1>3. QED
  BY <1>1, <1>2 DEF BuildInv

LEMMA TestStep == BuildInv /\ TypeOK' /\ test => BuildInv'
<1> SUFFICES ASSUME BuildInv, TypeOK', test PROVE BuildInv'
  OBVIOUS
<1>1. stanza \in Stanzas /\ stanza \in Nat /\ cmd = 0 /\ Running /\ files' = files
      /\ torn' = torn /\ sourced' = sourced /\ status' = status
  BY DEF BuildInv, TypeOK, test, Running
<1>2. \A k \in Stanzas : ~Busy(k)
  BY <1>1 DEF Busy
<1>3. CASE ToDo(stanza)
  <2>1. cmd' = 1 /\ stanza' = stanza
    BY <1>3 DEF test
  <2>2. ASSUME NEW k \in Stanzas, Clear(k)' PROVE Built(k)'
    <3>1. Built(k)
      BY <1>1, <2>2 DEF BuildInv, Clear
    <3>2. CASE k = stanza
      <4>1. Whole(MadeBy[k][cmd - 1])'
        <5>1. cmd' - 1 = 0
          BY <2>1
        <5>2. QED
          BY <5>1, MadeNone DEF Whole
      <4>2. ~Past(k)' /\ ~Present(Script[k].marker)'
        BY <1>1, <1>3, <2>1, <3>2 DEF Past, Running, ToDo, Present
      <4>3. QED
        BY <4>1, <4>2 DEF Built
    <3>3. CASE k # stanza
      BY <1>1, <1>2, <2>1, <3>1, <3>3 DEF Built, Busy, Past, Whole, Present, On
    <3>4. QED
      BY <3>2, <3>3
  <2>3. MarkerFirst'
    BY <1>1 DEF BuildInv, MarkerFirst, Present
  <2>4. \A j \in 1..(cmd' - 1) : FALSE
    BY <2>1
  <2>5. MarkerMade'
    BY <2>4 DEF MarkerMade
  <2>6. QED
    BY <2>2, <2>3, <2>5 DEF BuildInv
<1>4. CASE ~ToDo(stanza)
  <2>1. stanza' = stanza + 1 /\ cmd' = 0
    BY <1>1, <1>4 DEF test
  <2>2. ASSUME NEW k \in Stanzas, Clear(k)'
        PROVE  /\ Present(Script[k].marker) => Whole(Products[k])
               /\ (On(k, sourced) /\ Past(k))' => Whole(Products[k])
    <3>1. Built(k) /\ k \in Nat
      BY <1>1, <2>2, Shape DEF BuildInv, Clear
    <3>2. Present(Script[k].marker) => Whole(Products[k])
      BY <1>2, <3>1 DEF Built
    <3>3. CASE k = stanza
      BY <1>1, <1>4, <3>2, <3>3 DEF ToDo, On
    <3>4. CASE k # stanza
      <4>1. Past(k)' => Past(k)
        BY <1>1, <2>1, <3>1, <3>4 DEF Past, Running
      <4>2. QED
        BY <1>1, <3>1, <3>2, <4>1 DEF Built, On
    <3>5. QED
      BY <3>2, <3>3, <3>4
  <2>3. QED
    BY <1>1, <2>1, <2>2, QuietStep
<1>5. QED
  BY <1>3, <1>4

LEMMA CommandStep == BuildInv /\ TypeOK' /\ command => BuildInv'
<1> SUFFICES ASSUME BuildInv, TypeOK', command PROVE BuildInv'
  OBVIOUS
<1>1. TypeOK /\ Running /\ cmd # 0 /\ Advance /\ Effect(Current, Quality(Current))
      /\ status' = status /\ sourced' = sourced /\ torn' = torn
  BY DEF BuildInv, command
<1>2. Touches /\ (MakesMarker(stanza, cmd) => files'[Script[stanza].marker] # "none")
  BY <1>1, QualityType, EffectTouches
<1>3. MarkerFirst' /\ MarkerMade'
  BY <1>1, <1>2, TouchFirst, AdvanceMade DEF BuildInv
<1>4. ASSUME NEW k \in Stanzas, Clear(k)' PROVE Built(k)'
  <2>1. Clear(k) /\ Built(k)
    BY <1>1, <1>4 DEF BuildInv, Clear
  <2>2. CASE k = stanza
    BY <2>1, <2>2, OwnBuilt
  <2>3. CASE k # stanza
    BY <1>1, <1>2, <2>1, <2>3, OthersBuilt
  <2>4. QED
    BY <2>2, <2>3
<1>5. QED
  BY <1>3, <1>4 DEF BuildInv

LEMMA UnnoticedStep == BuildInv /\ TypeOK' /\ unnoticed => BuildInv'
<1> SUFFICES ASSUME BuildInv, TypeOK', unnoticed PROVE BuildInv'
  OBVIOUS
<1>1. TypeOK /\ Running /\ cmd # 0 /\ Advance /\ Effect(Current, "part")
      /\ status' = status /\ sourced' = sourced /\ torn' = torn \cup {stanza}
  BY DEF BuildInv, unnoticed
<1>2. Touches /\ (MakesMarker(stanza, cmd) => files'[Script[stanza].marker] # "none")
  BY <1>1, EffectTouches
<1>3. MarkerFirst' /\ MarkerMade'
  BY <1>1, <1>2, TouchFirst, AdvanceMade DEF BuildInv
<1>4. ASSUME NEW k \in Stanzas, Clear(k)' PROVE Built(k)'
  <2>1. Clear(k) /\ Built(k)
    BY <1>1, <1>4 DEF BuildInv, Clear
  <2>2. k \in Nat /\ stanza \notin 1..k
    BY <1>1, <1>4, Shape DEF Clear
  <2>3. k # stanza
    BY <2>2, Shape
  <2>4. QED
    BY <1>1, <1>2, <2>1, <2>3, OthersBuilt
<1>5. QED
  BY <1>3, <1>4 DEF BuildInv

(* The run is broken off, with or without a change to the files.           *)
LEMMA BrokenOff ==
  ASSUME BuildInv, TypeOK', Running, cmd # 0, Touches, BreakOff
  PROVE  BuildInv'
<1>1. TypeOK /\ stanza \in Stanzas /\ status' = "aborted" /\ sourced' = sourced
      /\ torn' = IF files'[Script[stanza].marker] # "none" THEN torn \cup {stanza} ELSE torn
  BY DEF BuildInv, Running, BreakOff
<1>2. MarkerFirst'
  BY <1>1, TouchFirst DEF BuildInv
<1>3. MarkerMade'
  BY <1>1 DEF MarkerMade, Busy, Running
<1>4. ASSUME NEW k \in Stanzas, Clear(k)' PROVE Built(k)'
  <2>1. Clear(k) /\ Built(k)
    BY <1>1, <1>4 DEF BuildInv, Clear
  <2>2. CASE k # stanza
    BY <1>1, <2>1, <2>2, OthersBuilt
  <2>3. CASE k = stanza
    <3>1. k \in 1..k
      BY Shape
    <3>2. ~Present(Script[k].marker)'
      BY <1>1, <1>4, <2>3, <3>1 DEF Clear, Present
    <3>3. QED
      BY <1>1, <3>2 DEF Built, Past, Busy, Running
  <2>4. QED
    BY <2>2, <2>3
<1>5. QED
  BY <1>2, <1>3, <1>4 DEF BuildInv

LEMMA BrokenStep == BuildInv /\ TypeOK' /\ (refused \/ abort) => BuildInv'
<1> SUFFICES ASSUME BuildInv, TypeOK', refused \/ abort PROVE BuildInv'
  OBVIOUS
<1>1. Running /\ cmd # 0 /\ BreakOff /\ TypeOK
  BY DEF BuildInv, refused, abort
<1>2. CASE refused
  <2>1. Touches
    BY <1>2 DEF refused, Touches, Present
  <2>2. QED
    BY <1>1, <2>1, BrokenOff
<1>3. CASE abort
  BY <1>1, <1>3, AbortTouches, BrokenOff
<1>4. QED
  BY <1>2, <1>3

LEMMA BetweenStep == BuildInv /\ TypeOK' /\ (build \/ finish \/ menuconfig \/ UNCHANGED vars) => BuildInv'
<1> SUFFICES ASSUME BuildInv, TypeOK', build \/ finish \/ menuconfig \/ UNCHANGED vars
             PROVE  BuildInv'
  OBVIOUS
<1>1. TypeOK /\ \A k \in Stanzas : k \in Nat
  BY Shape DEF BuildInv
<1>2. ASSUME NEW k \in Stanzas, Clear(k), ~Busy(k)
      PROVE  /\ Present(Script[k].marker) => Whole(Products[k])
             /\ On(k, sourced) /\ Past(k) => Whole(Products[k])
  BY <1>2 DEF BuildInv, Built
<1>3. CASE build
  <2>1. \A k \in Stanzas : ~Busy(k) /\ ~Past(k)' /\ (Clear(k)' => Clear(k))
    <3>1. \A k \in Stanzas : ~(k < 1)
      BY Shape
    <3>2. QED
      BY <1>3, <3>1 DEF build, Busy, Past, Running, Clear
  <2>2. QED
    BY <1>2, <1>3, <2>1, QuietStep DEF build
<1>4. CASE finish
  <2>1. Len(Script) \in Nat /\ Stanzas = 1..Len(Script)
    BY Shape
  <2>2. stanza = Len(Script) + 1
    BY <1>1, <1>4, <2>1 DEF finish, TypeOK
  <2>3. \A k \in Stanzas : ~Busy(k) /\ Past(k) /\ (Clear(k)' => Clear(k)) /\ (On(k, sourced)' <=> On(k, sourced))
    BY <1>4, <2>1, <2>2 DEF finish, Busy, Past, Running, Clear, On
  <2>4. QED
    BY <1>2, <1>4, <2>3, QuietStep DEF finish, Running
<1>5. CASE menuconfig
  <2>1. \A k \in Stanzas : /\ ~Busy(k) /\ (Past(k)' <=> Past(k)) /\ (Clear(k)' => Clear(k))
                           /\ On(k, sourced)' <=> On(k, sourced)
    BY <1>5 DEF menuconfig, runVars, Busy, Past, Running, Clear, On
  <2>2. QED
    BY <1>2, <1>5, <2>1, QuietStep DEF menuconfig, runVars, Running
<1>6. CASE UNCHANGED vars
  BY <1>6 DEF vars, runVars, BuildInv, Built, Clear, MarkerFirst, MarkerMade, Past, Busy,
              Running, On, Present, Whole
<1>7. QED
  BY <1>3, <1>4, <1>5, <1>6

(* What clean.sh deletes, it deletes with all later stanzas' products, but *)
(* for files made before their stanza's marker, which none relies on.      *)
LEMMA CleanStep == BuildInv /\ TypeOK' /\ clean => BuildInv'
<1> SUFFICES ASSUME BuildInv, TypeOK', clean PROVE BuildInv'
  OBVIOUS
<1>1. /\ status # "running" /\ status' = "clean"
      /\ files' = [f \in Files |-> IF f \in Kept THEN files[f] ELSE "none"]
      /\ torn' = {k \in torn : Script[k].marker \in Kept}
  BY DEF clean
<1>2. ASSUME NEW k \in Stanzas, Clear(k)' PROVE Built(k)'
  <2>1. ~Busy(k) /\ ~Busy(k)' /\ ~Past(k)'
    BY <1>1 DEF Busy, Past, Running
  <2>2. SUFFICES ASSUME Present(Script[k].marker)' PROVE Whole(Products[k])'
    BY <2>1 DEF Built
  <2>3. Script[k].marker \in Files
    BY Shape
  <2>4. Script[k].marker \in Kept /\ Present(Script[k].marker)
    BY <1>1, <2>2, <2>3 DEF Present
  <2>5. Products[k] \subseteq Kept /\ \A h \in 1..k : Script[h].marker \in Kept
    BY <2>4, Markers
  <2>6. Clear(k)
    BY <1>1, <1>2, <2>5 DEF Clear
  <2>7. Whole(Products[k])
    BY <2>1, <2>4, <2>6 DEF BuildInv, Built
  <2>8. \A f \in Products[k] : f \in Files
    BY ProductsMade
  <2>9. QED
    BY <1>1, <2>5, <2>7, <2>8 DEF Whole
<1>3. ASSUME NEW k \in Stanzas, NEW f \in Following[k], Present(f)'
      PROVE  Present(Script[k].marker)'
  <2>1. f \in Files /\ Script[k].marker \in Files /\ (f \in Kept <=> Script[k].marker \in Kept)
    BY FollowingIs, ProductsMade, Shape
  <2>2. f \in Kept /\ Present(f)
    BY <1>1, <1>3, <2>1 DEF Present
  <2>3. Present(Script[k].marker)
    BY <2>2 DEF BuildInv, MarkerFirst
  <2>4. QED
    BY <1>1, <2>1, <2>2, <2>3 DEF Present
<1>4. MarkerMade'
  BY <1>1 DEF MarkerMade, Busy, Running
<1>5. QED
  BY <1>2, <1>3, <1>4 DEF BuildInv, MarkerFirst

LEMMA BuildInvStep == BuildInv /\ [Next]_vars => BuildInv'
<1> SUFFICES ASSUME BuildInv, [Next]_vars PROVE BuildInv'
  OBVIOUS
<1>1. TypeOK'
  BY TypeStep DEF BuildInv
<1>2. QED
  BY <1>1, TestStep, CommandStep, UnnoticedStep, BrokenStep, BetweenStep, CleanStep
     DEF Next, Run

-----------------------------------------------------------------------------
(* The run that has ended with success has all stanzas behind it.          *)
LEMMA BuildInvSuffices == BuildInv => SuccessMeansBuilt
<1> SUFFICES ASSUME BuildInv, status = "ok", torn = {}, NEW k \in Stanzas, On(k, sourced)
             PROVE  Whole(Products[k])
  BY DEF SuccessMeansBuilt
<1>1. Clear(k) /\ Past(k)
  BY DEF Clear, Past
<1>2. QED
  BY <1>1 DEF BuildInv, Built

(* The invariant that carries the build: in every reachable state a stanza *)
(* whose marker is in place has been finished, or is the one being run,    *)
(* whatever stopped build.sh before and wherever.                          *)
THEOREM BuildCorrect == Spec => []BuildInv
<1>1. Init => BuildInv
  BY BuildInvInit
<1>2. BuildInv /\ [Next]_vars => BuildInv'
  BY BuildInvStep
<1>3. QED
  BY <1>1, <1>2, PTL DEF Spec

(* When build.sh exits with success, what it was to build is there and     *)
(* whole, unless an unfinished stanza's marker was left in place: for any  *)
(* script that keeps to ScriptAssumption, any number of failed and killed  *)
(* runs, edits of the configuration and clean-ups.                         *)
THEOREM SuccessCorrect == Spec => []SuccessMeansBuilt
<1>1. BuildInv => SuccessMeansBuilt
  BY BuildInvSuffices
<1>2. QED
  BY <1>1, BuildCorrect, PTL

-----------------------------------------------------------------------------
(* What is in the root image.                                              *)

LEMMA Filler ==
  ASSUME NEW r \in Stanzas, NEW j \in 1..Len(Cmds(r)), Cmds(r)[j].copies
  PROVE  /\ Script[r].option = Always
         /\ \A h \in Stanzas : \A i \in 1..Len(Cmds(h)) :
              Cmds(h)[i].copies => h = r /\ i = j
<1>1. \A h \in Stanzas : DOMAIN Cmds(h) = 1..Len(Cmds(h))
  BY Shape
<1>2. QED
  BY <1>1, ImageAssumption

(* A step that fills no image and puts no filler in place.                 *)
LEMMA ImageKept ==
  ASSUME Filled, UNCHANGED <<image, imaged>>,
         \A r \in Stanzas : \A j \in 1..Len(Cmds(r)) :
           Cmds(r)[j].copies /\ Clear(r)' /\ InPlace(r, j)' => Clear(r) /\ InPlace(r, j)
  PROVE  Filled'
<1>1. \A r \in Stanzas : DOMAIN Cmds(r) = 1..Len(Cmds(r))
  BY Shape
<1>2. \A r \in Stanzas : Taken(r)' <=> Taken(r)
  BY DEF Taken, On
<1>3. QED
  BY <1>1, <1>2 DEF Filled

(* The marker of a stanza other than the one being run.                    *)
LEMMA OthersInPlace ==
  ASSUME TypeOK, Running, cmd # 0, Touches,
         (Advance /\ status' = status) \/ status' = "aborted",
         NEW r \in Stanzas, r # stanza, NEW j, InPlace(r, j)'
  PROVE  InPlace(r, j)
<1>1. ~Busy(r) /\ ~Busy(r)'
  BY DEF Busy, Running, Advance
<1>2. files'[Script[r].marker] = files[Script[r].marker]
  BY Markers, OthersSame
<1>3. QED
  BY <1>1, <1>2 DEF InPlace, Present

(* When the image is filled, what comes before is whole.                   *)
LEMMA FillsWell ==
  ASSUME BuildInv, command, Current.copies, NEW r \in Stanzas, r = stanza, Clear(r)
  PROVE  Taken(r)'
<1>1. TypeOK /\ Running /\ cmd # 0 /\ Copy(Current)
  BY DEF BuildInv, command
<1>2. r \in Nat
  BY <1>1 DEF TypeOK
<1>3. image' = {f \in Files : files[f] = "whole"} /\ imaged' = sourced
  BY <1>1 DEF Copy
<1>4. ASSUME NEW k \in 1..(r - 1), On(k, sourced)
      PROVE  Products[k] \subseteq image'
  <2>1. k \in Stanzas /\ k < r /\ 1..k \subseteq 1..r
    BY <1>2, Shape
  <2>2. Clear(k) /\ Past(k)
    BY <1>1, <2>1 DEF Clear, Past, Running
  <2>3. Whole(Products[k])
    BY <1>4, <2>1, <2>2 DEF BuildInv, Built
  <2>4. \A f \in Products[k] : f \in Files
    BY <2>1, ProductsMade
  <2>5. QED
    BY <1>3, <2>3, <2>4 DEF Whole
<1>5. ASSUME NEW k \in 1..(r - 1), On(k, imaged)'
      PROVE  Products[k] \subseteq image'
  <2>1. On(k, sourced)
    BY <1>3, <1>5 DEF On
  <2>2. QED
    BY <1>4, <2>1
<1>6. QED
  BY <1>5 DEF Taken

LEMMA FilledCommand == BuildInv /\ Filled /\ command => Filled'
<1> SUFFICES ASSUME BuildInv, Filled, command PROVE Filled'
  OBVIOUS
<1>1. TypeOK /\ Running /\ cmd # 0 /\ Advance /\ Effect(Current, Quality(Current))
      /\ status' = status /\ torn' = torn /\ Copy(Current)
  BY DEF BuildInv, command
<1>2. Touches
  BY <1>1, QualityType, EffectTouches
<1>3. stanza \in Stanzas /\ cmd \in 1..Len(Cmds(stanza)) /\ Current = Cmds(stanza)[cmd]
  BY <1>1, AtCommand
<1>4. \A r \in Stanzas : Clear(r)' <=> Clear(r)
  BY <1>1 DEF Clear
<1>5. CASE Current.copies
  <2>1. ASSUME NEW r \in Stanzas, NEW j \in DOMAIN Cmds(r), Cmds(r)[j].copies, Clear(r)'
        PROVE  Taken(r)'
    <3>1. j \in 1..Len(Cmds(r))
      BY Shape
    <3>2. r = stanza
      BY <1>3, <1>5, <2>1, <3>1, Filler
    <3>3. QED
      BY <1>4, <1>5, <2>1, <3>2, FillsWell
  <2>2. QED
    BY <2>1 DEF Filled
<1>6. CASE ~Current.copies
  <2>1. UNCHANGED <<image, imaged>>
    BY <1>1, <1>6 DEF Copy
  <2>2. ASSUME NEW r \in Stanzas, NEW j \in 1..Len(Cmds(r)), Cmds(r)[j].copies,
               InPlace(r, j)'
        PROVE  InPlace(r, j)
    <3>1. CASE r # stanza
      BY <1>1, <1>2, <2>2, <3>1, OthersInPlace
    <3>2. CASE r = stanza
      <4>1. Busy(r) /\ j # cmd /\ Len(Cmds(r)) \in Nat /\ cmd \in 1..Len(Cmds(r))
        BY <1>1, <1>3, <1>6, <2>2, <3>2, Shape DEF Busy
      <4>2. CASE cmd < Len(Cmds(r))
        <5>1. cmd' = cmd + 1 /\ stanza' = stanza
          BY <1>1, <3>2, <4>2 DEF Advance
        <5>2. Busy(r)'
          BY <1>1, <3>2, <4>1, <5>1 DEF Busy, Running
        <5>3. j < cmd + 1
          BY <2>2, <5>1, <5>2 DEF InPlace
        <5>4. QED
          BY <4>1, <5>3 DEF InPlace
      <4>3. CASE ~(cmd < Len(Cmds(r)))
        BY <4>1, <4>3 DEF InPlace
      <4>4. QED
        BY <4>2, <4>3
    <3>3. QED
      BY <3>1, <3>2
  <2>3. QED
    BY <1>4, <2>1, <2>2, ImageKept
<1>7. QED
  BY <1>5, <1>6

LEMMA FilledTest == BuildInv /\ Filled /\ test => Filled'
<1> SUFFICES ASSUME BuildInv, Filled, test PROVE Filled'
  OBVIOUS
<1>1. Running /\ cmd = 0 /\ UNCHANGED <<files, torn, image, imaged, status>>
  BY DEF test
<1>2. ASSUME NEW r \in Stanzas, NEW j \in 1..Len(Cmds(r)), InPlace(r, j)'
      PROVE  InPlace(r, j)
  <2>1. ~Busy(r)
    BY <1>1 DEF Busy
  <2>2. ~Busy(r)'
    <3>1. CASE ToDo(stanza)
      <4>1. cmd' = 1
        BY <3>1 DEF test
      <4>2. ~(j < cmd')
        BY <4>1
      <4>3. QED
        BY <1>2, <4>2 DEF InPlace
    <3>2. CASE ~ToDo(stanza)
      BY <1>1, <3>2 DEF test, Busy
    <3>3. QED
      BY <3>1, <3>2
  <2>3. QED
    BY <1>1, <1>2, <2>1, <2>2 DEF InPlace, Present
<1>3. QED
  BY <1>1, <1>2, ImageKept DEF Clear

(* What ends a stanza without finishing it leaves its marker away, or the  *)
(* stanza torn.                                                            *)
LEMMA FilledBroken == BuildInv /\ Filled /\ (unnoticed \/ refused \/ abort) => Filled'
<1> SUFFICES ASSUME BuildInv, Filled, unnoticed \/ refused \/ abort PROVE Filled'
  OBVIOUS
<1>1. TypeOK /\ Running /\ cmd # 0 /\ UNCHANGED <<image, imaged>> /\ stanza \in Stanzas
  BY DEF BuildInv, unnoticed, refused, abort, BreakOff, Running
<1>2. Touches
  <2>1. CASE unnoticed
    BY <1>1, <2>1, EffectTouches DEF unnoticed
  <2>2. CASE refused
    BY <2>2 DEF refused, Touches, Present
  <2>3. CASE abort
    BY <1>1, <2>3, AbortTouches
  <2>4. QED
    BY <2>1, <2>2, <2>3
<1>3. (Advance /\ status' = status) \/ status' = "aborted"
  BY DEF unnoticed, refused, abort, BreakOff
<1>4. torn \subseteq torn'
  BY DEF unnoticed, refused, abort, BreakOff
<1>5. ASSUME NEW r \in Stanzas, NEW j \in 1..Len(Cmds(r)), Clear(r)', InPlace(r, j)'
      PROVE  Clear(r) /\ InPlace(r, j)
  <2>1. Clear(r)
    BY <1>4, <1>5 DEF Clear
  <2>2. r # stanza
    <3>1. SUFFICES ASSUME r = stanza PROVE stanza \in torn'
      BY <1>5, Shape DEF Clear
    <3>2. CASE unnoticed
      BY <3>2 DEF unnoticed
    <3>3. CASE refused \/ abort
      <4>1. BreakOff
        BY <3>3 DEF refused, abort
      <4>2. ~Busy(r)'
        BY <4>1 DEF BreakOff, Busy, Running
      <4>3. files'[Script[stanza].marker] # "none"
        BY <1>5, <3>1, <4>2 DEF InPlace, Present
      <4>4. QED
        BY <4>1, <4>3 DEF BreakOff
    <3>4. QED
      BY <3>2, <3>3
  <2>3. QED
    BY <1>1, <1>2, <1>3, <1>5, <2>1, <2>2, OthersInPlace
<1>6. QED
  BY <1>1, <1>5, ImageKept

LEMMA FilledBetween ==
  BuildInv /\ Filled /\ (build \/ finish \/ menuconfig \/ UNCHANGED vars) => Filled'
<1> SUFFICES ASSUME BuildInv, Filled, build \/ finish \/ menuconfig \/ UNCHANGED vars
             PROVE  Filled'
  OBVIOUS
<1>1. UNCHANGED <<files, image, imaged, torn>>
  BY DEF build, finish, menuconfig, vars
<1>2. \A r \in Stanzas : Busy(r)' <=> Busy(r)
  BY DEF build, finish, menuconfig, vars, runVars, Busy, Running
<1>3. \A r \in Stanzas : Busy(r) => cmd' = cmd
  BY DEF build, finish, menuconfig, vars, runVars, Busy, Running
<1>4. QED
  BY <1>1, <1>2, <1>3, ImageKept DEF InPlace, Present, Clear

(* The marker clean.sh keeps is behind others that it keeps.               *)
LEMMA FilledClean == BuildInv /\ Filled /\ clean => Filled'
<1> SUFFICES ASSUME BuildInv, Filled, clean PROVE Filled'
  OBVIOUS
<1>1. /\ status # "running" /\ status' = "clean" /\ UNCHANGED <<image, imaged>>
      /\ files' = [f \in Files |-> IF f \in Kept THEN files[f] ELSE "none"]
      /\ torn' = {k \in torn : Script[k].marker \in Kept}
  BY DEF clean
<1>2. ASSUME NEW r \in Stanzas, NEW j \in 1..Len(Cmds(r)), Clear(r)', InPlace(r, j)'
      PROVE  Clear(r) /\ InPlace(r, j)
  <2>1. ~Busy(r) /\ ~Busy(r)'
    BY <1>1 DEF Busy, Running
  <2>2. Script[r].marker \in Kept /\ Present(Script[r].marker)
    BY <1>1, <1>2, <2>1, Shape DEF InPlace, Present
  <2>3. \A h \in 1..r : Script[h].marker \in Kept
    BY <2>2, Markers
  <2>4. Clear(r)
    BY <1>1, <1>2, <2>3 DEF Clear
  <2>5. QED
    BY <2>1, <2>2, <2>4 DEF InPlace
<1>3. QED
  BY <1>1, <1>2, ImageKept

LEMMA FilledInit == Init => Filled
<1>1. Init => \A r \in Stanzas : \A j : ~InPlace(r, j)
  BY Shape DEF Init, InPlace, Busy, Running, Present
<1>2. QED
  BY <1>1 DEF Filled

LEMMA FilledSuffices == BuildInv /\ Filled => ShippedAll
<1> SUFFICES ASSUME BuildInv, Filled, status = "ok", torn = {}, sourced \subseteq imaged,
                    NEW r \in Stanzas, NEW j \in DOMAIN Cmds(r), Cmds(r)[j].copies,
                    NEW k \in 1..(r - 1), On(k, sourced)
             PROVE  Products[k] \subseteq image
  BY DEF ShippedAll
<1>1. Clear(r) /\ Past(r) /\ ~Busy(r)
  BY DEF Clear, Past, Busy, Running
<1>2. j \in 1..Len(Cmds(r))
  BY Shape
<1>3. Whole(Products[r])
  BY <1>1, <1>2, Filler DEF BuildInv, Built, On
<1>4. Present(Script[r].marker)
  BY <1>3, Markers DEF Whole, Present
<1>5. Taken(r)
  BY <1>1, <1>4 DEF Filled, InPlace
<1>6. On(k, imaged)
  BY DEF On
<1>7. QED
  BY <1>5, <1>6 DEF Taken

(* After a successful run the root image holds all that was to be built    *)
(* before it, if no option has been turned on since it was filled: over    *)
(* any number of failed and killed runs, edits and clean-ups.              *)
THEOREM ShippedCorrect == Spec => []ShippedAll
<1>1. Init => BuildInv /\ Filled
  BY BuildInvInit, FilledInit
<1>2. BuildInv /\ Filled /\ [Next]_vars => (BuildInv /\ Filled)'
  BY BuildInvStep, FilledCommand, FilledTest, FilledBroken, FilledBetween, FilledClean
     DEF Next, Run
<1>3. BuildInv /\ Filled => ShippedAll
  BY FilledSuffices
<1>4. QED
  BY <1>1, <1>2, <1>3, PTL DEF Spec

=============================================================================
