---------------------------- MODULE BuildPipeline ----------------------------
(***************************************************************************)
(* The incremental build (build.sh with the scripts it calls): a sequence  *)
(* of stanzas "if the option is on and the marker file missing, run these  *)
(* commands", under set -e.  A run may be killed, or a command fail, at    *)
(* any point; the next run starts at the top and goes by the marker files. *)
(* Which stanzas there are is in BuildScripts; here they are a parameter.  *)
(*                                                                         *)
(* A stanza is [option, marker, cmds].  A command is                       *)
(*   needs   the files it reads          absent  those it must not find    *)
(*   begins  those it leaves unfinished  makes   those it finishes         *)
(*   removes those it deletes                                              *)
(*   lax     its failure goes unnoticed (a pipeline, but for its end)      *)
(*   copies  it copies build/stage1 into the root image                    *)
(***************************************************************************)
EXTENDS Naturals, Sequences

CONSTANTS
  Script,    \* the stanzas, in order
  Files,     \* the files they touch
  Kept,      \* those clean.sh leaves alone
  Blocking,  \* those of them that an aborted run may leave in a later one's way
  Options,   \* the options of configs/config
  Always,    \* the option of stanzas that have none
  MaxEvents  \* bound: failures, kills, edits of the configuration, clean-ups

Command == [needs : SUBSET Files, absent : SUBSET Files, begins : SUBSET Files,
            makes : SUBSET Files, removes : SUBSET Files,
            lax : BOOLEAN, copies : BOOLEAN]
Stanzas == DOMAIN Script
Cmds(k) == Script[k].cmds
Changed(c) == c.begins \cup c.makes \cup c.removes

(* The command that creates the marker file: from it on, a stanza is taken *)
(* for done.                                                               *)
MakesMarker(k, j) ==
  /\ j \in DOMAIN Cmds(k)
  /\ Script[k].marker \in Cmds(k)[j].begins \cup Cmds(k)[j].makes
  /\ \A i \in 1..(j - 1) : Script[k].marker \notin Changed(Cmds(k)[i])

(* What the first j commands of stanza k have made and not removed again.  *)
MadeBy ==
  [k \in Stanzas |-> [j \in 0..Len(Cmds(k)) |->
     {f \in Files : \E i \in 1..j :
        /\ f \in Cmds(k)[i].makes
        /\ \A h \in (i + 1)..j : f \notin Cmds(k)[h].removes \cup Cmds(k)[h].begins}]]
Products == [k \in Stanzas |-> MadeBy[k][Len(Cmds(k))]]

(* Its marker, and the products that come after the marker.                *)
Following ==
  [k \in Stanzas |->
     {f \in Products[k] :
        /\ f \in Kept <=> Script[k].marker \in Kept
        /\ \/ f = Script[k].marker
           \/ \A i, j \in DOMAIN Cmds(k) :
                MakesMarker(k, j) /\ f \in Changed(Cmds(k)[i]) => j < i}]

(* The stanzas of a script keep out of each other's files, never delete    *)
(* their marker, and read what they have made before, or what follows the  *)
(* marker of an earlier stanza.  Downloads come first, and clean.sh keeps  *)
(* them.                                                                   *)
ASSUME ScriptAssumption ==
  /\ Always \notin Options
  /\ Blocking \subseteq Kept /\ Kept \subseteq Files
  /\ MaxEvents \in Nat
  /\ Script \in Seq([option : Options \cup {Always}, marker : Files,
                     cmds : Seq(Command)])
  /\ \A k \in Stanzas :
       /\ \E j \in DOMAIN Cmds(k) : MakesMarker(k, j)
       /\ Script[k].marker \in Products[k]
       /\ \A j \in DOMAIN Cmds(k) :
            LET c == Cmds(k)[j]
            IN  /\ Script[k].marker \notin c.removes
                /\ c.begins \cap c.makes = {}
                /\ (c.begins \cup c.makes) \cap c.removes = {}
                /\ \A f \in c.needs \ MadeBy[k][j - 1] :
                     \E h \in 1..(k - 1) : f \in Following[h]
                /\ \A h \in Stanzas \ {k} : \A i \in DOMAIN Cmds(h) :
                     Changed(c) \cap Changed(Cmds(h)[i]) = {}
       /\ Script[k].marker \in Kept =>
            /\ Products[k] \subseteq Kept
            /\ \A h \in 1..k : Script[h].marker \in Kept

(* One stanza fills the root image, in one command, and has no option.     *)
ASSUME ImageAssumption ==
  \A r \in Stanzas : \A j \in DOMAIN Cmds(r) : Cmds(r)[j].copies =>
    /\ Script[r].option = Always
    /\ \A h \in Stanzas : \A i \in DOMAIN Cmds(h) :
         Cmds(h)[i].copies => h = r /\ i = j

VARIABLES
  files,   \* files[f]: is f there, and whole
  enabled, \* the options configs/config turns on
  sourced, \* what the run read there when it started
  stanza,  \* the stanza the run has reached
  cmd,     \* its next command, 0 at its if
  status,  \* of the run
  image,   \* the files that were whole when the root image was filled
  imaged,  \* the options that run had read
  torn,    \* history: stanzas a run broke off after creating the marker
  events   \* how many of them there have been

runVars == <<sourced, stanza, cmd, status>>
vars == <<files, enabled, runVars, image, imaged, torn, events>>

Current == Cmds(stanza)[cmd]
Running == status = "running" /\ stanza \in Stanzas
On(k, options) == Script[k].option \in options \cup {Always}
Event == events < MaxEvents /\ events' = events + 1
Present(f) == files[f] # "none"

-----------------------------------------------------------------------------
(* A new run reads configs/config once.                                    *)
build ==
  /\ status # "running"
  /\ status' = "running"
  /\ sourced' = enabled
  /\ stanza' = 1 /\ cmd' = 0
  /\ UNCHANGED <<files, enabled, image, imaged, torn, events>>

(* A slip: any product will do.                                            *)
AnyProduct(k) == On(k, sourced) /\ \A f \in Products[k] : ~Present(f)
(* "if [ option ]; then if [ ! -f marker ]".  A file cut short passes.     *)
ToDo(k) == On(k, sourced) /\ ~Present(Script[k].marker)

test ==
  /\ Running /\ cmd = 0
  /\ IF ToDo(stanza)
     THEN cmd' = 1 /\ UNCHANGED stanza
     ELSE stanza' = stanza + 1 /\ UNCHANGED cmd
  /\ UNCHANGED <<files, enabled, sourced, status, image, imaged, torn, events>>

Advance ==
  IF cmd < Len(Cmds(stanza))
  THEN cmd' = cmd + 1 /\ UNCHANGED stanza
  ELSE cmd' = 0 /\ stanza' = stanza + 1

(* What c writes is as good as what it reads.                              *)
Quality(c) == IF \A f \in c.needs : files[f] = "whole" THEN "whole" ELSE "part"
Effect(c, quality) ==
  files' = [f \in Files |-> IF f \in c.begins THEN "part"
                            ELSE IF f \in c.makes THEN quality
                            ELSE IF f \in c.removes THEN "none"
                            ELSE files[f]]
Copy(c) ==
  IF c.copies
  THEN image' = {f \in Files : files[f] = "whole"} /\ imaged' = sourced
  ELSE UNCHANGED <<image, imaged>>

command ==
  /\ Running /\ cmd # 0
  /\ \A f \in Current.needs : Present(f)
  /\ \A f \in Current.absent : ~Present(f)
  /\ Effect(Current, Quality(Current))
  /\ Copy(Current)
  /\ Advance
  /\ UNCHANGED <<enabled, sourced, status, torn, events>>

(* A command must fail that misses a file or finds one in its way.         *)
MustFail(c) ==
  \/ \E f \in c.needs : ~Present(f)
  \/ \E f \in c.absent : Present(f)
(* Another may: for reasons of its own, or for what it reads.              *)
Fails(c) ==
  /\ ~MustFail(c)
  /\ \/ Event
     \/ Quality(c) = "part" /\ UNCHANGED events

(* An error that set -e does not see.                                      *)
unnoticed ==
  /\ Running /\ cmd # 0
  /\ Current.lax
  /\ (MustFail(Current) /\ UNCHANGED events) \/ Fails(Current)
  /\ Effect(Current, "part")
  /\ torn' = torn \cup {stanza}
  /\ Advance
  /\ UNCHANGED <<enabled, sourced, status, image, imaged>>

(* A slip: there is no set -e.                                             *)
KeepsGoing ==
  /\ Advance
  /\ UNCHANGED <<enabled, sourced, status, image, imaged, torn>>
(* The run ends, and whether the marker is in place will decide about the  *)
(* stanza.                                                                 *)
BreakOff ==
  /\ status' = "aborted"
  /\ torn' = IF files'[Script[stanza].marker] # "none" THEN torn \cup {stanza} ELSE torn
  /\ UNCHANGED <<enabled, sourced, stanza, cmd, image, imaged>>

(* set -e and the trap.                                                    *)
refused ==
  /\ Running /\ cmd # 0
  /\ MustFail(Current)
  /\ UNCHANGED <<files, events>>
  /\ BreakOff

(* The same, or a kill, in the midst of a command.                         *)
abort ==
  /\ Running /\ cmd # 0
  /\ Fails(Current)
  /\ \E done \in SUBSET Changed(Current) : \E cut \in SUBSET (Changed(Current) \ done) :
       files' = [f \in Files |->
                   IF f \in cut \cup (done \cap Current.begins) THEN "part"
                   ELSE IF f \in done \cap Current.makes THEN Quality(Current)
                   ELSE IF f \in done \cap Current.removes THEN "none"
                   ELSE files[f]]
  /\ BreakOff

(* The end of the script, with trap - 0 and exit 0.                        *)
finish ==
  /\ status = "running" /\ stanza \notin Stanzas
  /\ status' = "ok"
  /\ UNCHANGED <<files, enabled, sourced, stanza, cmd, image, imaged, torn, events>>

(* menuconfig.sh; during a run, it would have its effect on the next.      *)
menuconfig ==
  /\ Event
  /\ status # "running"
  /\ enabled' \in SUBSET Options
  /\ UNCHANGED <<files, runVars, image, imaged, torn>>

clean ==
  /\ Event
  /\ status # "running"
  /\ status' = "clean"
  /\ files' = [f \in Files |-> IF f \in Kept THEN files[f] ELSE "none"]
  /\ torn' = {k \in torn : Script[k].marker \in Kept}
  /\ UNCHANGED <<enabled, sourced, stanza, cmd, image, imaged>>

-----------------------------------------------------------------------------
Init ==
  /\ files = [f \in Files |-> "none"]
  /\ enabled \in SUBSET Options
  /\ sourced = {} /\ stanza = 1 /\ cmd = 0 /\ status = "clean"
  /\ image = {} /\ imaged = {} /\ torn = {}
  /\ events = 0

Run  == test \/ command \/ unnoticed \/ refused \/ abort \/ finish
Next == build \/ Run \/ menuconfig \/ clean

(* Commands end, and the user starts the script again until it succeeds.   *)
(* What may go wrong besides need not happen.                              *)
GetsOn == test \/ command \/ refused \/ finish
Spec == Init /\ [][Next]_vars /\ WF_vars(GetsOn) /\ WF_vars(build)

-----------------------------------------------------------------------------
TypeOK ==
  /\ files \in [Files -> {"none", "part", "whole"}]
  /\ enabled \subseteq Options /\ sourced \subseteq Options
  /\ imaged \subseteq Options /\ image \subseteq Files
  /\ stanza \in 1..(Len(Script) + 1)
  /\ cmd \in Nat /\ (Running => cmd \in 0..Len(Cmds(stanza)))
  /\ status \in {"clean", "running", "aborted", "ok"}
  /\ torn \subseteq Stanzas
  /\ events \in Nat

Whole(S) == \A f \in S : files[f] = "whole"

(* When build.sh exits with success, all it was to build is there and      *)
(* whole, over any number of failed, killed and repeated runs, edits of    *)
(* the configuration and clean-ups: unless one broke off with the marker   *)
(* of an unfinished stanza in place, or a pipeline failed unseen.          *)
SuccessMeansBuilt ==
  status = "ok" /\ torn = {} =>
    \A k \in Stanzas : On(k, sourced) => Whole(Products[k])

(* And the root image then holds what had to be built before it, if no     *)
(* option has been turned on since it was made ("root image exists").      *)
ShippedAll ==
  status = "ok" /\ torn = {} /\ sourced \subseteq imaged =>
    \A r \in Stanzas : (\E j \in DOMAIN Cmds(r) : Cmds(r)[j].copies) =>
      \A k \in 1..(r - 1) : On(k, sourced) => Products[k] \subseteq image

(* Why SuccessMeansBuilt holds: a stanza with its marker in place is       *)
(* finished, or being run; the run has left finished ones behind it, and   *)
(* its own commands have been done; and what others need of a stanza is    *)
(* not there before the marker.                                            *)
Clear(k) == torn \cap 1..k = {}
Past(k)  == status = "ok" \/ (status = "running" /\ k < stanza)
Busy(k)  == Running /\ k = stanza /\ cmd # 0
Built(k) ==
  /\ Present(Script[k].marker) /\ ~Busy(k) => Whole(Products[k])
  /\ On(k, sourced) /\ Past(k) => Whole(Products[k])
  /\ Busy(k) => Whole(MadeBy[k][cmd - 1])
MarkerFirst ==
  \A k \in Stanzas : \A f \in Following[k] :
    Present(f) => Present(Script[k].marker)
MarkerMade ==
  \A k \in Stanzas : Busy(k) =>
    \A j \in 1..(cmd - 1) : MakesMarker(k, j) => Present(Script[k].marker)
BuildInv ==
  /\ TypeOK
  /\ \A k \in Stanzas : Clear(k) => Built(k)
  /\ MarkerFirst
  /\ MarkerMade

(* Why ShippedAll holds: the stanza that fills the image has the ones      *)
(* before it behind itself; what it takes from them is in the image for as *)
(* long as its marker is there, or, while it is run, once it has filled.   *)
Taken(r) == \A k \in 1..(r - 1) : On(k, imaged) => Products[k] \subseteq image
InPlace(r, j) == IF Busy(r) THEN j < cmd ELSE Present(Script[r].marker)
Filled ==
  \A r \in Stanzas : \A j \in DOMAIN Cmds(r) :
    Cmds(r)[j].copies /\ Clear(r) /\ InPlace(r, j) => Taken(r)

(* The options turned on bring what the scripts read.  (The model checker  *)
(* enumerates Complete once, and would test Enough in every state.)        *)
Enough ==
  {options \in SUBSET Options :
     \A k \in Stanzas : On(k, options) =>
       \A j \in DOMAIN Cmds(k) : \A f \in Cmds(k)[j].needs \ MadeBy[k][j - 1] :
         \E h \in 1..(k - 1) : On(h, options) /\ f \in Products[h]}
Complete == {options : options \in Enough}
Unblocked == \A f \in Blocking : ~Present(f)
Healthy ==
  /\ torn = {} /\ enabled \in Complete
  /\ IF status = "running" THEN sourced \in Complete ELSE Unblocked

(* Running build.sh again and again ends in success: whatever has failed   *)
(* before, as long as an aborted run has left no Blocking file behind.     *)
RetrySucceeds == Healthy ~> (status = "ok" \/ ~Healthy)
=============================================================================
