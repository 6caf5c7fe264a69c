-------------------------------- MODULE MCBuild --------------------------------
(***************************************************************************)
(* The scripts of the repository, for the model checker.                   *)
(***************************************************************************)
EXTENDS BuildScripts

(* build.sh without the stanzas that nothing else depends on.              *)
Short ==
  SelectSeq(build_sh, LAMBDA s : s.marker \notin
    {"test-stage1", "dropbear.tar.bz2", "dropbearmulti", "tools/rdev", "floppy.img"})

TouchedBy(script) ==
  UNION {UNION {Changed(script[k].cmds[j]) : j \in DOMAIN script[k].cmds}
           : k \in DOMAIN script}
FilesOfAll   == TouchedBy(build_sh)
FilesOfShort == TouchedBy(Short)
KeptOfShort  == clean_sh \cap FilesOfShort

(* At first every option is on, or all but one; edits lead to the others.  *)
RetryInit == Init /\ enabled \in {Options, Options \ {"SDHCP"}}
RetrySpec == RetryInit /\ [][Next]_vars /\ WF_vars(GetsOn) /\ WF_vars(build)

(* "Reached working stage 1 compiler" (build.sh:142) is printed where the  *)
(* stanza of test-stage1 is skipped; then its test has run and passed.     *)
WorkingCompiler ==
  \A k \in Stanzas : Script[k].marker = "test-stage1" /\ Running /\ k < stanza =>
    files["test passed"] = "whole"
================================================================================
