------------------------------ MODULE MCAutoConf ------------------------------
(***************************************************************************)
(* A boolean, and a string that may be hidden, whose stamps are in one      *)
(* directory and in another below it, and an object for each and for both. *)
(***************************************************************************)
EXTENDS AutoConf

OptionValues == [BOOL |-> {"n", "y"}, TEXT |-> {"unset", "a", "b"}]
StampPath    == [BOOL |-> <<"d">>, TEXT |-> <<"d", "e">>]
UsedBy       == [one |-> {"BOOL"}, both |-> {"BOOL", "TEXT"}]
===============================================================================
