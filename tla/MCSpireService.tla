--------------------------- MODULE MCSpireService ---------------------------
(***************************************************************************)
(* Instances of SpireService for TLC.                                      *)
(***************************************************************************)
EXTENDS SpireService

CONSTANTS entry1, backendApi

MCInitial == { [id |-> entry1, identity |-> backendApi] }
=============================================================================
