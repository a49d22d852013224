--------------------------- MODULE MCEventService ---------------------------
(***************************************************************************)
(* Instances of EventService for TLC.                                      *)
(***************************************************************************)
EXTENDS EventService

CONSTANTS boot

MCSeedEvents == << boot >>
=============================================================================
