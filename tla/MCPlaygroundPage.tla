-------------------------- MODULE MCPlaygroundPage --------------------------
(***************************************************************************)
(* Texts for PlaygroundPage: an identity, the same with a trailing blank,  *)
(* another one, and the empty text.                                        *)
(***************************************************************************)
EXTENDS PlaygroundPage

MCText  == {"", "worker", "worker ", "other"}
MCStrip == [t \in MCText |-> IF t = "worker " THEN "worker" ELSE t]
=============================================================================
