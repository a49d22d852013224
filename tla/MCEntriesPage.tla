--------------------------- MODULE MCEntriesPage ---------------------------
(***************************************************************************)
(* Values for the constants of EntriesPage that a configuration cannot     *)
(* write down.                                                             *)
(***************************************************************************)
EXTENDS EntriesPage

\* The filter string "w" occurs in the SPIFFE IDs and nowhere else.
MCContains == [t \in Text |->
                 IF t \in Name THEN Search ELSE {Blank}]

MCForm == [spiffe_id |-> "worker", selectors |-> << "label" >>, ttl |-> 3600]

\* One of the two demo entries.
MCDemo == { [id |-> "demo", spiffe_id |-> "worker", selectors |-> << "label" >>,
             ttl |-> 3600] }
=============================================================================
