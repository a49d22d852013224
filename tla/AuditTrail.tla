----------------------------- MODULE AuditTrail -----------------------------
(***************************************************************************)
(* What the audit log of the control plane promises its readers: events    *)
(* are recorded one at a time, none twice and none ever altered, and a     *)
(* reader sees a window of the most recent ones in front of the events the *)
(* service was seeded with.  This is the abstract specification that       *)
(* EventService is shown to implement.                                     *)
(***************************************************************************)
EXTENDS Integers, Sequences

CONSTANTS
  Event,         \* the events that may be recorded
  SeedEvents,    \* what the log holds when the service starts
  MaxLogs        \* the size of the window

VARIABLES
  trail,         \* every event recorded so far, newest first
  window         \* the events a reader can see

(***************************************************************************)
(* The first n elements of s, or all of s when it has fewer.               *)
(***************************************************************************)
Prefix(s, n) == SubSeq(s, 1, IF Len(s) <= n THEN Len(s) ELSE n)

Init ==
  /\ trail  = << >>
  /\ window = SeedEvents

Record(e) ==
  /\ \A i \in 1 .. Len(trail) : trail[i] # e
  /\ trail'  = << e >> \o trail
  /\ window' = Prefix(trail' \o SeedEvents, MaxLogs)

Next == \E e \in Event : Record(e)

Spec == Init /\ [][Next]_<<trail, window>>
=============================================================================
