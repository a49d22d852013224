----------------------------- MODULE AuditStream -----------------------------
(***************************************************************************)
(* What the control plane promises one WebSocket of /ws/events about the   *)
(* audit stream: frames carry events that are in the log, while their      *)
(* broadcast goes on and the socket is among the active connections.  It   *)
(* does not promise a frame of every event, nor only one: a broadcast that *)
(* others disturb may miss the socket or reach it again.  EventService is  *)
(* shown to keep this promise, and the live feed of ObservabilityPage is   *)
(* built on it.                                                            *)
(***************************************************************************)
EXTENDS Sequences

CONSTANT Event   \* the events that may be recorded

VARIABLES
  recorded,      \* the events in the log or dropped from it
  outgoing,      \* those whose broadcast has not ended
  heard,         \* those of outgoing that have been sent to the socket
  subscribed,    \* whether the socket is an active connection
  wire           \* the frames sent and not yet handled, oldest first

Init ==
  /\ recorded = {} /\ outgoing = {} /\ heard = {}
  /\ subscribed = FALSE
  /\ wire = << >>

Frame(e) ==
  /\ subscribed
  /\ wire' = Append(wire, e)
  /\ heard' = heard \cup {e}

(***************************************************************************)
(* Event e enters the log.  Its broadcast begins, with this socket or with *)
(* another, or is over at once because nobody is connected.                *)
(***************************************************************************)
Record(e) ==
  /\ e \notin recorded
  /\ recorded' = recorded \cup {e}
  /\ UNCHANGED subscribed
  /\ \/ outgoing' = outgoing \cup {e} /\ (Frame(e) \/ UNCHANGED << heard, wire >>)
     \/ ~ subscribed /\ UNCHANGED << outgoing, heard, wire >>

Send(e) ==
  /\ e \in outgoing \ heard
  /\ Frame(e)
  /\ UNCHANGED << recorded, outgoing, subscribed >>

(***************************************************************************)
(* A disturbed broadcast comes past the socket once more.                  *)
(***************************************************************************)
Repeat(e) ==
  /\ e \in outgoing \cap heard
  /\ Frame(e)
  /\ UNCHANGED << recorded, outgoing, subscribed >>

(***************************************************************************)
(* The broadcast ends, whether it has reached the socket or not, and may   *)
(* remove the socket.                                                      *)
(***************************************************************************)
End(e) ==
  /\ e \in outgoing
  /\ outgoing' = outgoing \ {e}
  /\ heard' = heard \ {e}
  /\ subscribed' \in { subscribed, FALSE }
  /\ UNCHANGED << recorded, wire >>

(***************************************************************************)
(* The socket becomes an active connection, or ceases to be one.           *)
(***************************************************************************)
Change ==
  /\ subscribed' \in BOOLEAN
  /\ UNCHANGED << recorded, outgoing, heard, wire >>

Next == Change \/ \E e \in Event : Record(e) \/ Send(e) \/ Repeat(e) \/ End(e)

vars == << recorded, outgoing, heard, subscribed, wire >>

Step == Next \/ UNCHANGED vars

Spec == Init /\ [][Next]_vars
=============================================================================
