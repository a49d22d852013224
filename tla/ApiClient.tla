----------------------------- MODULE ApiClient -----------------------------
(***************************************************************************)
(* lib/api.ts: the one way the console's pages talk to the control plane.  *)
(* fetchJSON has no timeout and no retry; a page may have several calls in *)
(* flight, and they settle in any order.  A call is                        *)
(*                                                                         *)
(*   idle  -> sent -> ok      fetch resolved with a 2xx answer             *)
(*                 -> threw   the network failed or the status was not 2xx *)
(*                                                                         *)
(* and returns to idle when the page's continuation has run.               *)
(***************************************************************************)

CONSTANT Request   \* the calls that may be in flight at once (a bound)

VARIABLE fetch     \* fetch[r]: where call r is

Idle == [at |-> "idle"]

(***************************************************************************)
(* The states of a call with queries in Q and answers in B.                *)
(***************************************************************************)
CallState(Q, B) ==
  {Idle} \cup [at : {"sent", "threw"}, query : Q]
         \cup [at : {"ok"}, query : Q, body : B]

InFlight == { r \in Request : fetch[r] # Idle }

Asks(r, kind) == r \in InFlight /\ fetch[r].query.kind = kind

(***************************************************************************)
(* A handler calls the API.                                                *)
(***************************************************************************)
Send(r, q) ==
  /\ fetch[r] = Idle
  /\ fetch' = [fetch EXCEPT ![r] = [at |-> "sent", query |-> q]]

(***************************************************************************)
(* The server has handled call r, when body is what it answers at that     *)
(* moment: cache is "no-store", so no earlier answer is ever served again. *)
(***************************************************************************)
Answer(r, body) ==
  /\ fetch[r].at = "sent"
  /\ fetch' = [fetch EXCEPT ![r] = [at |-> "ok", query |-> @.query, body |-> body]]

Throw(r) ==
  /\ fetch[r].at = "sent"
  /\ fetch' = [fetch EXCEPT ![r] = [at |-> "threw", query |-> @.query]]

(***************************************************************************)
(* The handler that awaited r goes on to a second call, or ends.           *)
(***************************************************************************)
ThenSend(r, q) == fetch' = [fetch EXCEPT ![r] = [at |-> "sent", query |-> q]]

Return(r) == fetch' = [fetch EXCEPT ![r] = Idle]

=============================================================================
