---------------------------- MODULE SpireService ----------------------------
(***************************************************************************)
(* The mutating requests of the control plane, from the HTTP route to the  *)
(* reply: dashboard/backend/app/api/entries.py and agents.py over          *)
(* dashboard/backend/app/services/spire_service.py.                        *)
(*                                                                         *)
(* Each request runs one spire-server CLI command in a subprocess and      *)
(* gives it three seconds.  On a timeout the handler goes on as if the     *)
(* command had failed, but nothing kills the subprocess: the command may   *)
(* still take effect after the reply.  The reply waits for record_event,   *)
(* which logs the event at once and then returns or, when its broadcast is *)
(* disturbed, raises (see EventService).                                   *)
(*                                                                         *)
(* The entry a create request adds is named by that request, so ids are    *)
(* fresh, as SPIRE's are.                                                  *)
(***************************************************************************)
EXTENDS Integers, Sequences, FiniteSets

CONSTANTS
  Req,           \* HTTP requests
  Identity,      \* the registrations (SPIFFE id, parent, selectors) there can be
  Initial,       \* the entries SPIRE holds when the control plane starts
  Fabricated     \* the id "generated-<name>" of a create whose output names none

VARIABLES
  datastore,     \* SPIRE's entries: a set of [id, identity] records
  minted,        \* the token requests whose join token SPIRE holds
  request,       \* request[r]: what r asks for
  pc,            \* pc[r]: where r's handler is
  cli,           \* cli[r]: r's spire-server subprocess
  printed,       \* the requests whose command put the new id or token on stdout
  trail,         \* the audit events, newest first: [req, status] records
  reply,         \* reply[r]: what the client is, or is about to be, told
  counted        \* the requests in http_requests_counter

vars == << datastore, minted, request, pc, cli, printed, trail, reply, counted >>

Id == { e.id : e \in Initial } \cup Req

Entry == [id : Id, identity : Identity]

ASSUME InitialAssumption ==
  /\ Initial \subseteq Entry
  /\ \A e \in Initial : e.id \notin Req

Registered == { e.id : e \in datastore }

Request ==
  [op : {"create"}, identity : Identity, valid : BOOLEAN]
    \cup [op : {"delete"}, id : Id \cup {Fabricated}, valid : {TRUE}]
    \cup [op : {"token"}, valid : BOOLEAN]

None == [op |-> "none"]

Say(s) == [status |-> s]

Reply ==
  [status : { "none", "unprocessable", "internal error", "deleted" }]
    \cup [status : { "success", "simulated" }, id : Req \cup {Fabricated}]
    \cup [status : {"token"}, genuine : BOOLEAN]

Init ==
  /\ datastore = Initial
  /\ minted    = {}
  /\ request   = [r \in Req |-> None]
  /\ pc        = [r \in Req |-> "idle"]
  /\ cli       = [r \in Req |-> "none"]
  /\ printed   = {}
  /\ trail     = << >>
  /\ reply     = [r \in Req |-> Say("none")]
  /\ counted   = {}

-----------------------------------------------------------------------------
(* The route and the start of the command.                                 *)

(***************************************************************************)
(* The request schema or the spiffe:// test of the route rejects q: 422,   *)
(* counted by the HTTP middleware.                                         *)
(***************************************************************************)
reject(r, q) ==
  /\ pc[r] = "idle"
  /\ ~ q.valid
  /\ request' = [request EXCEPT ![r] = q]
  /\ pc'      = [pc EXCEPT ![r] = "replied"]
  /\ reply'   = [reply EXCEPT ![r] = Say("unprocessable")]
  /\ counted' = counted \cup {r}
  /\ UNCHANGED << datastore, minted, cli, printed, trail >>

(***************************************************************************)
(* The handler of q spawns its command and waits for it.                   *)
(***************************************************************************)
exec_command(r, q) ==
  /\ pc[r] = "idle"
  /\ q.valid
  /\ request' = [request EXCEPT ![r] = q]
  /\ pc'      = [pc EXCEPT ![r] = "waiting"]
  /\ cli'     = [cli EXCEPT ![r] = "running"]
  /\ UNCHANGED << datastore, minted, printed, trail, reply, counted >>

-----------------------------------------------------------------------------
(* The subprocess: docker exec and the SPIRE server.  It runs on whether   *)
(* or not the handler is still waiting.                                    *)

(***************************************************************************)
(* The server carries the command out.  The exit code is 0 unless the      *)
(* answer is lost on its way back, and the output names the new id or      *)
(* token unless it is lost or worded in a way the handler does not know;   *)
(* neither says anything of the other.                                     *)
(***************************************************************************)
spire_applies(r) ==
  /\ cli[r] = "running"
  /\ LET q == request[r] IN
       \/ /\ q.op = "create"
          /\ \A e \in datastore : e.identity # q.identity
          /\ datastore' = datastore \cup {[id |-> r, identity |-> q.identity]}
          /\ printed' \in { printed, printed \cup {r} }
          /\ UNCHANGED minted
       \/ /\ q.op = "delete"
          /\ q.id \in Registered
          /\ datastore' = { e \in datastore : e.id # q.id }
          /\ UNCHANGED << minted, printed >>
       \/ /\ q.op = "token"
          /\ minted' = minted \cup {r}
          /\ printed' \in { printed, printed \cup {r} }
          /\ UNCHANGED datastore
  /\ \E exit \in { "exit0", "exit1" } : cli' = [cli EXCEPT ![r] = exit]
  /\ UNCHANGED << request, pc, trail, reply, counted >>

(***************************************************************************)
(* The command ends without effect: there is no docker, no server, no such *)
(* entry, or the registration exists.  It names no new id or token.        *)
(***************************************************************************)
spire_refuses(r) ==
  /\ cli[r] = "running"
  /\ cli' = [cli EXCEPT ![r] = "exit1"]
  /\ UNCHANGED << datastore, minted, request, pc, printed, trail, reply, counted >>

-----------------------------------------------------------------------------
(* The rest of the handlers.                                               *)

(***************************************************************************)
(* record_event up to its first suspension: the event is in the log.       *)
(***************************************************************************)
audit(r, s) == trail' = << [req |-> r, status |-> s] >> \o trail

create_entry_Success(r, code, found) ==
  /\ request[r].op = "create"
  /\ audit(r, IF code = 0 THEN "SUCCESS" ELSE "FAILED")
  /\ reply' = [reply EXCEPT ![r] =
       [status |-> "success", id |-> IF found THEN r ELSE Fabricated]]

(***************************************************************************)
(* create_entry names the entry id it finds in the output, or makes one    *)
(* up; the exit code alone decides whether it says "success" or            *)
(* "simulated".                                                            *)
(***************************************************************************)
create_entry(r, code, found) ==
  /\ request[r].op = "create"
  /\ audit(r, IF code = 0 THEN "SUCCESS" ELSE "FAILED")
  /\ reply' = [reply EXCEPT ![r] =
       [status |-> IF code = 0 THEN "success" ELSE "simulated",
        id     |-> IF found THEN r ELSE Fabricated]]

(***************************************************************************)
(* delete_entry returns True and the route says "deleted" in either case.  *)
(***************************************************************************)
delete_entry(r, code) ==
  /\ request[r].op = "delete"
  /\ audit(r, IF code = 0 THEN "SUCCESS" ELSE "ATTEMPTED")
  /\ reply' = [reply EXCEPT ![r] = Say("deleted")]

(***************************************************************************)
(* generate_join_token replies with the token it finds in the output, or   *)
(* with a mock, and audits SUCCESS in either case.                         *)
(***************************************************************************)
generate_join_token(r, found) ==
  /\ request[r].op = "token"
  /\ audit(r, "SUCCESS")
  /\ reply' = [reply EXCEPT ![r] = [status |-> "token", genuine |-> found]]

(***************************************************************************)
(* _exec_command hands code and output to the handler, which goes on to    *)
(* the suspension in record_event.                                         *)
(***************************************************************************)
goes_on(r, code, found) ==
  /\ \/ create_entry(r, code, found)
     \/ delete_entry(r, code)
     \/ generate_join_token(r, found)
  /\ pc' = [pc EXCEPT ![r] = "recording"]
  /\ UNCHANGED << datastore, minted, request, cli, printed, counted >>

exec_returns(r) ==
  /\ pc[r] = "waiting"
  /\ cli[r] \in { "exit0", "exit1" }
  /\ goes_on(r, IF cli[r] = "exit0" THEN 0 ELSE 1, r \in printed)

exec_times_out_Raises(r) ==
  /\ pc[r] = "waiting"
  /\ pc'    = [pc EXCEPT ![r] = "replied"]
  /\ reply' = [reply EXCEPT ![r] = Say("internal error")]
  /\ UNCHANGED << datastore, minted, request, cli, printed, trail, counted >>

exec_times_out_Reads0(r) == pc[r] = "waiting" /\ goes_on(r, 0, FALSE)

exec_times_out_Never(r) == FALSE

(***************************************************************************)
(* wait_for gives up, whatever the subprocess has done: code 1, no output. *)
(***************************************************************************)
exec_times_out(r) == pc[r] = "waiting" /\ goes_on(r, 1, FALSE)

(***************************************************************************)
(* record_event returns, the reply passes the HTTP middleware, which       *)
(* counts it.                                                              *)
(***************************************************************************)
record_returns(r) ==
  /\ pc[r] = "recording"
  /\ pc'      = [pc EXCEPT ![r] = "replied"]
  /\ counted' = counted \cup {r}
  /\ UNCHANGED << datastore, minted, request, cli, printed, trail, reply >>

(***************************************************************************)
(* record_event raises.  The exception passes through the middleware,      *)
(* which counts nothing, and the server answers 500.                       *)
(***************************************************************************)
record_raises(r) ==
  /\ pc[r] = "recording"
  /\ pc'    = [pc EXCEPT ![r] = "replied"]
  /\ reply' = [reply EXCEPT ![r] = Say("internal error")]
  /\ UNCHANGED << datastore, minted, request, cli, printed, trail, counted >>

-----------------------------------------------------------------------------

Next ==
  \E r \in Req :
    \/ \E q \in Request : reject(r, q) \/ exec_command(r, q)
    \/ spire_applies(r)
    \/ spire_refuses(r)
    \/ exec_returns(r)
    \/ exec_times_out(r)
    \/ record_returns(r)
    \/ record_raises(r)

Spec == Init /\ [][Next]_vars

(***************************************************************************)
(* The event loop resumes a handler when its command ends or its three     *)
(* seconds are over, and record_event terminates (CallsTerminate of        *)
(* EventService).  The subprocess owes nothing: docker may hang for ever.  *)
(***************************************************************************)
Fairness ==
  \A r \in Req : /\ WF_vars(exec_returns(r) \/ exec_times_out(r))
                 /\ WF_vars(record_returns(r) \/ record_raises(r))

FairSpec == Spec /\ Fairness

-----------------------------------------------------------------------------
(* Properties.                                                             *)

Audited(r) == { i \in 1 .. Len(trail) : trail[i].req = r }

Succeeded == { r \in Req : \E i \in Audited(r) : trail[i].status = "SUCCESS" }

TypeOK ==
  /\ datastore \subseteq Entry
  /\ minted    \subseteq Req
  /\ request   \in [Req -> Request \cup {None}]
  /\ pc        \in [Req -> { "idle", "waiting", "recording", "replied" }]
  /\ cli       \in [Req -> { "none", "running", "exit0", "exit1" }]
  /\ printed   \subseteq Req
  /\ trail     \in Seq([req : Req, status : { "SUCCESS", "FAILED", "ATTEMPTED" }])
  /\ reply     \in [Req -> Reply]
  /\ counted   \subseteq Req

(***************************************************************************)
(* The entry r creates was created: it is there, or a delete of it was     *)
(* sent.                                                                   *)
(***************************************************************************)
Created(r) ==
  \/ r \in Registered
  \/ \E d \in Req : request[d].op = "delete" /\ request[d].id = r

Replied(status) == { r \in Req : reply[r].status = status }

(***************************************************************************)
(* What a reply claims has happened, although a timed out command may      *)
(* still be running and the exit code and the output are read apart: a     *)
(* create that says "success" created its entry, so did one that names an  *)
(* id not made up, "success" or "simulated", and a token that is not a     *)
(* mock is one SPIRE minted.  A "success" may carry a made up id.          *)
(***************************************************************************)
RepliesAreReal ==
  /\ \A r \in Replied("success") : Created(r)
  /\ \A r \in Replied("success") \cup Replied("simulated") :
       reply[r].id # Fabricated => reply[r].id = r /\ Created(r)
  /\ \A r \in Replied("token") : reply[r].genuine => r \in minted

(***************************************************************************)
(* The invariant of the requests: types, and the truth of the replies.     *)
(***************************************************************************)
SpireInv == TypeOK /\ RepliesAreReal

(***************************************************************************)
(* An audit event that says a registration was created or deleted agrees   *)
(* with SPIRE's datastore, whatever other requests do, whenever commands   *)
(* run late and however the reply ends: a created entry is there until a   *)
(* delete of it is sent, and a deleted one never comes back.               *)
(***************************************************************************)
SuccessIsReal ==
  \A r \in Succeeded :
    /\ request[r].op = "create" => Created(r)
    /\ request[r].op = "delete" => request[r].id \notin Registered

(***************************************************************************)
(* No command goes unaudited and none is audited twice: when a handler is  *)
(* over, by a reply, a timeout or a raising record_event, the trail holds  *)
(* exactly one event of it; a rejected request leaves none.                *)
(***************************************************************************)
OneAuditPerCommand ==
  \A r \in Req :
    pc[r] = "replied" =>
      Cardinality(Audited(r)) = IF cli[r] = "none" THEN 0 ELSE 1

(***************************************************************************)
(* Every request is answered, even when docker or the server hangs for     *)
(* ever: the three second limit is what the dashboard relies on.           *)
(***************************************************************************)
EveryRequestAnswered == \A r \in Req : pc[r] = "waiting" ~> pc[r] = "replied"

=============================================================================
