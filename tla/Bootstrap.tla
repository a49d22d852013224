----------------------------- MODULE Bootstrap -----------------------------
(***************************************************************************)
(* scripts/bootstrap.sh, with the containers it brings together: the SPIRE *)
(* server, the agent, and the two Go workloads, app/cmd/server/main.go and *)
(* app/cmd/client/main.go, which wait for their identity in a retry loop.  *)
(*                                                                         *)
(* The script is a sequence of bounded waits over a server that comes and  *)
(* goes.  It runs under set -e: a command that fails ends it.  It may be   *)
(* run again, over whatever the runs before have left.                     *)
(***************************************************************************)
EXTENDS Naturals

CONSTANTS
  MaxRetries,    \* MAX_RETRIES (30), for the server and for the backend
  AgentRetries,  \* the agent's bound (25)
  MaxScripts,    \* bound on the runs of the script
  MaxFlaps       \* bound on the times the server comes or goes

ASSUME BootstrapAssumption ==
  /\ MaxRetries \in Nat \ {0} /\ AgentRetries \in Nat \ {0}
  /\ MaxScripts \in Nat /\ MaxFlaps \in Nat

VARIABLES
  \* The containers.
  healthy,       \* the SPIRE server answers
  agent,         \* "absent", "started" with a join token, or "attested"
  entries,       \* the workloads registered
  svids,         \* the workloads the agent holds a valid SVID for
  workload,      \* workload[w]: where its main is
  lastRequest,   \* what came of the client's last request
  flaps,
  \* The script.
  pc, retries, existing,
  scripts        \* runs so far

containers == << healthy, agent, entries, svids, workload, lastRequest, flaps >>
script     == << pc, retries, existing, scripts >>
vars       == << containers, script >>

Workload == {"backend-api", "client-worker"}

-----------------------------------------------------------------------------
(* The containers.                                                         *)

Flap ==
  /\ flaps < MaxFlaps
  /\ flaps' = flaps + 1
  /\ healthy' = ~healthy
  /\ UNCHANGED << agent, entries, svids, workload, lastRequest, script >>

(***************************************************************************)
(* The agent presents its join token to the server.                        *)
(***************************************************************************)
Attest ==
  /\ agent = "started" /\ healthy
  /\ agent' = "attested"
  /\ UNCHANGED << healthy, entries, svids, workload, lastRequest, flaps, script >>

(***************************************************************************)
(* The attested agent learns of the entries from the server, which signs   *)
(* their SVIDs, and has those it holds renewed before they run out.        *)
(***************************************************************************)
Sync ==
  /\ agent = "attested" /\ healthy /\ svids # entries
  /\ svids' = entries
  /\ UNCHANGED << healthy, agent, entries, workload, lastRequest, flaps, script >>

(***************************************************************************)
(* An SVID that nobody renews runs out after default_x509_svid_ttl.        *)
(***************************************************************************)
Expire(w) ==
  /\ ~healthy /\ w \in svids
  /\ svids' = svids \ {w}
  /\ UNCHANGED << healthy, agent, entries, workload, lastRequest, flaps, script >>

SetWorkload(w, at) ==
  /\ workload' = [workload EXCEPT ![w] = at]
  /\ UNCHANGED << healthy, agent, entries, svids, lastRequest, flaps, script >>

TryIdentity_Once(w) ==
  /\ workload[w] = "trying"
  /\ SetWorkload(w, IF w \in svids THEN "ready" ELSE "exited")

(***************************************************************************)
(* NewX509Source of main: an identity, or an error and two seconds' sleep. *)
(* A backend that is ready listens on its mTLS port.                       *)
(***************************************************************************)
TryIdentity(w) ==
  /\ workload[w] = "trying"
  /\ SetWorkload(w, IF w \in svids THEN "ready" ELSE "sleeping")

Wake(w) == workload[w] = "sleeping" /\ SetWorkload(w, "trying")

Listening == workload["backend-api"] = "ready"

(***************************************************************************)
(* RunDaemon: a request, now and at every tick.  It needs a listener; the  *)
(* handshake needs a valid SVID on both sides, but a connection kept from  *)
(* an earlier request, or the copy of an SVID that a workload's source     *)
(* holds, may still do without the agent's.                                *)
(***************************************************************************)
ExecuteRequest ==
  /\ workload["client-worker"] = "ready"
  /\ \/ Listening /\ lastRequest' = "ok"
     \/ ~(Listening /\ svids = Workload) /\ lastRequest' = "failed"
  /\ UNCHANGED << healthy, agent, entries, svids, workload, flaps, script >>

-----------------------------------------------------------------------------
(* The script.                                                             *)

Goto(label) == pc' = label /\ UNCHANGED scripts
Fresh       == retries' = 0 /\ UNCHANGED existing
Exit        == Goto("exit_1") /\ UNCHANGED << retries, existing >>

Start ==
  /\ pc \in {"none", "complete", "exit_1"}
  /\ scripts < MaxScripts
  /\ scripts' = scripts + 1
  /\ pc' = "wait_server"
  /\ Fresh
  /\ UNCHANGED containers

WaitServer_Forever ==
  /\ pc = "wait_server"
  /\ IF healthy THEN Goto("agent") ELSE Goto("wait_server")
  /\ UNCHANGED << containers, existing, retries >>

(***************************************************************************)
(* until healthcheck || RETRY_COUNT = MAX_RETRIES, and what follows it:    *)
(* only the counter is looked at, so a server that is healthy just for the *)
(* last check has failed.                                                  *)
(***************************************************************************)
WaitServer ==
  /\ pc = "wait_server"
  /\ \/ /\ ~healthy /\ retries < MaxRetries
        /\ retries' = retries + 1
        /\ Goto("wait_server")
     \/ /\ healthy \/ retries = MaxRetries
        /\ Goto(IF retries = MaxRetries THEN "exit_1" ELSE "agent")
        /\ UNCHANGED retries
  /\ UNCHANGED << containers, existing >>

AgentListed == healthy /\ agent = "attested"

FindAgent ==
  /\ pc = "agent"
  /\ Goto(IF AgentListed THEN "entries" ELSE "token")
  /\ Fresh
  /\ UNCHANGED containers

(***************************************************************************)
(* The agent's container starts with a new join token.  An agent that was  *)
(* attested before keeps its identity in its data directory, but not the   *)
(* SVIDs of the workloads.                                                 *)
(***************************************************************************)
StartAgent ==
  /\ agent' = IF agent = "attested" THEN agent ELSE "started"
  /\ svids' = {}

(***************************************************************************)
(* token generate, the edit of .env and docker compose up.  Each may fail, *)
(* the last of them with the container started or not.                     *)
(***************************************************************************)
LaunchAgent ==
  /\ pc = "token"
  /\ \/ healthy /\ StartAgent /\ Goto("wait_agent") /\ Fresh
     \/ healthy /\ StartAgent /\ Exit
     \/ UNCHANGED << agent, svids >> /\ Exit
  /\ UNCHANGED << healthy, entries, workload, lastRequest, flaps >>

(***************************************************************************)
(* The wait for the agent goes on to its success message either way.       *)
(***************************************************************************)
WaitAgent ==
  /\ pc = "wait_agent"
  /\ \/ ~AgentListed /\ retries < AgentRetries /\ retries' = retries + 1 /\ Goto("wait_agent")
     \/ (AgentListed \/ retries = AgentRetries) /\ UNCHANGED retries /\ Goto("entries")
  /\ UNCHANGED << containers, existing >>

(***************************************************************************)
(* entry show.  The script looks for each SPIFFE id in the whole listing:  *)
(* neither of the two is a part of the other.                              *)
(***************************************************************************)
ShowEntries ==
  /\ pc = "entries"
  /\ existing' = IF healthy THEN entries ELSE {}
  /\ Goto("backend-api")
  /\ UNCHANGED << containers, retries >>

(***************************************************************************)
(* entry create, unless the listing had it; the server refuses a second    *)
(* entry for the same workload.                                            *)
(***************************************************************************)
Register(w) ==
  /\ pc = w
  /\ \/ /\ w \in existing \/ (healthy /\ w \notin entries)
        /\ entries' = entries \cup {w}
        /\ Goto(IF w = "backend-api" THEN "client-worker" ELSE "restart")
        /\ UNCHANGED << retries, existing >>
     \/ /\ w \notin existing /\ (~healthy \/ w \in entries)
        /\ Exit
        /\ UNCHANGED entries
  /\ UNCHANGED << healthy, agent, svids, workload, lastRequest, flaps >>

(***************************************************************************)
(* docker compose restart.  One that fails may have restarted some.        *)
(***************************************************************************)
Restart ==
  /\ pc = "restart"
  /\ \E up \in SUBSET Workload :
       /\ workload' = [w \in Workload |-> IF w \in up THEN "trying" ELSE workload[w]]
       /\ \/ up = Workload /\ Goto("wait_backend") /\ Fresh
          \/ Exit
  /\ UNCHANGED << healthy, agent, entries, svids, lastRequest, flaps >>

WaitBackend_Unchecked ==
  /\ pc = "wait_backend"
  /\ retries' = retries + 1
  /\ Goto(IF Listening \/ retries + 1 = MaxRetries THEN "complete" ELSE "wait_backend")
  /\ UNCHANGED << containers, existing >>

(***************************************************************************)
(* MAX_RETRIES attempts to reach the backend's listener.                   *)
(***************************************************************************)
WaitBackend ==
  /\ pc = "wait_backend"
  /\ retries' = retries + 1
  /\ Goto(IF Listening THEN "complete"
          ELSE IF retries + 1 = MaxRetries THEN "exit_1" ELSE "wait_backend")
  /\ UNCHANGED << containers, existing >>

-----------------------------------------------------------------------------
(***************************************************************************)
(* docker compose up: the workloads run from the start.                    *)
(***************************************************************************)
Init ==
  /\ healthy = FALSE /\ agent = "absent" /\ entries = {} /\ svids = {} /\ flaps = 0
  /\ workload = [w \in Workload |-> "trying"]
  /\ lastRequest = "none"
  /\ pc = "none" /\ retries = 0 /\ existing = {} /\ scripts = 0

ScriptStep ==
  \/ WaitServer \/ FindAgent \/ LaunchAgent \/ WaitAgent
  \/ ShowEntries \/ (\E w \in Workload : Register(w))
  \/ Restart \/ WaitBackend

Next ==
  \/ Start \/ ScriptStep
  \/ Flap \/ Attest \/ Sync \/ ExecuteRequest
  \/ \E w \in Workload : Expire(w) \/ TryIdentity(w) \/ Wake(w)

(***************************************************************************)
(* Processes run.  The operator need not start the script, the server need *)
(* not come up, and a join token may run out before the agent uses it.     *)
(***************************************************************************)
Fairness ==
  /\ WF_vars(ScriptStep) /\ WF_vars(Sync) /\ WF_vars(ExecuteRequest)
  /\ \A w \in Workload : WF_vars(TryIdentity(w)) /\ WF_vars(Wake(w))

Spec == Init /\ [][Next]_vars /\ Fairness

-----------------------------------------------------------------------------
TypeOK ==
  /\ healthy \in BOOLEAN
  /\ agent \in {"absent", "started", "attested"}
  /\ entries \subseteq Workload /\ existing \subseteq entries /\ svids \subseteq entries
  /\ workload \in [Workload -> {"trying", "sleeping", "ready"}]
  /\ lastRequest \in {"none", "ok", "failed"}
  /\ flaps \in 0..MaxFlaps /\ scripts \in 0..MaxScripts
  /\ pc \in {"none", "wait_server", "agent", "token", "wait_agent",
             "entries", "restart", "wait_backend", "complete",
             "exit_1"} \cup Workload
  /\ retries \in 0..(MaxRetries + AgentRetries)

(***************************************************************************)
(* "SPIRE Keyless Bootstrap Complete!" means it: the agent is attested and *)
(* both workloads are registered, whatever earlier runs left behind and    *)
(* although the wait for the agent does not look at how it ended.          *)
(***************************************************************************)
CompleteMeansWorking ==
  pc = "complete" => agent = "attested" /\ entries = Workload

(***************************************************************************)
(* The invariant of the script and the containers: types, and the truth of *)
(* its last message.                                                       *)
(***************************************************************************)
BootstrapInv == TypeOK /\ CompleteMeansWorking

(***************************************************************************)
(* The script ends, even if nothing ever comes up.                         *)
(***************************************************************************)
ScriptEnds == pc = "wait_server" ~> pc \in {"complete", "exit_1"}

(***************************************************************************)
(* Once the agent is attested and both workloads are registered, a server  *)
(* that is back for good is all that is needed: workloads that were        *)
(* started too early get their identity, those whose SVIDs ran out in an   *)
(* outage get new ones, and the client's requests succeed from then on.    *)
(***************************************************************************)
WorkloadsConnect ==
  <>(agent = "attested" /\ entries = Workload) /\ <>[]healthy
    => <>[](lastRequest = "ok")

=============================================================================
