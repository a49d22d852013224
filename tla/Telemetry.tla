------------------------------ MODULE Telemetry ------------------------------
(***************************************************************************)
(* The gauges of the control plane and everything that sets them: the      *)
(* background loop of dashboard/backend/app/main.py, and the list_entries  *)
(* and list_agents of spire_service.py, which set gauges themselves when   *)
(* an HTTP handler calls them.  A listing runs in a subprocess: the server *)
(* answers from the state of one moment, and the answer is used at a later *)
(* one.  When it does not come in time the caller gets the built-in demo   *)
(* list instead.                                                           *)
(***************************************************************************)
EXTENDS Integers, FiniteSets

CONSTANTS
  Handler,       \* HTTP handlers that list entries or agents
  Loop,          \* the background task
  Size,          \* the sizes the datastore and the agent list can have
  MaxChanges,    \* bound on changes of the environment
  MaxTTL,        \* 3600: the lifetime of a fresh SVID
  Tick,          \* 10: what a poll takes off it
  Threshold      \* 60: below it the loop starts again at MaxTTL

ASSUME TelemetryAssumption ==
  /\ Size \subseteq Nat /\ MaxChanges \in Nat
  /\ Loop \notin Handler
  /\ MaxTTL \in Nat /\ Tick \in Nat /\ Threshold \in Nat
  /\ Threshold <= MaxTTL

Task == Handler \cup {Loop}

DemoEntries == 2   \* the length of list_entries' built-in answer
DemoAgents  == 1   \* the length of list_agents' built-in answer

unset == -1        \* a gauge nobody has set, a listing not answered

VARIABLES
  entries,       \* how many entries SPIRE's datastore holds
  agents,        \* how many agents are attested
  up,            \* whether the server answers a command within its limit
  changes,       \* how often the environment has changed these three
  doing,         \* doing[p]: the listing task p waits for, if any
  answer,        \* answer[p]: what the server has answered it
  entries_list,  \* the length of the loop's entries_list
  workloads,     \* spiffe_registered_workloads_gauge
  svids,         \* spiffe_active_svids_gauge
  attested,      \* spiffe_attested_agents_gauge
  ttl            \* _SVID_TTLS of a workload, and its gauge

spire  == << entries, agents, up, changes >>
gauges == << workloads, svids, attested >>
vars   == << spire, doing, answer, entries_list, gauges, ttl >>

Init ==
  /\ entries \in Size /\ agents \in Size /\ up \in BOOLEAN
  /\ changes = 0
  /\ doing   = [p \in Task |-> IF p = Loop THEN "entries" ELSE "idle"]
  /\ answer  = [p \in Task |-> unset]
  /\ entries_list = 0
  /\ workloads = unset /\ svids = unset /\ attested = unset
  /\ ttl  = MaxTTL

-----------------------------------------------------------------------------
(* The environment.                                                        *)

(***************************************************************************)
(* Registrations come and go, agents join and expire, the server or docker *)
(* becomes slow or reachable.                                              *)
(***************************************************************************)
SpireChanges ==
  /\ changes < MaxChanges
  /\ changes' = changes + 1
  /\ \/ entries' \in Size /\ UNCHANGED << agents, up >>
     \/ agents' \in Size /\ UNCHANGED << entries, up >>
     \/ up' = ~ up /\ UNCHANGED << entries, agents >>
  /\ UNCHANGED << doing, answer, entries_list, gauges, ttl >>

(***************************************************************************)
(* The server reads its state for p's listing.                             *)
(***************************************************************************)
SpireAnswers(p) ==
  /\ doing[p] \in { "entries", "agents" }
  /\ answer[p] = unset
  /\ up
  /\ answer' = [answer EXCEPT ![p] = IF doing[p] = "entries" THEN entries ELSE agents]
  /\ UNCHANGED << spire, doing, entries_list, gauges, ttl >>

-----------------------------------------------------------------------------
(* Listings.                                                               *)


wait_for(p, listing) ==
  /\ doing'  = [doing EXCEPT ![p] = listing]
  /\ answer' = [answer EXCEPT ![p] = unset]

(***************************************************************************)
(* list_entries returns n entries to p: those of the server's answer,      *)
(* which it also publishes, or after a failure or timeout the demo list,   *)
(* which it does not.                                                      *)
(***************************************************************************)
list_entries(p, n) ==
  /\ doing[p] = "entries"
  /\ \/ /\ answer[p] # unset
        /\ n = answer[p]
        /\ workloads' = n
        /\ svids' = n + 1
     \/ /\ ~ up
        /\ n = DemoEntries
        /\ UNCHANGED << workloads, svids >>

(***************************************************************************)
(* list_agents returns n agents to p, in the same two ways.                *)
(***************************************************************************)
list_agents(p, n) ==
  /\ doing[p] = "agents"
  /\ \/ answer[p] # unset /\ n = answer[p]
     \/ ~ up /\ n = DemoAgents

Length == Size \cup { DemoEntries, DemoAgents }

-----------------------------------------------------------------------------
(* HTTP handlers: GET /api/entries, /api/agents and the two listings of    *)
(* /api/overview.                                                          *)

begin_listing(h) ==
  /\ doing[h] = "idle"
  /\ \E listing \in { "entries", "agents" } : wait_for(h, listing)
  /\ UNCHANGED << spire, entries_list, gauges, ttl >>

get_entries(h) ==
  /\ \E n \in Length : list_entries(h, n)
  /\ wait_for(h, "idle")
  /\ UNCHANGED << spire, entries_list, attested, ttl >>

get_agents(h) ==
  /\ \E n \in Length : /\ list_agents(h, n)
                       /\ attested' = IF answer[h] = unset THEN attested ELSE n
  /\ wait_for(h, "idle")
  /\ UNCHANGED << spire, entries_list, workloads, svids, ttl >>

-----------------------------------------------------------------------------
(* _telemetry_background_loop.                                             *)

poll_entries_Raises ==
  /\ list_entries(Loop, answer[Loop])
  /\ entries_list' = answer[Loop]
  /\ wait_for(Loop, "agents")
  /\ UNCHANGED << spire, attested, ttl >>

(***************************************************************************)
(* The loop has its entries and goes on to ask for the agents.             *)
(***************************************************************************)
poll_entries ==
  /\ \E n \in Length : list_entries(Loop, n) /\ entries_list' = n
  /\ wait_for(Loop, "agents")
  /\ UNCHANGED << spire, attested, ttl >>

countdown_AtZero(t) ==
  LET remaining == IF t - Tick > 0 THEN t - Tick ELSE 0
  IN  IF remaining = 0 THEN MaxTTL ELSE remaining

(***************************************************************************)
(* The simulated SVID lifetime after one more poll.                        *)
(***************************************************************************)
countdown(t) ==
  LET remaining == IF t - Tick > 0 THEN t - Tick ELSE 0
  IN  IF remaining < Threshold THEN MaxTTL ELSE remaining

(***************************************************************************)
(* The loop has its agents too: it sets every gauge from the two lists it  *)
(* holds, demo lists included, counts the lifetimes down and sleeps.       *)
(***************************************************************************)
poll_agents ==
  /\ \E n \in Length : list_agents(Loop, n) /\ attested' = n
  /\ workloads' = entries_list
  /\ svids' = entries_list + 1
  /\ ttl' = countdown(ttl)
  /\ wait_for(Loop, "asleep")
  /\ UNCHANGED << spire, entries_list >>

wake_Once ==
  /\ doing[Loop] = "asleep"
  /\ workloads = unset
  /\ wait_for(Loop, "entries")
  /\ UNCHANGED << spire, entries_list, gauges, ttl >>

(***************************************************************************)
(* The sleep of ten seconds is over.                                       *)
(***************************************************************************)
wake ==
  /\ doing[Loop] = "asleep"
  /\ wait_for(Loop, "entries")
  /\ UNCHANGED << spire, entries_list, gauges, ttl >>

-----------------------------------------------------------------------------

Next ==
  \/ SpireChanges
  \/ \E p \in Task : SpireAnswers(p)
  \/ \E h \in Handler : begin_listing(h) \/ get_entries(h) \/ get_agents(h)
  \/ poll_entries
  \/ poll_agents
  \/ wake

(***************************************************************************)
(* A server that is up answers, a listing that has been answered or has    *)
(* timed out is used, and a sleep ends.  Nothing makes handlers run.       *)
(***************************************************************************)
Fairness ==
  /\ \A p \in Task : WF_vars(SpireAnswers(p))
  /\ \A h \in Handler : WF_vars(get_entries(h)) /\ WF_vars(get_agents(h))
  /\ WF_vars(poll_entries) /\ WF_vars(poll_agents) /\ WF_vars(wake)

Spec == Init /\ [][Next]_vars /\ Fairness

-----------------------------------------------------------------------------
(* Properties.                                                             *)

(***************************************************************************)
(* The type invariant.  The published lifetime never falls below the       *)
(* rotation threshold.                                                     *)
(***************************************************************************)
TypeOK ==
  /\ entries \in Size /\ agents \in Size /\ up \in BOOLEAN
  /\ changes \in 0 .. MaxChanges
  /\ doing  \in [Task -> { "idle", "entries", "agents", "asleep" }]
  /\ answer \in [Task -> Size \cup {unset}]
  /\ entries_list \in Length \cup {0}
  /\ workloads \in Length \cup {unset}
  /\ svids \in { n + 1 : n \in Length } \cup {unset}
  /\ attested \in Length \cup {unset}
  /\ ttl \in Threshold .. MaxTTL

(***************************************************************************)
(* The listings of handlers and loop set two gauges each, one after the    *)
(* other and both from the list at hand, so that what is scraped counts    *)
(* one SVID for every workload and one for the agent.                      *)
(***************************************************************************)
GaugesAgree == svids = IF workloads = unset THEN unset ELSE workloads + 1

(***************************************************************************)
(* The loop's invariant: types, and gauges that agree with each other.     *)
(***************************************************************************)
TelemetryInv == TypeOK /\ GaugesAgree

Accurate == workloads = entries /\ svids = entries + 1 /\ attested = agents

(***************************************************************************)
(* Once SPIRE stays reachable and stops changing, the gauges come to show  *)
(* its state and keep showing it: answers that are stale when a handler or *)
(* the loop uses them, and demo values left by an outage, do not stay.     *)
(***************************************************************************)
GaugesConverge == <>[]up => <>[]Accurate

(***************************************************************************)
(* No outage stops the loop: it keeps polling, and so the simulated SVID   *)
(* lifetime keeps coming round to its maximum.                             *)
(***************************************************************************)
LoopKeepsPolling == []<>(ttl # MaxTTL) /\ []<>(ttl = MaxTTL)

=============================================================================
