---------------------------- MODULE OverviewPage ----------------------------
(***************************************************************************)
(* The console's start page, app/page.tsx, with the topology graph it      *)
(* feeds, components/TopologyGraph.tsx, and the route it polls,            *)
(* backend app/api/overview.py.                                            *)
(*                                                                         *)
(* loadData runs on mount, every ten seconds and on a button; nothing      *)
(* keeps two runs from overlapping.  Each run awaits two calls together,   *)
(* and get_overview answers from four reads of a world that changes        *)
(* between them.                                                           *)
(***************************************************************************)
EXTENDS Naturals, FiniteSets, Sequences

CONSTANTS
  Load,          \* runs of loadData that may be in flight at once (a bound)
  Count,         \* the numbers of entries and agents there can be
  Clicked,       \* the nodes of the graph the operator clicks
  MaxChanges     \* bound on the changes of the world

ASSUME OverviewAssumption ==
  /\ IsFiniteSet(Load) /\ Load # {}
  /\ Count \subseteq Nat /\ 0 \in Count
  /\ Clicked \subseteq {"server", "agent", "backend", "client", "oidc"}
  /\ MaxChanges \in Nat

VARIABLES
  \* The world: the SPIRE server, which leaves its socket file behind when
  \* it crashes, the OIDC provider, the number of audit events, and whether
  \* the browser reaches the control plane.
  server, entries, agents, oidc, events, api, changes,
  fetch,         \* the calls in flight: two for each load
  route,         \* route[l]: what get_overview has read for load l
  \* The page.
  mounted, overview, recentLogs, loading, error, selectedNode,
  timers,        \* the intervals that are running
  mine           \* the loads whose page instance is still mounted

Part == {"overview", "logs"}
Api  == INSTANCE ApiClient WITH Request <- Load \X Part

world == << server, entries, agents, oidc, events, api, changes >>
view  == << overview, recentLogs, loading, error, selectedNode >>
vars  == << world, fetch, route, mounted, view, timers, mine >>

Null == [null |-> TRUE]

Node == {"server", "agent", "backend", "client", "oidc"}

-----------------------------------------------------------------------------
(* The control plane.                                                      *)

(***************************************************************************)
(* The four reads of get_overview, in order: check_health, which trusts a  *)
(* socket file; list_entries and list_agents with their built-in demo      *)
(* answers; the OIDC provider's health.                                    *)
(***************************************************************************)
ReadHealth  == server # "down"
ReadEntries == IF server = "up" THEN entries ELSE 2
ReadAgents  == IF server = "up" THEN agents ELSE 1

Summary(h, e, a, o) ==
  [spire_server_healthy |-> h, workload_entries_count |-> e,
   spire_agent_count |-> a, oidc_healthy |-> o,
   backend_api_healthy |-> TRUE, active_svids |-> e + a]

OverviewSummary ==
  [spire_server_healthy : BOOLEAN, workload_entries_count : Nat,
   spire_agent_count : Nat, oidc_healthy : BOOLEAN,
   backend_api_healthy : {TRUE}, active_svids : Nat]

NotRead == << >>

(***************************************************************************)
(* One await of get_overview for load l; the last one answers.             *)
(***************************************************************************)
ServeOverview(l) ==
  LET got == route[l]
      r == << l, "overview" >>
  IN  /\ fetch[r].at = "sent"
      /\ IF Len(got) < 3
         THEN /\ route' = [route EXCEPT ![l] = Append(got,
                   << ReadHealth, ReadEntries, ReadAgents >>[Len(got) + 1])]
              /\ UNCHANGED fetch
         ELSE /\ Api!Answer(r, Summary(got[1], got[2], got[3], oidc))
              /\ route' = [route EXCEPT ![l] = NotRead]
      /\ api
      /\ UNCHANGED << world, mounted, view, timers, mine >>

(***************************************************************************)
(* get_audit_logs: the newest five events.  They stand for how many events *)
(* there are; the empty list is 0.                                         *)
(***************************************************************************)
ServeLogs(l) ==
  /\ api
  /\ Api!Answer(<< l, "logs" >>, events)
  /\ UNCHANGED << world, route, mounted, view, timers, mine >>

(***************************************************************************)
(* The control plane cannot be reached: the call fails.                    *)
(***************************************************************************)
Unreachable(l, p) ==
  /\ ~api
  /\ Api!Throw(<< l, p >>)
  /\ route' = IF p = "overview" THEN [route EXCEPT ![l] = NotRead] ELSE route
  /\ UNCHANGED << world, mounted, view, timers, mine >>

WorldChanges ==
  /\ changes < MaxChanges
  /\ changes' = changes + 1
  /\ \/ /\ server' \in {"up", "crashed", "down"} \ {server}
        /\ UNCHANGED << entries, agents, oidc, events, api >>
     \/ /\ entries' \in Count \ {entries}
        /\ UNCHANGED << server, agents, oidc, events, api >>
     \/ /\ agents' \in Count \ {agents}
        /\ UNCHANGED << server, entries, oidc, events, api >>
     \/ oidc' = ~oidc /\ UNCHANGED << server, entries, agents, events, api >>
     \/ events' = events + 1 /\ UNCHANGED << server, entries, agents, oidc, api >>
     \/ api' = ~api /\ UNCHANGED << server, entries, agents, oidc, events >>
  /\ UNCHANGED << fetch, route, mounted, view, timers, mine >>

-----------------------------------------------------------------------------
(* loadData and the effect that runs it.                                   *)

Busy(l) == fetch[<< l, "overview" >>] # Api!Idle

(***************************************************************************)
(* The start of loadData in a free slot: both calls are sent at once.      *)
(***************************************************************************)
StartLoad(l) ==
  /\ ~Busy(l)
  /\ fetch' = [r \in Load \X Part |->
                 IF r[1] = l THEN [at |-> "sent", query |-> r[2]] ELSE fetch[r]]
  /\ mine' = mine \cup {l}
  /\ loading' = TRUE
  /\ error' = FALSE

(***************************************************************************)
(* The page is entered: a fresh instance, a first load, an interval.       *)
(***************************************************************************)
Mount(l) ==
  /\ ~mounted
  /\ mounted' = TRUE
  /\ overview' = Null
  /\ recentLogs' = 0
  /\ selectedNode' = "server"
  /\ StartLoad(l)
  /\ timers' = timers + 1
  /\ UNCHANGED << world, route >>

Unmount_Leaks ==
  /\ mounted
  /\ mounted' = FALSE
  /\ mine' = {}
  /\ UNCHANGED << world, fetch, route, view, timers >>

(***************************************************************************)
(* The page is left: the cleanup clears the interval.  Calls in flight go  *)
(* on, and what they set has no page to show it.                           *)
(***************************************************************************)
Unmount ==
  /\ mounted
  /\ mounted' = FALSE
  /\ timers' = timers - 1
  /\ mine' = {}
  /\ UNCHANGED << world, fetch, route, view >>

Tick_WhenIdle(l) ==
  /\ timers > 0
  /\ mounted /\ overview = Null
  /\ StartLoad(l)
  /\ UNCHANGED << world, route, mounted, overview, recentLogs, selectedNode, timers >>

(***************************************************************************)
(* Ten seconds have passed.                                                *)
(***************************************************************************)
Tick(l) ==
  /\ timers > 0
  /\ StartLoad(l)
  /\ UNCHANGED << world, route, mounted, overview, recentLogs, selectedNode, timers >>

(***************************************************************************)
(* The graph's "Refresh State" button.                                     *)
(***************************************************************************)
onRefresh(l) ==
  /\ mounted
  /\ StartLoad(l)
  /\ UNCHANGED << world, route, mounted, overview, recentLogs, selectedNode, timers >>

(***************************************************************************)
(* The built-in answer of the catch on getOverview.                        *)
(***************************************************************************)
Fallback == [Summary(TRUE, 2, 1, TRUE) EXCEPT !.active_svids = 3]

ResultOf(l, p, instead) ==
  IF fetch[<< l, p >>].at = "ok" THEN fetch[<< l, p >>].body ELSE instead

(***************************************************************************)
(* The rest of loadData, once both calls have settled.  Each call has a    *)
(* catch of its own, so Promise.all never rejects and error stays null.    *)
(***************************************************************************)
LoadSettles(l) ==
  /\ \A p \in Part : fetch[<< l, p >>] # Api!Idle /\ fetch[<< l, p >>].at # "sent"
  /\ IF l \in mine
     THEN /\ overview'   = ResultOf(l, "overview", Fallback)
          /\ recentLogs' = ResultOf(l, "logs", 0)
          /\ loading'    = FALSE
     ELSE UNCHANGED << overview, recentLogs, loading >>
  /\ fetch' = [r \in Load \X Part |-> IF r[1] = l THEN Api!Idle ELSE fetch[r]]
  /\ mine' = mine \ {l}
  /\ UNCHANGED << world, route, mounted, error, selectedNode, timers >>

(***************************************************************************)
(* The number on a card, and the rows of recent events; without any, "No   *)
(* recent events recorded yet."                                            *)
(***************************************************************************)
Card(field) == IF overview = Null THEN "-" ELSE overview[field]

RecentEvents == 1..recentLogs

-----------------------------------------------------------------------------
(* TopologyGraph.                                                          *)

SelectNode(n) ==
  /\ mounted
  /\ selectedNode' = n
  /\ UNCHANGED << world, fetch, route, mounted, overview, recentLogs, loading,
                  error, timers, mine >>

(***************************************************************************)
(* The status field of the five nodes.                                     *)
(***************************************************************************)
Reports(field) == overview # Null /\ overview[field]

NodeStatus(n) ==
  LET healthy ==
        CASE n = "server"  -> Reports("spire_server_healthy")
          [] n = "agent"   -> overview # Null /\ overview.spire_agent_count > 0
          [] n = "backend" -> Reports("backend_api_healthy")
          [] n = "client"  -> TRUE
          [] n = "oidc"    -> Reports("oidc_healthy")
  IN  IF healthy THEN "healthy" ELSE "offline"

-----------------------------------------------------------------------------
(* The console is opened on a stack that has just started: the server is   *)
(* up and nothing is registered yet.                                       *)

Init ==
  /\ server = "up" /\ entries = 0 /\ agents = 0
  /\ oidc = TRUE /\ events = 1 /\ api = TRUE /\ changes = 0
  /\ fetch = [r \in Load \X Part |-> Api!Idle]
  /\ route = [l \in Load |-> NotRead]
  /\ mounted = FALSE /\ timers = 0 /\ mine = {}
  /\ overview = Null /\ recentLogs = 0
  /\ loading = TRUE /\ error = FALSE /\ selectedNode = "server"

Settle(l) ==
  LoadSettles(l) \/ ServeOverview(l) \/ ServeLogs(l) \/ \E p \in Part : Unreachable(l, p)

Next ==
  \/ WorldChanges \/ Unmount
  \/ \E l \in Load : Mount(l) \/ Tick(l) \/ onRefresh(l) \/ Settle(l)
  \/ \E n \in Clicked : SelectNode(n)

(***************************************************************************)
(* The interval fires, every call settles and the browser runs what awaits *)
(* it.  Nothing is assumed of the operator or of the world.                *)
(***************************************************************************)
Fairness ==
  /\ WF_vars(\E l \in Load : Tick(l))
  /\ \A l \in Load :
       /\ WF_vars(LoadSettles(l))
       /\ WF_vars(ServeOverview(l) \/ Unreachable(l, "overview"))
       /\ WF_vars(ServeLogs(l) \/ Unreachable(l, "logs"))

Spec == Init /\ [][Next]_vars /\ Fairness

-----------------------------------------------------------------------------
TypeOK ==
  /\ server \in {"up", "crashed", "down"}
  /\ entries \in Count /\ agents \in Count
  /\ { oidc, api, mounted, loading, error } \subseteq BOOLEAN
  /\ events \in Nat /\ changes \in 0..MaxChanges /\ timers \in Nat
  /\ DOMAIN fetch = Load \X Part
  /\ \A l \in Load :
       /\ fetch[<< l, "overview" >>] \in Api!CallState({"overview"}, OverviewSummary)
       /\ fetch[<< l, "logs" >>] \in Api!CallState({"logs"}, 0..events)
       /\ Len(route[l]) <= 3
  /\ overview \in {Null} \cup OverviewSummary
  /\ recentLogs \in 0..events
  /\ selectedNode \in Node
  /\ mine \subseteq Load

(***************************************************************************)
(* Only the mounted page polls: however often the operator comes and goes, *)
(* the intervals running are those of the page on display.                 *)
(***************************************************************************)
OneInterval == timers = IF mounted THEN 1 ELSE 0

(***************************************************************************)
(* The cards add up: the SVIDs are those of the agents and the entries,    *)
(* whichever reads, of whichever load, or built-in numbers are on display. *)
(***************************************************************************)
CardsAddUp ==
  overview # Null =>
    Card("active_svids") = Card("workload_entries_count") + Card("spire_agent_count")

(***************************************************************************)
(* The invariant of the page: types, one interval while it is mounted, and *)
(* cards that add up.                                                      *)
(***************************************************************************)
OverviewInv == TypeOK /\ OneInterval /\ CardsAddUp

(***************************************************************************)
(* Overlapping loads end up with the truth: once the operator stays, the   *)
(* control plane stays reachable and the world stops changing (it does     *)
(* after MaxChanges), the page comes to show, and goes on showing, what    *)
(* the reads of get_overview say of the world, although an older answer    *)
(* may overwrite a newer one on the way; so do the statuses of the graph's *)
(* nodes.                                                                  *)
(***************************************************************************)
ShowsWorld ==
  /\ overview = Summary(ReadHealth, ReadEntries, ReadAgents, oidc)
  /\ RecentEvents = 1..events
  /\ NodeStatus("server") = "healthy" <=> ReadHealth
  /\ NodeStatus("agent")  = "healthy" <=> ReadAgents > 0
  /\ NodeStatus("oidc")   = "healthy" <=> oidc

OverviewConverges == <>[](mounted /\ api) => <>[]ShowsWorld

=============================================================================
