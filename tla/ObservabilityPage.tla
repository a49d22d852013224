-------------------------- MODULE ObservabilityPage --------------------------
(***************************************************************************)
(* The console's live audit feed, app/observability/page.tsx, with the     *)
(* shell around it: components/Header.tsx and Navbar.tsx, which layout.tsx *)
(* keeps mounted on every page.                                            *)
(*                                                                         *)
(* The feed has two sources.  A load replaces the list by the newest       *)
(* events of the log as they were when the server handled the call; the    *)
(* socket prepends events as they are broadcast.  Nothing orders the two.  *)
(* Header and feed each hold a socket, and none is ever reopened.          *)
(*                                                                         *)
(* Events are numbered in the order in which they enter the log.  The      *)
(* server's fan-out takes the steps of AuditStream, the promise that       *)
(* EventService keeps: it may miss the feed's socket or send an event      *)
(* again.  The header's frames have no effect, and are left out with its   *)
(* place in the server's set.                                              *)
(***************************************************************************)
EXTENDS ApiClient, Naturals, Sequences, FiniteSets

CONSTANTS
  FeedSocket,    \* sockets the visits of the page use in turn (a bound)
  Visited,       \* the links the operator follows
  Limit,         \* the page asks for the newest Limit events (30)
  MaxEvents,     \* bound on the events
  MaxRepeats     \* bound on the repetitions of an event

VARIABLES
  \* The server.
  recorded,      \* the number of events logged
  outgoing,      \* events whose broadcast has not ended
  heard,         \* those of outgoing sent to the feed's socket
  attached,      \* the feed's sockets among the server's active connections
  api,           \* whether the API can be reached
  \* The browser.
  ws,            \* ws[s]: readyState of socket s
  wire,          \* the feed's frames sent and not yet handled
  path,          \* pathname
  feed,          \* the socket of the mounted feed, if any
  logs,          \* the events shown, newest first
  mine,          \* the calls of the mounted instance
  \* History, read by no guard but that of the bound.
  missed,        \* events whose broadcast did not reach the mounted feed
  repeats        \* repeats[e]: how often the mounted feed was sent e again

server  == << recorded, outgoing, heard, api >>
sockets == << attached, ws, wire >>
page    == << path, feed, logs, fetch, mine >>
history == << missed, repeats >>
vars    == << server, sockets, page, history >>

(***************************************************************************)
(* navItems of the navigation bar; the header and the start page link to   *)
(* some of them as well.                                                   *)
(***************************************************************************)
navItems == {"/", "/entries", "/agents", "/playground", "/oidc", "/observability"}

isActive(href) == path = href

ASSUME ObservabilityAssumption ==
  /\ IsFiniteSet(Request) /\ IsFiniteSet(FeedSocket)
  /\ "header" \notin FeedSocket /\ "none" \notin FeedSocket
  /\ Visited \subseteq navItems
  /\ Limit \in Nat \ {0} /\ MaxEvents \in Nat \ {0} /\ MaxRepeats \in Nat

Socket  == {"header"} \cup FeedSocket
mounted == isActive("/observability")
Event   == 1..recorded
Unsent  == [e \in 1..MaxEvents |-> 0]

(***************************************************************************)
(* get_logs: the newest Limit of the first n events, newest first.         *)
(***************************************************************************)
Newest(n) == [i \in 1..(IF n < Limit THEN n ELSE Limit) |-> n + 1 - i]

-----------------------------------------------------------------------------
(* What is rendered.                                                       *)

(***************************************************************************)
(* setWsConnected is called with true on open, with false on close and on  *)
(* error: the flag follows the socket.                                     *)
(***************************************************************************)
wsConnected(s) == s # "none" /\ ws[s] = "open"

(***************************************************************************)
(* Frames sent to a socket are kept until it opens; those for a socket     *)
(* that is closed are lost.                                                *)
(***************************************************************************)
Receives(s) == s # "none" /\ ws[s] # "closed"

FeedLabel == IF wsConnected(feed) THEN "Live Socket Active" ELSE "Polling Stream"

(***************************************************************************)
(* The events that have a row in the feed.                                 *)
(***************************************************************************)
Shown == { logs[i] : i \in DOMAIN logs }

-----------------------------------------------------------------------------
(* The server.                                                             *)

Stream == INSTANCE AuditStream WITH
            Event <- 1..MaxEvents, recorded <- Event, subscribed <- feed \in attached

(***************************************************************************)
(* A mounted feed never gets a frame of e.                                 *)
(***************************************************************************)
Misses(e) == missed' = IF mounted THEN missed \cup {e} ELSE missed

(***************************************************************************)
(* The next event is logged, and the feed may be the first to be sent it.  *)
(***************************************************************************)
Record ==
  /\ recorded < MaxEvents
  /\ recorded' = recorded + 1
  /\ UNCHANGED << api, attached, ws, page, repeats >>
  /\ Stream!Record(recorded + 1)
  /\ wire' # wire => Receives(feed)
  /\ IF outgoing' = outgoing THEN Misses(recorded + 1) ELSE UNCHANGED missed

(***************************************************************************)
(* Event e is sent to the feed's socket.                                   *)
(***************************************************************************)
Broadcast(e) ==
  /\ Receives(feed)
  /\ UNCHANGED << recorded, api, attached, ws, page, missed >>
  /\ \/ Stream!Send(e) /\ UNCHANGED repeats
     \/ /\ repeats[e] < MaxRepeats
        /\ Stream!Repeat(e)
        /\ repeats' = [repeats EXCEPT ![e] = @ + 1]

(***************************************************************************)
(* The broadcast ends.  Connections it found closed are discarded.         *)
(***************************************************************************)
BroadcastEnds(e) ==
  \E dead \in SUBSET { s \in attached : ws[s] = "closed" } :
    /\ attached' = attached \ dead
    /\ IF e \in heard THEN UNCHANGED missed ELSE Misses(e)
    /\ UNCHANGED << recorded, api, ws, page, repeats >>
    /\ Stream!End(e)

(***************************************************************************)
(* The endpoint adds a connection as soon as it has accepted it, which the *)
(* browser may not know yet, and discards one it finds closed.             *)
(***************************************************************************)
Attach(s) ==
  /\ s \in FeedSocket \ attached /\ ws[s] \in {"connecting", "open"}
  /\ attached' = attached \cup {s}
  /\ UNCHANGED << server, ws, wire, page, history >>

Detach(s) ==
  /\ ws[s] = "closed" /\ s \in attached
  /\ attached' = attached \ {s}
  /\ UNCHANGED << server, ws, wire, page, history >>

ApiChanges ==
  /\ api' = ~api
  /\ UNCHANGED << recorded, outgoing, heard, sockets, page, history >>

(***************************************************************************)
(* get_audit_logs answers from the log as it is.                           *)
(***************************************************************************)
ServeLogs(r) ==
  /\ api
  /\ Answer(r, recorded)
  /\ UNCHANGED << server, sockets, path, feed, logs, mine, history >>

Unreachable(r) ==
  /\ ~api
  /\ Throw(r)
  /\ UNCHANGED << server, sockets, path, feed, logs, mine, history >>

-----------------------------------------------------------------------------
(* The sockets of the header and of the feed.                              *)

onopen(s) ==
  /\ ws[s] = "connecting"
  /\ ws' = [ws EXCEPT ![s] = "open"]
  /\ UNCHANGED << server, attached, wire, page, history >>

(***************************************************************************)
(* The connection fails or ends; onerror is followed by onclose.  There is *)
(* no reconnection.                                                        *)
(***************************************************************************)
onclose(s) ==
  /\ ws[s] \in {"connecting", "open"}
  /\ ws' = [ws EXCEPT ![s] = "closed"]
  /\ wire' = IF s = feed THEN << >> ELSE wire
  /\ UNCHANGED << server, attached, page, history >>

(***************************************************************************)
(* The feed prepends the event of an AUDIT_EVENT frame.  The greeting and  *)
(* the pongs change nothing and are left out.                              *)
(***************************************************************************)
onmessage ==
  /\ wsConnected(feed) /\ wire # << >>
  /\ wire' = Tail(wire)
  /\ logs' = << Head(wire) >> \o logs
  /\ UNCHANGED << server, attached, ws, path, feed, fetch, mine, history >>

-----------------------------------------------------------------------------
(* Navigation, the effect's cleanup, and the effect.                       *)

(***************************************************************************)
(* What is gone with the page: its rows, its calls, its socket's frames.   *)
(***************************************************************************)
Unmount(href) ==
  /\ mounted /\ href # path
  /\ path' = href
  /\ feed' = "none" /\ logs' = << >> /\ mine' = {}
  /\ wire' = << >> /\ heard' = {} /\ missed' = {} /\ repeats' = Unsent
  /\ UNCHANGED << recorded, outgoing, api, attached, fetch >>

Leave_Leaks(href) == Unmount(href) /\ UNCHANGED ws

(***************************************************************************)
(* A link away from the page: the cleanup closes the socket.               *)
(***************************************************************************)
Leave(href) ==
  /\ Unmount(href)
  /\ ws' = IF feed = "none" THEN ws ELSE [ws EXCEPT ![feed] = "closed"]

(***************************************************************************)
(* A link to the page: a first load and a new socket, which may fail to    *)
(* be constructed.                                                         *)
(***************************************************************************)
Enter(href, r, s) ==
  /\ ~mounted /\ href = "/observability"
  /\ path' = href
  /\ Send(r, [kind |-> "logs"])
  /\ mine' = {r}
  /\ \/ /\ ws[s] = "closed" /\ s \notin attached
        /\ ws' = [ws EXCEPT ![s] = "connecting"]
        /\ feed' = s
     \/ feed' = "none" /\ UNCHANGED ws
  /\ UNCHANGED << server, attached, wire, logs, history >>

ElseWhere(href) ==
  /\ ~mounted /\ href # "/observability"
  /\ path' = href
  /\ UNCHANGED << server, sockets, feed, logs, fetch, mine, history >>

(***************************************************************************)
(* The refresh button.                                                     *)
(***************************************************************************)
Refresh(r) ==
  /\ mounted
  /\ Send(r, [kind |-> "logs"])
  /\ mine' = mine \cup {r}
  /\ UNCHANGED << server, sockets, path, feed, logs, history >>

LoadSettles_Merges(r) ==
  /\ r \in InFlight /\ fetch[r].at \in {"ok", "threw"}
  /\ logs' = IF r \notin mine THEN logs
             ELSE IF fetch[r].at = "ok" THEN Newest(fetch[r].body) \o logs
             ELSE << >>
  /\ Return(r)
  /\ mine' = mine \ {r}
  /\ UNCHANGED << server, sockets, path, feed, history >>

LoadSettles_Once(r) ==
  /\ r \in InFlight /\ fetch[r].at \in {"ok", "threw"}
  /\ logs' = IF r \notin mine \/ logs # << >> THEN logs
             ELSE IF fetch[r].at = "ok" THEN Newest(fetch[r].body)
             ELSE << >>
  /\ Return(r)
  /\ mine' = mine \ {r}
  /\ UNCHANGED << server, sockets, path, feed, history >>

(***************************************************************************)
(* The rest of loadData: the list is replaced, by the empty list when the  *)
(* call failed.  The metrics of the same run are the same numbers whether  *)
(* their call answers or fails, and waiting for them only delays this.     *)
(***************************************************************************)
LoadSettles(r) ==
  /\ r \in InFlight /\ fetch[r].at \in {"ok", "threw"}
  /\ logs' = IF r \notin mine THEN logs
             ELSE IF fetch[r].at = "ok" THEN Newest(fetch[r].body)
             ELSE << >>
  /\ Return(r)
  /\ mine' = mine \ {r}
  /\ UNCHANGED << server, sockets, path, feed, history >>

-----------------------------------------------------------------------------
(***************************************************************************)
(* The operator opens the console on its start page; the header's effect   *)
(* has created its socket.                                                 *)
(***************************************************************************)
Init ==
  /\ recorded = 1 /\ outgoing = {} /\ heard = {} /\ api = TRUE
  /\ attached = {}
  /\ ws = [s \in Socket |-> IF s = "header" THEN "connecting" ELSE "closed"]
  /\ path = "/" /\ feed = "none" /\ logs = << >> /\ wire = << >>
  /\ fetch = [r \in Request |-> Idle]
  /\ mine = {} /\ missed = {} /\ repeats = Unsent

Navigate ==
  \E href \in Visited :
    \/ Leave(href) \/ ElseWhere(href)
    \/ \E r \in Request, s \in FeedSocket : Enter(href, r, s)

Settle(r)   == ServeLogs(r) \/ Unreachable(r) \/ LoadSettles(r)
Handle(s)   == onopen(s) \/ Attach(s) \/ Detach(s)

Next ==
  \/ Record \/ ApiChanges \/ Navigate \/ onmessage
  \/ \E e \in outgoing : Broadcast(e) \/ BroadcastEnds(e)
  \/ \E r \in Request : Refresh(r) \/ Settle(r)
  \/ \E s \in Socket : Handle(s) \/ onclose(s)

(***************************************************************************)
(* Calls settle, handshakes complete, frames arrive, broadcasts end (as    *)
(* CallsTerminate of EventService says) and the server notices closed      *)
(* connections.  Nothing is assumed of the operator, of the rate of events *)
(* or of how long the network holds.                                       *)
(***************************************************************************)
Fairness ==
  /\ WF_vars(\E e \in outgoing : BroadcastEnds(e)) /\ WF_vars(onmessage)
  /\ \A r \in Request : WF_vars(Settle(r))
  /\ \A s \in Socket : WF_vars(Handle(s))

Spec == Init /\ [][Next]_vars /\ Fairness

-----------------------------------------------------------------------------
TypeOK ==
  /\ recorded \in 1..MaxEvents
  /\ heard \subseteq outgoing /\ outgoing \subseteq Event /\ missed \subseteq Event
  /\ repeats \in [1..MaxEvents -> 0..MaxRepeats]
  /\ attached \subseteq FeedSocket
  /\ ws \in [Socket -> {"connecting", "open", "closed"}]
  /\ wire \in Seq(Event)
  /\ path \in navItems /\ feed \in FeedSocket \cup {"none"}
  /\ logs \in Seq(Event)
  /\ fetch \in [Request -> CallState([kind : {"logs"}], Event)]
  /\ mine \subseteq InFlight

(***************************************************************************)
(* The console holds one socket for the header and at most one more, while *)
(* the feed is on display: visits do not pile up connections.              *)
(***************************************************************************)
SocketsFollowPages ==
  \A s \in FeedSocket : ws[s] # "closed" => mounted /\ feed = s

(***************************************************************************)
(* The invariant of the console's sockets: types, and no socket of the     *)
(* feed open without the page it belongs to.                               *)
(***************************************************************************)
FeedInv == TypeOK /\ SocketsFollowPages

(***************************************************************************)
(* The server gets rid of the socket of a page that was left.              *)
(***************************************************************************)
LeftSocketsDetach ==
  \A s \in FeedSocket : (s \in attached /\ feed # s) ~> (s \notin attached)

(***************************************************************************)
(* An event has at most two rows, one from the snapshot and one from the   *)
(* stream, and one more for each time the server sent it again, however    *)
(* loads and frames interleave.                                            *)
(***************************************************************************)
AtMostTwice ==
  \A e \in Shown :
    Cardinality({ i \in DOMAIN logs : logs[i] = e }) <= 2 + repeats[e]

(***************************************************************************)
(* The feed shows the newest Limit events.                                 *)
(***************************************************************************)
Complete == \A i \in DOMAIN Newest(recorded) : Newest(recorded)[i] \in Shown

(***************************************************************************)
(* Refreshing repairs the feed: whatever late answers and lost frames have *)
(* done to it, an operator who goes on refreshing a reachable server comes *)
(* to see the newest events once no more are recorded (they are bounded).  *)
(***************************************************************************)
RefreshRepairs ==
  ( /\ <>[](mounted /\ api)
    /\ []<><<\E r \in Request : Refresh(r)>>_vars )
  => <>[]Complete

(***************************************************************************)
(* "Real-Time Workload Audit Stream": with the socket open, the server     *)
(* reachable and no broadcast missed, the feed comes to show the newest    *)
(* events.                                                                 *)
(***************************************************************************)
LiveFeedIsComplete ==
  ( <>[](mounted /\ api /\ FeedLabel = "Live Socket Active" /\ missed = {}) )
  => <>[]Complete

=============================================================================
