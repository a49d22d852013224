---------------------------- MODULE EventService ----------------------------
(***************************************************************************)
(* The audit log and the WebSocket fan-out of the control plane:           *)
(* dashboard/backend/app/services/event_service.py with the endpoint that  *)
(* feeds it subscribers, dashboard/backend/app/api/ws.py.                  *)
(*                                                                         *)
(* The service runs on one asyncio event loop, so the code between two     *)
(* awaits that suspend is one step.  broadcast() suspends in send_json     *)
(* INSIDE its loop over the live set of connections, so other coroutines   *)
(* change that set under the iterator.  The iterator is CPython's: it      *)
(* remembers the size the set had when the loop began and a position in    *)
(* the hash table; when it is asked for the next member it raises          *)
(* RuntimeError if the size differs, and otherwise scans the slots that    *)
(* are left.  A removal leaves the other members where they are; an        *)
(* insertion may rehash the table and put any member on either side of     *)
(* the position.                                                           *)
(***************************************************************************)
EXTENDS Integers, Sequences, FiniteSets

CONSTANTS
  Call,          \* invocations of record_event; each one is its own event
  Conn,          \* WebSocket objects; each one connects at most once
  SeedEvents,    \* the events _seed_initial_events puts in the log
  MaxLogs        \* max_logs

Seed == { SeedEvents[i] : i \in DOMAIN SeedEvents }

ASSUME FiniteAssumption == IsFiniteSet(Call) /\ IsFiniteSet(Conn)

ASSUME LogAssumption ==
  /\ MaxLogs \in Nat
  /\ SeedEvents \in Seq(Seed)
  /\ Len(SeedEvents) <= MaxLogs

VARIABLES
  active,        \* _active_connections
  logs,          \* _audit_logs, newest first
  counter,       \* spiffe_audit_events_counter, summed over its labels
  call,          \* call[t]: what the caller of record_event sees of call t
  audience,      \* audience[t]: the set when t's loop over it began
  at,            \* at[t]: the connection whose send_json suspends t, if any
  rest,          \* rest[t]: the members in slots t's iterator has not reached
  dead,          \* dead[t]: t's dead_connections
  endpoint,      \* endpoint[c]: where websocket_events is for c
  gone,          \* the connections that are closed on the wire
  frames,        \* frames[c]: the audit events written to c, oldest first
  \* History: no action's guard reads these.
  recorded,      \* every call whose event entered the log, newest first
  before,        \* before[t]: the calls that had finished when t was recorded
  churned        \* calls suspended while others changed active

service == << active, logs, counter >>
loop    == << audience, at, rest, dead >>
wire    == << endpoint, gone >>
history == << recorded, before, churned >>
vars    == << service, call, loop, wire, frames, history >>

CallState     == { "idle", "sending", "returned", "raised" }
EndpointState == { "new", "open", "closed" }

Finished  == { t \in Call : call[t] \in { "returned", "raised" } }
Suspended == { t \in Call : at[t] # {} }

Init ==
  /\ active   = {}
  /\ logs     = SeedEvents
  /\ counter  = 0
  /\ call     = [t \in Call |-> "idle"]
  /\ audience = [t \in Call |-> {}]
  /\ at       = [t \in Call |-> {}]
  /\ rest     = [t \in Call |-> {}]
  /\ dead     = [t \in Call |-> {}]
  /\ endpoint = [c \in Conn |-> "new"]
  /\ gone     = {}
  /\ frames   = [c \in Conn |-> << >>]
  /\ recorded = << >>
  /\ before   = [t \in Call |-> {}]
  /\ churned  = {}

-----------------------------------------------------------------------------
(* Changes of _active_connections, and what they do to suspended loops.    *)

(***************************************************************************)
(* discard() of the connections in D, by a coroutine that leaves the loops *)
(* of the calls in others suspended.                                       *)
(***************************************************************************)
Discard(D, others) ==
  /\ active'  = active \ D
  /\ rest'    = [t \in Call |-> rest[t] \ D]
  /\ churned' = IF active \cap D = {} THEN churned ELSE churned \cup others

(***************************************************************************)
(* add() of c, which may rehash the table under every suspended loop.      *)
(***************************************************************************)
Add(c) ==
  /\ active'  = active \cup {c}
  /\ rest'    \in [Call -> SUBSET (active \cup {c})]
  /\ \A t \in Call \ Suspended : rest'[t] = rest[t]
  /\ churned' = churned \cup Suspended

-----------------------------------------------------------------------------
(* The WebSocket endpoint.                                                 *)

(***************************************************************************)
(* accept() has returned: the connection is added, and the endpoint goes   *)
(* on to its greeting and its receive loop, whose greeting and pongs leave *)
(* the service's state alone.  The peer may already have left; the         *)
(* endpoint finds that out at its next send or receive.                    *)
(***************************************************************************)
connect(c) ==
  /\ endpoint[c] = "new"
  /\ endpoint' = [endpoint EXCEPT ![c] = "open"]
  /\ Add(c)
  /\ UNCHANGED << logs, counter, call, audience, at, dead, gone, frames,
                  recorded, before >>

(***************************************************************************)
(* accept() raises, outside the try block: the handler ends.               *)
(***************************************************************************)
accept_fails(c) ==
  /\ endpoint[c] = "new"
  /\ c \in gone
  /\ endpoint' = [endpoint EXCEPT ![c] = "closed"]
  /\ UNCHANGED << service, call, loop, gone, frames, history >>

disconnect_Forgets(c) ==
  /\ endpoint[c] = "open"
  /\ endpoint' = [endpoint EXCEPT ![c] = "closed"]
  /\ gone' = gone \cup {c}
  /\ UNCHANGED << service, call, loop, frames, history >>

(***************************************************************************)
(* The greeting, a receive or a pong raises: the peer left, or sent a      *)
(* frame receive_text cannot read.  Both handlers discard the connection,  *)
(* and the endpoint's return closes the socket.                            *)
(***************************************************************************)
disconnect(c) ==
  /\ endpoint[c] = "open"
  /\ endpoint' = [endpoint EXCEPT ![c] = "closed"]
  /\ gone' = gone \cup {c}
  /\ Discard({c}, Suspended)
  /\ UNCHANGED << logs, counter, call, audience, at, dead, frames,
                  recorded, before >>

(***************************************************************************)
(* Environment: the peer closes its side.                                  *)
(***************************************************************************)
PeerLeaves(c) ==
  /\ c \notin gone
  /\ endpoint[c] # "closed"
  /\ gone' = gone \cup {c}
  /\ UNCHANGED << service, call, loop, endpoint, frames, history >>

-----------------------------------------------------------------------------
(* record_event and broadcast.                                             *)

(***************************************************************************)
(* The slice s[:n], which is also what get_logs(n) returns of the log.     *)
(***************************************************************************)
Prefix(s, n) == SubSeq(s, 1, IF Len(s) <= n THEN Len(s) ELSE n)

Evict_Never(s) == s

(***************************************************************************)
(* The trim after the insertion: pop() drops the last event.               *)
(***************************************************************************)
Evict(s) == IF Len(s) > MaxLogs THEN SubSeq(s, 1, Len(s) - 1) ELSE s

Visit_StopsAtFailure(t, c, ahead, failed) ==
  /\ at' = [at EXCEPT ![t] = {c}]
  /\ \/ /\ frames' = [frames EXCEPT ![c] = Append(@, t)]
        /\ rest'   = [rest EXCEPT ![t] = ahead]
        /\ dead'   = [dead EXCEPT ![t] = failed]
     \/ /\ c \in gone
        /\ rest'   = [rest EXCEPT ![t] = {}]
        /\ dead'   = [dead EXCEPT ![t] = failed \cup {c}]
        /\ UNCHANGED frames

(***************************************************************************)
(* The body of broadcast's loop, up to the suspension in send_json: the    *)
(* frame is written, or the connection is closed and the send raises.      *)
(* ahead is what the iterator has left after c, failed what the loop has   *)
(* caught so far.                                                          *)
(***************************************************************************)
Visit(t, c, ahead, failed) ==
  /\ at'   = [at EXCEPT ![t] = {c}]
  /\ rest' = [rest EXCEPT ![t] = ahead]
  /\ \/ /\ frames' = [frames EXCEPT ![c] = Append(@, t)]
        /\ dead'   = [dead EXCEPT ![t] = failed]
     \/ /\ c \in gone
        /\ dead'   = [dead EXCEPT ![t] = failed \cup {c}]
        /\ UNCHANGED frames

(***************************************************************************)
(* What the loop has caught once the suspended send is over: a send whose  *)
(* peer left in the meantime may still raise.                              *)
(***************************************************************************)
Caught(t) == { dead[t] \cup late : late \in SUBSET (at[t] \cap gone) }

log_event_Appends(t) ==
  /\ logs'     = Evict(Append(logs, t))
  /\ recorded' = << t >> \o recorded
  /\ before'   = [before EXCEPT ![t] = Finished]

(***************************************************************************)
(* The critical section of record_event.  It does not suspend.             *)
(***************************************************************************)
log_event(t) ==
  /\ logs'     = Evict(<< t >> \o logs)
  /\ recorded' = << t >> \o recorded
  /\ before'   = [before EXCEPT ![t] = Finished]

(***************************************************************************)
(* record_event with nobody connected runs from start to end.              *)
(***************************************************************************)
record_event_unheard(t) ==
  /\ call[t] = "idle"
  /\ active = {}
  /\ log_event(t)
  /\ call'    = [call EXCEPT ![t] = "returned"]
  /\ counter' = counter + 1
  /\ UNCHANGED << active, loop, wire, frames, churned >>

record_event_NotAwaited(t) ==
  /\ call[t] = "idle"
  /\ active # {}
  /\ log_event(t)
  /\ call'     = [call EXCEPT ![t] = "returned"]
  /\ audience' = [audience EXCEPT ![t] = active]
  /\ \E c \in active : Visit(t, c, active \ {c}, {})
  /\ UNCHANGED << active, counter, wire, churned >>

(***************************************************************************)
(* record_event up to the suspension in the first send.                    *)
(***************************************************************************)
record_event(t) ==
  /\ call[t] = "idle"
  /\ active # {}
  /\ log_event(t)
  /\ call'     = [call EXCEPT ![t] = "sending"]
  /\ audience' = [audience EXCEPT ![t] = active]
  /\ \E c \in active : Visit(t, c, active \ {c}, {})
  /\ UNCHANGED << active, counter, wire, churned >>

(***************************************************************************)
(* The loop goes on to one of the members the iterator has left.           *)
(***************************************************************************)
broadcast_send(t) ==
  /\ at[t] # {}
  /\ Cardinality(active) = Cardinality(audience[t])
  /\ \E failed \in Caught(t), c \in rest[t] :
       Visit(t, c, rest[t] \ {c}, failed)
  /\ UNCHANGED << service, call, audience, wire, history >>

broadcast_raise_OnFailure(t) ==
  /\ at[t] # {}
  /\ Cardinality(active) # Cardinality(audience[t]) \/ at[t] \cap gone # {}
  /\ call' = [call EXCEPT ![t] = "raised"]
  /\ at'   = [at EXCEPT ![t] = {}]
  /\ rest' = [rest EXCEPT ![t] = {}]
  /\ UNCHANGED << service, audience, dead, wire, frames, history >>

broadcast_raise_Waits(t) == FALSE

(***************************************************************************)
(* The set has changed size: the iterator raises RuntimeError, which       *)
(* leaves broadcast and record_event.  The dead connections found so far   *)
(* stay in the set and the event is not counted.                           *)
(***************************************************************************)
broadcast_raise(t) ==
  /\ at[t] # {}
  /\ Cardinality(active) # Cardinality(audience[t])
  /\ call' = [call EXCEPT ![t] = "raised"]
  /\ at'   = [at EXCEPT ![t] = {}]
  /\ rest' = [rest EXCEPT ![t] = {}]
  /\ UNCHANGED << service, audience, dead, wire, frames, history >>

(***************************************************************************)
(* The iterator is exhausted: the dead connections are discarded, the      *)
(* event is counted and record_event returns.                              *)
(***************************************************************************)
broadcast_end(t) ==
  /\ at[t] # {}
  /\ Cardinality(active) = Cardinality(audience[t])
  /\ rest[t] = {}
  /\ \E failed \in Caught(t) :
       /\ dead' = [dead EXCEPT ![t] = failed]
       /\ Discard(failed, Suspended \ {t})
  /\ call'    = [call EXCEPT ![t] = "returned"]
  /\ at'      = [at EXCEPT ![t] = {}]
  /\ counter' = counter + 1
  /\ UNCHANGED << logs, audience, wire, frames, recorded, before >>

resume(t) == broadcast_send(t) \/ broadcast_raise(t) \/ broadcast_end(t)

-----------------------------------------------------------------------------

Next ==
  \/ \E t \in Call : \/ record_event_unheard(t)
                     \/ record_event(t)
                     \/ broadcast_send(t)
                     \/ broadcast_raise(t)
                     \/ broadcast_end(t)
  \/ \E c \in Conn : \/ connect(c)
                     \/ accept_fails(c)
                     \/ disconnect(c)
                     \/ PeerLeaves(c)

Spec == Init /\ [][Next]_vars

(***************************************************************************)
(* The event loop runs every coroutine that is ready, a send to a peer     *)
(* that is there or gone ends (the server's keepalive closes a silent      *)
(* peer), and a receive from a closed socket raises.  Nothing makes peers  *)
(* connect or leave, or callers record.                                    *)
(***************************************************************************)
Fairness ==
  /\ \A t \in Call : WF_vars(resume(t))
  /\ \A c \in Conn : WF_vars(c \in gone /\ disconnect(c))

FairSpec == Spec /\ Fairness

-----------------------------------------------------------------------------
(* Properties.                                                             *)

(***************************************************************************)
(* The type invariant.  The log never exceeds max_logs.                    *)
(***************************************************************************)
TypeOK ==
  /\ active   \in SUBSET Conn
  /\ logs     \in Seq(Call \cup Seed)
  /\ Len(logs) <= MaxLogs
  /\ counter  \in Nat
  /\ call     \in [Call -> CallState]
  /\ audience \in [Call -> SUBSET Conn]
  /\ at       \in [Call -> SUBSET Conn]
  /\ rest     \in [Call -> SUBSET Conn]
  /\ dead     \in [Call -> SUBSET Conn]
  /\ endpoint \in [Conn -> EndpointState]
  /\ gone     \in SUBSET Conn
  /\ frames   \in [Conn -> Seq(Call)]
  /\ recorded \in Seq(Call)
  /\ before   \in [Call -> SUBSET Call]
  /\ churned  \in SUBSET Call

(***************************************************************************)
(* Concurrent calls of record_event neither lose nor reorder log entries:  *)
(* the log is always the newest max_logs of the recorded events followed   *)
(* by the seeds, however the broadcasts of those calls end.                *)
(***************************************************************************)
LogIsRecentHistory == logs = Prefix(recorded \o SeedEvents, MaxLogs)

Logged  == { recorded[i] : i \in 1 .. Len(recorded) }
Sending == { t \in Call : call[t] = "sending" }

(***************************************************************************)
(* The metric misses an event of the log only while its call is sending    *)
(* or if others changed the set of connections under its broadcast: a send *)
(* that fails does not cost the event its count.  It never runs ahead of   *)
(* the log.                                                                *)
(***************************************************************************)
QuietEventsCounted ==
  /\ Cardinality(Logged \ (Sending \cup churned)) <= counter
  /\ counter <= Cardinality(Logged \ Sending)

Once(t, s) ==
  \E i \in 1 .. Len(s) :
    /\ s[i] = t
    /\ \A j \in 1 .. Len(s) : s[j] = t => j = i

NotTwice(t, s) == \A i, j \in 1 .. Len(s) : s[i] = t /\ s[j] = t => i = j

(***************************************************************************)
(* A broadcast during which nobody else changed the set of connections     *)
(* gives the event exactly once to every connection that was there, except *)
(* those whose send raised; one failing send does not stop the others.  At *)
(* no time has such a broadcast written the event twice to any connection, *)
(* those whose send raised included.                                       *)
(***************************************************************************)
QuietDelivery ==
  \A t \in Call \ churned :
    /\ \A c \in Conn : NotTwice(t, frames[c])
    /\ call[t] = "returned" =>
         \A c \in audience[t] : c \in dead[t] \/ Once(t, frames[c])

(***************************************************************************)
(* A subscriber sees causally ordered events in order: when a call had     *)
(* finished before another was recorded, no socket carries its event after *)
(* the other's.  record_event awaits its broadcast, which is what this     *)
(* rests on.                                                               *)
(***************************************************************************)
InOrder ==
  \A c \in Conn : \A i, j \in 1 .. Len(frames[c]) :
    i < j => frames[c][j] \notin before[frames[c][i]]

(***************************************************************************)
(* broadcast's docstring, "Broadcast JSON payload to all active WebSocket  *)
(* clients": once a call is over, each connection that was active when its *)
(* broadcast began has the event or is closed.                             *)
(***************************************************************************)
BroadcastReachesSubscribers ==
  \A t \in Finished : \A c \in audience[t] :
    c \in gone \/ \E i \in 1 .. Len(frames[c]) : frames[c][i] = t

(***************************************************************************)
(* Every call of record_event comes back to its caller, returned or        *)
(* raised, whatever the peers do.                                          *)
(***************************************************************************)
CallsTerminate == \A t \in Call : call[t] = "sending" ~> t \in Finished

(***************************************************************************)
(* A connection whose peer left does not stay in the set, even when the    *)
(* broadcast that found it dead was cut short.                             *)
(***************************************************************************)
GoneClientsLeave == \A c \in Conn : c \in gone ~> c \notin active

AuditTrail == INSTANCE AuditTrail WITH
                Event <- Call, trail <- recorded, window <- logs

(***************************************************************************)
(* The service implements the abstract audit trail.                        *)
(***************************************************************************)
ImplementsAuditTrail == AuditTrail!Spec

Stream(c) ==
  INSTANCE AuditStream WITH
    Event <- Call, recorded <- Logged, outgoing <- Sending,
    heard <- { t \in Sending : \E i \in 1 .. Len(frames[c]) : frames[c][i] = t },
    subscribed <- c \in active, wire <- frames[c]

(***************************************************************************)
(* The service keeps the promise of AuditStream to every connection: what  *)
(* a suspended loop still sends is an event that is in the log already, to *)
(* a connection that is still active, until the call is over.              *)
(***************************************************************************)
ImplementsAuditStream ==
  /\ \A c \in Conn : Stream(c)!Init
  /\ [][\A c \in Conn : Stream(c)!Step]_vars
=============================================================================
