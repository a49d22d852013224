---------------------------- MODULE FlowService ----------------------------
(***************************************************************************)
(* backend app/services/flow_service.py behind app/api/simulator.py: runs  *)
(* of the keyless mTLS test, and the policy evaluator.                     *)
(*                                                                         *)
(* A run is a task of its own: it goes on when the browser that asked for  *)
(* it is gone, and runs overlap.  A granted run counts and logs itself     *)
(* without an await in between; a denied run logs itself, awaits the       *)
(* broadcast of the event, and counts itself only afterwards.  Broadcasts  *)
(* may raise (EventService).                                               *)
(***************************************************************************)
EXTENDS ApiClient, Naturals, FiniteSets

CONSTANTS
  MaxRuns,       \* bound on the runs
  Text,          \* texts of SPIFFE ID fields
  Strip          \* Strip[t]: t without surrounding blanks

ASSUME FlowAssumption ==
  /\ IsFiniteSet(Request)
  /\ MaxRuns \in Nat \ {0}
  /\ Strip \in [Text -> Text]

VARIABLES
  runs,          \* the number of runs asked for, which also names them
  flow,          \* flow[n]: how far the task of run n is
  process,       \* docker exec processes that are running, by their run
  logged,        \* logged[o]: the runs the audit log has recorded as o
  counted        \* counted[o]: those mtls_handshake_requests_total counts as o

service == << runs, flow, process, logged, counted >>

Run     == 1..MaxRuns
Outcome == {"success", "denied"}

Query == [kind : {"run"}, run : Run, simulate_unauthorized : BOOLEAN]
         \cup [kind : {"policy"}, client : Text, required : Text]

Body == [run : Run, status_code : {200, 403}]
        \cup [allowed : BOOLEAN, client : Text, required : Text]

FlowInit ==
  /\ runs = 0
  /\ flow = [n \in Run |-> "none"]
  /\ process = {}
  /\ logged  = [o \in Outcome |-> {}]
  /\ counted = [o \in Outcome |-> {}]

-----------------------------------------------------------------------------
(* execute_test_flow.                                                      *)

CallOf(n) == { r \in Request : Asks(r, "run") /\ fetch[r].query.run = n
                               /\ fetch[r].at = "sent" }

Step(n, at) == flow' = [flow EXCEPT ![n] = at]
Record(n, o) == logged' = [logged EXCEPT ![o] = @ \cup {n}]
Inc(n, o) == counted' = [counted EXCEPT ![o] = @ \cup {n}]

(***************************************************************************)
(* The task's answer, or its error, reaches the caller if there still is   *)
(* one.                                                                    *)
(***************************************************************************)
Reply(n, body) ==
  \/ \E r \in CallOf(n) : Answer(r, body)
  \/ CallOf(n) = {} /\ UNCHANGED fetch

Fail(n) ==
  \/ \E r \in CallOf(n) : Throw(r)
  \/ CallOf(n) = {} /\ UNCHANGED fetch

Requested(n, unauthorized) ==
  /\ flow[n] = "none"
  /\ \E r \in CallOf(n) : fetch[r].query.simulate_unauthorized = unauthorized

(***************************************************************************)
(* simulate_unauthorized: the event is logged, its broadcast is awaited.   *)
(***************************************************************************)
Deny(n) ==
  /\ Requested(n, TRUE)
  /\ Record(n, "denied")
  /\ Step(n, "denying")
  /\ UNCHANGED << runs, process, counted, fetch >>

Denied_Silent(n) ==
  /\ flow[n] = "denying"
  /\ Step(n, "done")
  /\ Reply(n, [run |-> n, status_code |-> 403])
  /\ UNCHANGED << runs, process, logged, counted >>

(***************************************************************************)
(* ... and then the denial is counted and answered.                        *)
(***************************************************************************)
Denied(n) ==
  /\ flow[n] = "denying"
  /\ Inc(n, "denied")
  /\ Step(n, "done")
  /\ Reply(n, [run |-> n, status_code |-> 403])
  /\ UNCHANGED << runs, process, logged >>

(***************************************************************************)
(* docker exec of the client, awaited for at most three seconds.           *)
(***************************************************************************)
StartClient(n) ==
  /\ Requested(n, FALSE)
  /\ process' = process \cup {n}
  /\ Step(n, "executing")
  /\ UNCHANGED << runs, logged, counted, fetch >>

(***************************************************************************)
(* The client process ends, with a 200 from backend-api or without, and    *)
(* whether or not its run still waits for it.                              *)
(***************************************************************************)
ClientEnds(n) ==
  /\ n \in process
  /\ process' = process \ {n}
  /\ UNCHANGED << runs, flow, logged, counted, fetch >>

Grant_Logs(n) ==
  /\ Record(n, "success")
  /\ Step(n, "granting")
  /\ UNCHANGED << runs, counted, fetch >>

(***************************************************************************)
(* Whatever came of the client, the run counts and logs a success: if it   *)
(* brought no payload, a built-in one is used.                             *)
(***************************************************************************)
Grant(n) ==
  /\ Inc(n, "success")
  /\ Record(n, "success")
  /\ Step(n, "granting")
  /\ UNCHANGED << runs, fetch >>

NoDocker(n) == Requested(n, FALSE) /\ Grant(n) /\ UNCHANGED process

Collect(n) ==
  /\ flow[n] = "executing" /\ n \notin process
  /\ Grant(n)
  /\ UNCHANGED process

TimeOut_Never(n) ==
  /\ flow[n] = "executing" /\ n \in process
  /\ UNCHANGED << service, fetch >>

(***************************************************************************)
(* The three seconds are over: the process is left running.                *)
(***************************************************************************)
TimeOut(n) ==
  /\ flow[n] = "executing" /\ n \in process
  /\ Grant(n)
  /\ UNCHANGED process

Granted(n) ==
  /\ flow[n] = "granting"
  /\ Step(n, "done")
  /\ Reply(n, [run |-> n, status_code |-> 200])
  /\ UNCHANGED << runs, process, logged, counted >>

(***************************************************************************)
(* record_event raises out of its broadcast: a 500.                        *)
(***************************************************************************)
BroadcastRaises(n) ==
  /\ flow[n] \in {"denying", "granting"}
  /\ Step(n, "raised")
  /\ Fail(n)
  /\ UNCHANGED << runs, process, logged, counted >>

-----------------------------------------------------------------------------
(* evaluate_policy.                                                        *)

EvaluatePolicy(r) ==
  /\ Asks(r, "policy")
  /\ LET q == fetch[r].query
     IN  Answer(r, [allowed |-> Strip[q.client] = Strip[q.required],
                    client |-> q.client, required |-> q.required])
  /\ UNCHANGED service

(***************************************************************************)
(* What the event loop does for run n by itself, the client's end apart.   *)
(***************************************************************************)
TaskSteps(n) ==
  \/ Deny(n) \/ Denied(n)
  \/ StartClient(n) \/ NoDocker(n) \/ Collect(n) \/ TimeOut(n) \/ Granted(n)
  \/ BroadcastRaises(n)

FlowTypeOK ==
  /\ runs \in 0..MaxRuns
  /\ flow \in [Run -> {"none", "denying", "executing", "granting", "done", "raised"}]
  /\ process \subseteq Run
  /\ logged \in [Outcome -> SUBSET Run]
  /\ counted \in [Outcome -> SUBSET Run]
  /\ fetch \in [Request -> CallState(Query, Body)]

(***************************************************************************)
(* Log and counter agree on every run that has ended or is in progress:    *)
(* successes always, denials but for those between the two and those whose *)
(* broadcast raised, and no run has two outcomes.                          *)
(***************************************************************************)
LogAndCounterAgree ==
  /\ logged["success"] = counted["success"]
  /\ counted["denied"] \subseteq logged["denied"]
  /\ \A n \in logged["denied"] \ counted["denied"] : flow[n] \in {"denying", "raised"}
  /\ logged["success"] \cap logged["denied"] = {}

=============================================================================
