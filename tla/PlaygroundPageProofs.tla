------------------------ MODULE PlaygroundPageProofs ------------------------
(***************************************************************************)
(* Proofs about PlaygroundPage composed with FlowService, for any number   *)
(* of calls and of runs, and any texts in the policy form.                 *)
(***************************************************************************)
EXTENDS PlaygroundPage, ApiClientProofs, FiniteSetTheorems

RunBody    == [run : Run, status_code : {200, 403}]
PolicyBody == [allowed : BOOLEAN, client : Text, required : Text]

(***************************************************************************)
(* What an answer may be trusted for: the outcome of a run is on record as *)
(* it says, and a verdict is the one for the identities named in it.       *)
(***************************************************************************)
OnRecord(b) ==
  b.run \in IF b.status_code = 200 THEN logged["success"] \cap counted["success"]
            ELSE logged["denied"] \cap counted["denied"]

Verdict(b) == b.allowed <=> Strip[b.client] = Strip[b.required]

AnswerOK(r) ==
  fetch[r].at = "ok" =>
    IF fetch[r].query.kind = "run"
    THEN /\ fetch[r].body \in RunBody /\ OnRecord(fetch[r].body)
         /\ fetch[r].body.run = fetch[r].query.run
    ELSE fetch[r].body \in PolicyBody /\ Verdict(fetch[r].body)

AnswersInv ==
  /\ \A r \in Request : AnswerOK(r)
  /\ \A r \in Request : Asks(r, "run") => fetch[r].query.run = runs
  /\ \/ result = NoResult
     \/ result \in RunBody /\ OnRecord(result) /\ result.run <= runs
  /\ \/ policyResult = NoPolicy
     \/ policyResult \in PolicyBody /\ Verdict(policyResult)

(***************************************************************************)
(* A task that has not decided is in neither record, and one that is about *)
(* to answer is in the log.                                                *)
(***************************************************************************)
TasksOnRecord ==
  \A n \in Run :
    /\ flow[n] \in {"none", "executing"} => n \notin logged["success"] \cup logged["denied"]
    /\ flow[n] = "denying"  => n \in logged["denied"]
    /\ flow[n] = "granting" => n \in logged["success"]

(***************************************************************************)
(* The busy flags tell whether a call of their kind is in flight, and      *)
(* there is never more than one.                                           *)
(***************************************************************************)
OneOf(flag, kind) ==
  /\ flag <=> \E r \in Request : Asks(r, kind)
  /\ \A r, s \in Request : Asks(r, kind) /\ Asks(s, kind) => r = s

Owned == OneOf(running, "run") /\ OneOf(evaluatingPolicy, "policy")

Inv == TypeOK /\ AnswersInv /\ TasksOnRecord /\ LogAndCounterAgree /\ Owned

-----------------------------------------------------------------------------
(* Types.                                                                  *)

LEMMA QueryKinds ==
  ASSUME NEW q \in Query
  PROVE  /\ q.kind \in { "run", "policy" }
         /\ q.kind = "run" => q.run \in Run /\ q.simulate_unauthorized \in BOOLEAN
         /\ q.kind = "policy" => q.client \in Text /\ q.required \in Text
<1>1. CASE q \in [kind : {"run"}, run : Run, simulate_unauthorized : BOOLEAN]
  BY <1>1
<1>2. CASE q \in [kind : {"policy"}, client : Text, required : Text]
  BY <1>2
<1> QED BY <1>1, <1>2 DEF Query

LEMMA InFlightTyped ==
  ASSUME FlowTypeOK, NEW r \in InFlight
  PROVE  /\ r \in Request /\ fetch[r].query \in Query
         /\ fetch[r].at \in { "sent", "threw", "ok" }
         /\ fetch[r].at = "ok" => fetch[r].body \in Body
<1>1. r \in Request /\ fetch[r] \in CallState(Query, Body) /\ fetch[r] # Idle
  BY DEF InFlight, FlowTypeOK
<1> QED BY <1>1, CallCases

(***************************************************************************)
(* A task's reply reaches one call, that of its run, or none.              *)
(***************************************************************************)
LEMMA ReplyCalls ==
  ASSUME FlowTypeOK, NEW n \in Run, NEW b \in Body, Reply(n, b) \/ Fail(n)
  PROVE  /\ fetch' \in [Request -> CallState(Query, Body)]
         /\ \/ UNCHANGED fetch
            \/ \E r \in Request :
                 /\ Asks(r, "run") /\ fetch[r].query.run = n
                 /\ (Reply(n, b) /\ Answer(r, b)) \/ (Fail(n) /\ Throw(r))
<1>1. fetch \in [Request -> CallState(Query, Body)]
  BY DEF FlowTypeOK
<1>2. CallOf(n) \subseteq Request
  BY DEF CallOf
<1>3. CASE Reply(n, b)
  <2>1. CASE UNCHANGED fetch
    BY <1>1, <2>1
  <2>2. ASSUME NEW r \in CallOf(n), Answer(r, b)
        PROVE  /\ fetch' \in [Request -> CallState(Query, Body)]
               /\ r \in Request /\ Asks(r, "run") /\ fetch[r].query.run = n
    <3>1. r \in Request
      BY <1>2
    <3> QED BY <1>1, <2>2, <3>1, CallSteps DEF CallOf
  <2> QED BY <1>3, <2>1, <2>2 DEF Reply
<1>4. CASE Fail(n)
  <2>1. CASE UNCHANGED fetch
    BY <1>1, <2>1
  <2>2. ASSUME NEW r \in CallOf(n), Throw(r)
        PROVE  /\ fetch' \in [Request -> CallState(Query, Body)]
               /\ r \in Request /\ Asks(r, "run") /\ fetch[r].query.run = n
    <3>1. r \in Request
      BY <1>2
    <3> QED BY <1>1, <2>2, <3>1, CallSteps DEF CallOf
  <2> QED BY <1>4, <2>1, <2>2 DEF Fail
<1> QED BY <1>3, <1>4

(***************************************************************************)
(* The steps of the service.                                               *)
(***************************************************************************)
LEMMA ServiceTypes ==
  ASSUME FlowTypeOK, NEW n \in Run, TaskSteps(n) \/ ClientEnds(n)
  PROVE  FlowTypeOK'
<1> USE DEF FlowTypeOK
<1>a. ASSUME NEW at \in {"none", "denying", "executing", "granting", "done", "raised"},
             Step(n, at)
      PROVE  flow' \in [Run -> {"none", "denying", "executing", "granting", "done", "raised"}]
  BY <1>a DEF Step
<1>b. ASSUME NEW o \in Outcome
      PROVE  /\ Record(n, o) => logged' \in [Outcome -> SUBSET Run]
             /\ Inc(n, o) => counted' \in [Outcome -> SUBSET Run]
  <2>1. logged[o] \cup {n} \in SUBSET Run /\ counted[o] \cup {n} \in SUBSET Run
    OBVIOUS
  <2> QED BY <2>1 DEF Record, Inc
<1>c. "success" \in Outcome /\ "denied" \in Outcome
  BY DEF Outcome
<1>d. \A code \in {200, 403} : [run |-> n, status_code |-> code] \in Body
  BY DEF Body
<1>e. ASSUME Grant(n), UNCHANGED process PROVE FlowTypeOK'
  BY <1>a, <1>b, <1>c, <1>e DEF Grant
<1>1. CASE Deny(n)
  BY <1>1, <1>a, <1>b, <1>c DEF Deny
<1>2. CASE Denied(n)
  <2>1. fetch' \in [Request -> CallState(Query, Body)]
    BY <1>2, <1>d, ReplyCalls DEF Denied
  <2> QED BY <1>2, <2>1, <1>a, <1>b, <1>c DEF Denied
<1>3. CASE StartClient(n)
  BY <1>3, <1>a DEF StartClient
<1>4. CASE NoDocker(n) \/ Collect(n) \/ TimeOut(n)
  BY <1>4, <1>e DEF NoDocker, Collect, TimeOut
<1>5. CASE Granted(n)
  <2>1. fetch' \in [Request -> CallState(Query, Body)]
    BY <1>5, <1>d, ReplyCalls DEF Granted
  <2> QED BY <1>5, <2>1, <1>a DEF Granted
<1>6. CASE BroadcastRaises(n)
  <2>1. fetch' \in [Request -> CallState(Query, Body)]
    BY <1>6, <1>d, ReplyCalls DEF BroadcastRaises
  <2> QED BY <1>6, <2>1, <1>a DEF BroadcastRaises
<1>7. CASE ClientEnds(n)
  BY <1>7 DEF ClientEnds
<1> QED BY <1>1, <1>2, <1>3, <1>4, <1>5, <1>6, <1>7 DEF TaskSteps

LEMMA PolicyAnswer ==
  ASSUME FlowTypeOK, NEW r \in Request, EvaluatePolicy(r)
  PROVE  \E b \in PolicyBody : Answer(r, b) /\ Verdict(b)
<1> DEFINE q == fetch[r].query
           b == [allowed |-> Strip[q.client] = Strip[q.required],
                 client |-> q.client, required |-> q.required]
<1>1. Answer(r, b)
  BY DEF EvaluatePolicy
<1>2. q.client \in Text /\ q.required \in Text
  BY InFlightTyped, QueryKinds DEF EvaluatePolicy, Asks
<1>3. b \in PolicyBody /\ Verdict(b)
  BY <1>2 DEF PolicyBody, Verdict
<1> HIDE DEF b
<1> QED BY <1>1, <1>3

LEMMA TypeInit == Init => TypeOK
<1> SUFFICES ASSUME Init PROVE TypeOK
  OBVIOUS
<1>1. FlowTypeOK
  <2>1. fetch \in [Request -> CallState(Query, Body)]
    BY DEF Init, CallState
  <2> QED BY <2>1, FlowAssumption DEF Init, FlowInit, FlowTypeOK
<1>2. { running, simulateUnauthorized, evaluatingPolicy } \subseteq BOOLEAN
  BY DEF Init
<1> QED BY <1>1, <1>2, PlaygroundAssumption DEF Init, TypeOK

LEMMA TypeNext == TypeOK /\ [Next]_vars => TypeOK'
<1> SUFFICES ASSUME TypeOK, [Next]_vars PROVE TypeOK'
  OBVIOUS
<1> DEFINE PageOK ==
      /\ running \in BOOLEAN /\ simulateUnauthorized \in BOOLEAN
      /\ evaluatingPolicy \in BOOLEAN
      /\ result = NoResult \/ result \in Body
      /\ policyResult = NoPolicy \/ policyResult \in Body
      /\ candidateSpiffeId \in Text /\ requiredSpiffeId \in Text
<1> USE DEF service, runner, sandbox
<1>a. FlowTypeOK /\ PageOK
  BY DEF TypeOK
<1>b. FlowTypeOK' /\ PageOK' => TypeOK'
  BY DEF TypeOK
<1>c. fetch \in [Request -> CallState(Query, Body)]
  BY <1>a DEF FlowTypeOK
<1>d. ASSUME UNCHANGED service, fetch' \in [Request -> CallState(Query, Body)]
      PROVE  FlowTypeOK'
  BY <1>a, <1>d DEF FlowTypeOK
<1>1. ASSUME NEW r \in Request, handleExecuteTest(r) PROVE TypeOK'
  <2> DEFINE q == [kind |-> "run", run |-> runs + 1,
                   simulate_unauthorized |-> simulateUnauthorized]
  <2>1. runs' = runs + 1 /\ runs' \in 0..MaxRuns /\ runs' \in Run
    BY <1>1, <1>a, FlowAssumption DEF handleExecuteTest, Execute, FlowTypeOK, Run
  <2>2. q \in Query /\ Send(r, q)
    BY <1>1, <1>a, <2>1 DEF handleExecuteTest, Execute, Query
  <2> HIDE DEF q
  <2>3. fetch' \in [Request -> CallState(Query, Body)]
    BY <1>c, <2>2, CallSteps
  <2>4. FlowTypeOK'
    BY <1>1, <1>a, <2>1, <2>3 DEF handleExecuteTest, Execute, FlowTypeOK
  <2>5. PageOK'
    BY <1>1, <1>a DEF handleExecuteTest, Execute
  <2> QED BY <1>b, <2>4, <2>5
<1>2. ASSUME NEW r \in Request, handleEvaluatePolicy(r) PROVE TypeOK'
  <2> DEFINE q == [kind |-> "policy", client |-> candidateSpiffeId,
                   required |-> requiredSpiffeId]
  <2>1. q \in Query /\ Send(r, q)
    BY <1>2, <1>a DEF handleEvaluatePolicy, Query
  <2> HIDE DEF q
  <2>2. FlowTypeOK'
    BY <1>2, <1>c, <1>d, <2>1, CallSteps DEF handleEvaluatePolicy
  <2>3. PageOK'
    BY <1>2, <1>a DEF handleEvaluatePolicy
  <2> QED BY <1>b, <2>2, <2>3
<1>3. ASSUME NEW r \in Request, Settles(r) PROVE TypeOK'
  <2>1. r \in InFlight /\ Return(r) /\ UNCHANGED service
    BY <1>3 DEF Settles, ExecuteSettles, EvaluateSettles, Asks
  <2>2. FlowTypeOK'
    BY <1>c, <1>d, <2>1, CallSteps
  <2>3. fetch[r].at = "ok" => fetch[r].body \in Body
    BY <1>a, <2>1, InFlightTyped
  <2>4. PageOK'
    BY <1>3, <1>a, <2>3 DEF Settles, ExecuteSettles, EvaluateSettles
  <2> QED BY <1>b, <2>2, <2>4
<1>4. ASSUME NEW r \in Request, Disconnect(r) PROVE TypeOK'
  <2>1. FlowTypeOK'
    BY <1>4, <1>c, <1>d, CallSteps DEF Disconnect
  <2> QED BY <1>4, <1>a, <1>b, <2>1 DEF Disconnect
<1>5. ASSUME NEW r \in Request, EvaluatePolicy(r), UNCHANGED << runner, sandbox >>
      PROVE  TypeOK'
  <2>1. PICK b \in PolicyBody : Answer(r, b)
    BY <1>5, <1>a, PolicyAnswer
  <2>2. b \in Body
    BY DEF Body, PolicyBody
  <2>3. FlowTypeOK'
    BY <1>5, <1>c, <1>d, <2>1, <2>2, CallSteps DEF EvaluatePolicy
  <2> QED BY <1>5, <1>a, <1>b, <2>3
<1>6. ASSUME NEW n \in Run, TaskSteps(n) \/ ClientEnds(n), UNCHANGED << runner, sandbox >>
      PROVE  TypeOK'
  <2>1. FlowTypeOK'
    BY <1>6, <1>a, ServiceTypes
  <2> QED BY <1>6, <1>a, <1>b, <2>1
<1>7. ASSUME UNCHANGED << service, fetch >>, PageOK' PROVE TypeOK'
  BY <1>7, <1>b, <1>c, <1>d
<1>8. ASSUME ToggleUnauthorized PROVE TypeOK'
  BY <1>7, <1>8, <1>a DEF ToggleUnauthorized
<1>9. ASSUME \/ \E t \in TypedCandidate : EditCandidate(t)
             \/ \E t \in TypedRequired : EditRequired(t)
      PROVE  TypeOK'
  BY <1>7, <1>9, <1>a, PlaygroundAssumption DEF EditCandidate, EditRequired
<1>10. CASE UNCHANGED vars
  BY <1>7, <1>10, <1>a DEF vars
<1> QED
  BY <1>1, <1>2, <1>3, <1>4, <1>5, <1>6, <1>8, <1>9, <1>10 DEF Next, Operator

-----------------------------------------------------------------------------
(* The records of the service.                                             *)

Recorded == TasksOnRecord /\ LogAndCounterAgree

RecordsGrow ==
  /\ logged["success"] \subseteq logged'["success"]
  /\ logged["denied"] \subseteq logged'["denied"]
  /\ counted["success"] \subseteq counted'["success"]
  /\ counted["denied"] \subseteq counted'["denied"]

(***************************************************************************)
(* What the six kinds of steps of a task do to the records.                *)
(***************************************************************************)
LEMMA RecordSteps ==
  ASSUME FlowTypeOK, NEW n \in Run
  PROVE  /\ \A o \in Outcome : Record(n, o) =>
              /\ logged'[o] = logged[o] \cup {n}
              /\ \A p \in Outcome \ {o} : logged'[p] = logged[p]
         /\ \A o \in Outcome : Inc(n, o) =>
              /\ counted'[o] = counted[o] \cup {n}
              /\ \A p \in Outcome \ {o} : counted'[p] = counted[p]
         /\ \A at : Step(n, at) =>
              flow'[n] = at /\ \A m \in Run \ {n} : flow'[m] = flow[m]
BY DEF FlowTypeOK, Record, Inc, Step

LEMMA RecordedNext ==
  ASSUME FlowTypeOK, Recorded, NEW n \in Run, TaskSteps(n) \/ ClientEnds(n)
  PROVE  Recorded' /\ RecordsGrow
<1> USE DEF Recorded, TasksOnRecord, LogAndCounterAgree, RecordsGrow
<1>a. "success" \in Outcome /\ "denied" \in Outcome \ {"success"}
      /\ "success" \in Outcome \ {"denied"}
  BY DEF Outcome
<1>b. logged["success"] \subseteq Run /\ logged["denied"] \subseteq Run
  BY <1>a DEF FlowTypeOK
<1>1. CASE Deny(n)
  <2>1. /\ logged'["denied"] = logged["denied"] \cup {n}
        /\ logged'["success"] = logged["success"]
        /\ flow[n] = "none" /\ flow'[n] = "denying"
        /\ \A m \in Run \ {n} : flow'[m] = flow[m]
        /\ counted' = counted
    BY <1>1, <1>a, RecordSteps DEF Deny, Requested
  <2> QED BY <1>b, <2>1
<1>2. CASE Denied(n)
  <2>1. /\ counted'["denied"] = counted["denied"] \cup {n}
        /\ counted'["success"] = counted["success"]
        /\ flow[n] = "denying" /\ flow'[n] = "done"
        /\ \A m \in Run \ {n} : flow'[m] = flow[m]
        /\ logged' = logged
    BY <1>2, <1>a, RecordSteps DEF Denied
  <2> QED BY <1>b, <2>1
<1>3. CASE StartClient(n)
  <2>1. /\ flow[n] = "none" /\ flow'[n] = "executing"
        /\ \A m \in Run \ {n} : flow'[m] = flow[m]
        /\ logged' = logged /\ counted' = counted
    BY <1>3, RecordSteps DEF StartClient, Requested
  <2> QED BY <1>b, <2>1
<1>4. CASE NoDocker(n) \/ Collect(n) \/ TimeOut(n)
  <2>1. /\ logged'["success"] = logged["success"] \cup {n}
        /\ logged'["denied"] = logged["denied"]
        /\ counted'["success"] = counted["success"] \cup {n}
        /\ counted'["denied"] = counted["denied"]
        /\ flow[n] \in {"none", "executing"} /\ flow'[n] = "granting"
        /\ \A m \in Run \ {n} : flow'[m] = flow[m]
    BY <1>4, <1>a, RecordSteps DEF NoDocker, Collect, TimeOut, Grant, Requested
  <2> QED BY <1>b, <2>1
<1>5. CASE Granted(n) \/ BroadcastRaises(n)
  <2>1. /\ flow[n] \in {"denying", "granting"}
        /\ flow[n] = "denying" => flow'[n] = "raised"
        /\ flow'[n] \in {"done", "raised"}
        /\ \A m \in Run \ {n} : flow'[m] = flow[m]
        /\ logged' = logged /\ counted' = counted
    BY <1>5, RecordSteps DEF Granted, BroadcastRaises
  <2> QED BY <1>b, <2>1
<1>6. CASE ClientEnds(n)
  BY <1>6 DEF ClientEnds
<1> QED BY <1>1, <1>2, <1>3, <1>4, <1>5, <1>6 DEF TaskSteps

(***************************************************************************)
(* When a task answers, the outcome it answers is on record.               *)
(***************************************************************************)
LEMMA RepliesOnRecord ==
  ASSUME FlowTypeOK, Recorded, NEW n \in Run, TaskSteps(n) \/ ClientEnds(n)
  PROVE  \/ UNCHANGED fetch
         \/ \E r \in Request :
              /\ Asks(r, "run") /\ fetch[r].query.run = n
              /\ \/ Throw(r)
                 \/ \E b \in RunBody : Answer(r, b) /\ b.run = n /\ OnRecord(b)'
<1>a. /\ [run |-> n, status_code |-> 200] \in RunBody \cap Body
      /\ [run |-> n, status_code |-> 403] \in RunBody \cap Body
  BY DEF RunBody, Body
<1>b. "success" \in Outcome /\ "denied" \in Outcome
  BY DEF Outcome
<1>1. CASE Denied(n)
  <2> DEFINE b == [run |-> n, status_code |-> 403]
  <2>1. Reply(n, b)
    BY <1>1 DEF Denied
  <2>2. n \in logged'["denied"] \cap counted'["denied"]
    <3>1. logged' = logged /\ flow[n] = "denying"
      BY <1>1 DEF Denied
    <3>2. n \in logged["denied"]
      BY <3>1 DEF Recorded, TasksOnRecord
    <3>3. counted'["denied"] = counted["denied"] \cup {n}
      BY <1>1, <1>b, RecordSteps DEF Denied
    <3> QED BY <3>1, <3>2, <3>3
  <2>3. OnRecord(b)'
    BY <2>2 DEF OnRecord
  <2>4. b \in RunBody /\ b \in Body /\ b.run = n
    BY <1>a
  <2> HIDE DEF b
  <2>5. \/ UNCHANGED fetch
        \/ \E r \in Request : Asks(r, "run") /\ fetch[r].query.run = n
                              /\ (Answer(r, b) \/ Throw(r))
    BY <2>1, <2>4, ReplyCalls
  <2> QED BY <2>3, <2>4, <2>5
<1>2. CASE Granted(n)
  <2> DEFINE b == [run |-> n, status_code |-> 200]
  <2>1. Reply(n, b)
    BY <1>2 DEF Granted
  <2>2. n \in logged'["success"] \cap counted'["success"]
    <3>1. logged' = logged /\ counted' = counted /\ flow[n] = "granting"
      BY <1>2 DEF Granted
    <3> QED BY <3>1 DEF Recorded, TasksOnRecord, LogAndCounterAgree
  <2>3. OnRecord(b)'
    BY <2>2 DEF OnRecord
  <2>4. b \in RunBody /\ b \in Body /\ b.run = n
    BY <1>a
  <2> HIDE DEF b
  <2>5. \/ UNCHANGED fetch
        \/ \E r \in Request : Asks(r, "run") /\ fetch[r].query.run = n
                              /\ (Answer(r, b) \/ Throw(r))
    BY <2>1, <2>4, ReplyCalls
  <2> QED BY <2>3, <2>4, <2>5
<1>3. CASE BroadcastRaises(n)
  <2>1. \/ UNCHANGED fetch
        \/ \E r \in Request : Asks(r, "run") /\ fetch[r].query.run = n /\ Throw(r)
    BY <1>3 DEF BroadcastRaises, Fail, CallOf
  <2> QED BY <2>1
<1>4. CASE \/ Deny(n) \/ StartClient(n) \/ NoDocker(n) \/ Collect(n) \/ TimeOut(n)
           \/ ClientEnds(n)
  BY <1>4 DEF Deny, StartClient, NoDocker, Collect, TimeOut, Grant, ClientEnds
<1> QED BY <1>1, <1>2, <1>3, <1>4 DEF TaskSteps

-----------------------------------------------------------------------------
(* The owners of the flags.                                                *)

LEMMA SentOwner ==
  ASSUME TypeOK, NEW r \in Request, NEW q \in Query, Send(r, q)
  PROVE  \A x \in Request : \A k :
           Asks(x, k)' <=> IF x = r THEN q.kind = k ELSE Asks(x, k)
BY AsksSteps DEF TypeOK, FlowTypeOK

(***************************************************************************)
(* Nothing but sending and settling changes which calls are in flight.     *)
(***************************************************************************)
LEMMA AnsweredOwner ==
  ASSUME TypeOK, NEW r \in Request, Throw(r) \/ \E b \in Body : Answer(r, b)
  PROVE  \A x \in Request :
           /\ fetch'[x].query = fetch[x].query
           /\ \A k : Asks(x, k)' <=> Asks(x, k)
<1>1. fetch \in [Request -> CallState(Query, Body)]
  BY DEF TypeOK, FlowTypeOK
<1>2. CASE Throw(r)
  BY <1>1, <1>2, AsksSteps, CallSteps, OtherCalls
<1>3. ASSUME NEW b \in Body, Answer(r, b)
      PROVE  \A x \in Request :
               /\ fetch'[x].query = fetch[x].query
               /\ \A k : Asks(x, k)' <=> Asks(x, k)
  BY <1>1, <1>3, AsksSteps, CallSteps, OtherCalls
<1> QED BY <1>2, <1>3

(***************************************************************************)
(* The steps that are not the page's own: an answer, a broken connection,  *)
(* or no call at all.                                                      *)
(***************************************************************************)
Remote ==
  \/ \E r \in Request : Disconnect(r)
  \/ \E r \in Request : EvaluatePolicy(r) /\ UNCHANGED << runner, sandbox >>
  \/ \E n \in Run : (TaskSteps(n) \/ ClientEnds(n)) /\ UNCHANGED << runner, sandbox >>

LEMMA RemoteOwners ==
  ASSUME TypeOK, Recorded, Remote
  PROVE  /\ UNCHANGED << runner, sandbox, runs >>
         /\ \A x \in Request :
              /\ fetch'[x].query = fetch[x].query
              /\ \A k : Asks(x, k)' <=> Asks(x, k)
<1> USE DEF service
<1>a. FlowTypeOK
  BY DEF TypeOK
<1>b. ASSUME UNCHANGED fetch
      PROVE  \A x \in Request :
               /\ fetch'[x].query = fetch[x].query
               /\ \A k : Asks(x, k)' <=> Asks(x, k)
  BY <1>b DEF Asks, InFlight
<1>1. ASSUME NEW r \in Request, Disconnect(r)
      PROVE  /\ UNCHANGED << runner, sandbox, runs >> /\ Throw(r)
  BY <1>1 DEF Disconnect
<1>2. ASSUME NEW r \in Request, EvaluatePolicy(r), UNCHANGED << runner, sandbox >>
      PROVE  /\ UNCHANGED << runner, sandbox, runs >>
             /\ \E b \in Body : Answer(r, b)
  <2>1. PolicyBody \subseteq Body
    BY DEF PolicyBody, Body
  <2> QED BY <1>2, <1>a, <2>1, PolicyAnswer DEF EvaluatePolicy
<1>3. ASSUME NEW n \in Run, TaskSteps(n) \/ ClientEnds(n),
             UNCHANGED << runner, sandbox >>
      PROVE  /\ UNCHANGED << runner, sandbox, runs >>
             /\ \/ UNCHANGED fetch
                \/ \E r \in Request : Throw(r) \/ \E b \in Body : Answer(r, b)
  <2>1. RunBody \subseteq Body
    BY DEF RunBody, Body
  <2>2. runs' = runs
    BY <1>3 DEF TaskSteps, ClientEnds, Deny, Denied, StartClient, NoDocker, Collect,
                TimeOut, Grant, Granted, BroadcastRaises
  <2> QED BY <1>3, <1>a, <2>1, <2>2, RepliesOnRecord
<1> QED BY <1>1, <1>2, <1>3, <1>b, AnsweredOwner DEF Remote

LEMMA OwnedNext == TypeOK /\ Recorded /\ Owned /\ [Next]_vars => Owned'
<1> SUFFICES ASSUME TypeOK, Recorded, Owned, [Next]_vars PROVE Owned'
  OBVIOUS
<1> USE DEF Owned, OneOf
<1>a. fetch \in [Request -> CallState(Query, Body)]
  BY DEF TypeOK, FlowTypeOK
<1>1. ASSUME NEW r \in Request, handleExecuteTest(r) PROVE Owned'
  <2> DEFINE q == [kind |-> "run", run |-> runs + 1,
                   simulate_unauthorized |-> simulateUnauthorized]
  <2>1. q \in Query /\ q.kind = "run"
    BY <1>1, FlowAssumption
    DEF handleExecuteTest, Execute, TypeOK, FlowTypeOK, Run, Query
  <2>2. Send(r, q) /\ ~ running /\ running' = TRUE /\ fetch[r] = Idle
        /\ evaluatingPolicy' = evaluatingPolicy
    BY <1>1 DEF handleExecuteTest, Execute, sandbox, Send
  <2> HIDE DEF q
  <2>3. \A k : ~ Asks(r, k)
    BY <2>2 DEF Asks, InFlight
  <2>4. \A x \in Request : \A k :
          Asks(x, k)' <=> IF x = r THEN q.kind = k ELSE Asks(x, k)
    BY <2>1, <2>2, SentOwner
  <2> QED BY <2>1, <2>2, <2>3, <2>4
<1>2. ASSUME NEW r \in Request, handleEvaluatePolicy(r) PROVE Owned'
  <2> DEFINE q == [kind |-> "policy", client |-> candidateSpiffeId,
                   required |-> requiredSpiffeId]
  <2>1. q \in Query /\ q.kind = "policy"
    BY DEF TypeOK, Query
  <2>2. Send(r, q) /\ ~ evaluatingPolicy /\ evaluatingPolicy' = TRUE /\ fetch[r] = Idle
        /\ running' = running
    BY <1>2 DEF handleEvaluatePolicy, runner, Send
  <2> HIDE DEF q
  <2>3. \A k : ~ Asks(r, k)
    BY <2>2 DEF Asks, InFlight
  <2>4. \A x \in Request : \A k :
          Asks(x, k)' <=> IF x = r THEN q.kind = k ELSE Asks(x, k)
    BY <2>1, <2>2, SentOwner
  <2> QED BY <2>1, <2>2, <2>3, <2>4
<1>3. ASSUME NEW r \in Request, ExecuteSettles(r) PROVE Owned'
  <2>1. \A x \in Request : \A k : Asks(x, k)' <=> x # r /\ Asks(x, k)
    BY <1>3, <1>a, AsksSteps DEF ExecuteSettles
  <2>2. Asks(r, "run") /\ ~ Asks(r, "policy") /\ running' = FALSE
        /\ evaluatingPolicy' = evaluatingPolicy
    BY <1>3 DEF ExecuteSettles, Asks, sandbox
  <2> QED BY <2>1, <2>2
<1>4. ASSUME NEW r \in Request, EvaluateSettles(r) PROVE Owned'
  <2>1. \A x \in Request : \A k : Asks(x, k)' <=> x # r /\ Asks(x, k)
    BY <1>4, <1>a, AsksSteps DEF EvaluateSettles
  <2>2. Asks(r, "policy") /\ ~ Asks(r, "run") /\ evaluatingPolicy' = FALSE
        /\ running' = running
    BY <1>4 DEF EvaluateSettles, Asks, runner
  <2> QED BY <2>1, <2>2
<1>5. CASE Remote
  BY <1>5, RemoteOwners DEF runner, sandbox
<1>6. ASSUME UNCHANGED << fetch, running, evaluatingPolicy >> PROVE Owned'
  BY <1>6 DEF Asks, InFlight
<1>7. ASSUME \/ ToggleUnauthorized \/ UNCHANGED vars
             \/ \E t \in TypedCandidate : EditCandidate(t)
             \/ \E t \in TypedRequired : EditRequired(t)
      PROVE  Owned'
  BY <1>6, <1>7
  DEF ToggleUnauthorized, EditCandidate, EditRequired, vars, runner, sandbox
<1> QED
  BY <1>1, <1>2, <1>3, <1>4, <1>5, <1>7 DEF Next, Operator, Settles, Remote

-----------------------------------------------------------------------------
(* The answers.                                                            *)

(***************************************************************************)
(* What was on record stays on record, so an answer stays as good as it    *)
(* was.                                                                    *)
(***************************************************************************)
LEMMA AnswerKept ==
  ASSUME RecordsGrow, NEW x \in Request, AnswerOK(x), fetch'[x] = fetch[x]
  PROVE  AnswerOK(x)'
<1>1. OnRecord(fetch[x].body) => OnRecord(fetch[x].body)'
  BY DEF RecordsGrow, OnRecord
<1> QED BY <1>1 DEF AnswerOK, Verdict

(***************************************************************************)
(* An answer that a step gives, and a call that a step sends, fails or     *)
(* ends.                                                                   *)
(***************************************************************************)
LEMMA AnswersStep ==
  ASSUME TypeOK, RecordsGrow, \A x \in Request : AnswerOK(x), NEW r \in Request
  PROVE  /\ \A b \in Body : Answer(r, b) =>
              /\ AnswerOK(r)' => \A x \in Request : AnswerOK(x)'
              /\ fetch'[r].query = fetch[r].query /\ fetch'[r].body = b
              /\ r \in InFlight
         /\ (\E q \in Query : Send(r, q)) \/ Throw(r) \/ Return(r) =>
              \A x \in Request : AnswerOK(x)'
<1>1. fetch \in [Request -> CallState(Query, Body)]
  BY DEF TypeOK, FlowTypeOK
<1>2. ASSUME NEW b \in Body, Answer(r, b)
      PROVE  /\ \A x \in Request \ {r} : AnswerOK(x)'
             /\ fetch'[r].query = fetch[r].query /\ fetch'[r].body = b
             /\ r \in InFlight
  <2>1. /\ fetch'[r].query = fetch[r].query /\ fetch'[r].body = b
        /\ fetch[r].at = "sent"
        /\ \A x \in Request \ {r} : fetch'[x] = fetch[x]
    BY <1>1, <1>2, CallSteps, OtherCalls
  <2>2. r \in InFlight
    BY <2>1 DEF InFlight, Idle
  <2> QED BY <2>1, <2>2, AnswerKept
<1>3. ASSUME fetch'[r].at # "ok", \A x \in Request \ {r} : fetch'[x] = fetch[x]
      PROVE  \A x \in Request : AnswerOK(x)'
  <2>1. AnswerOK(r)'
    BY <1>3 DEF AnswerOK
  <2> QED BY <1>3, <2>1, AnswerKept
<1>4. ASSUME (\E q \in Query : Send(r, q)) \/ Throw(r) \/ Return(r)
      PROVE  fetch'[r].at # "ok" /\ \A x \in Request \ {r} : fetch'[x] = fetch[x]
  BY <1>1, <1>4, CallSteps, OtherCalls
<1> QED BY <1>2, <1>3, <1>4

LEMMA RemoteAnswers ==
  ASSUME TypeOK, Recorded, \A x \in Request : AnswerOK(x), Remote
  PROVE  RecordsGrow /\ \A x \in Request : AnswerOK(x)'
<1> USE DEF service
<1>a. FlowTypeOK
  BY DEF TypeOK
<1>b. UNCHANGED service => RecordsGrow
  BY DEF RecordsGrow
<1>c. RunBody \subseteq Body /\ PolicyBody \subseteq Body
  BY DEF RunBody, PolicyBody, Body
<1>1. ASSUME NEW r \in Request, Disconnect(r)
      PROVE  RecordsGrow /\ \A x \in Request : AnswerOK(x)'
  BY <1>1, <1>b, AnswersStep DEF Disconnect
<1>2. ASSUME NEW r \in Request, EvaluatePolicy(r), UNCHANGED << runner, sandbox >>
      PROVE  RecordsGrow /\ \A x \in Request : AnswerOK(x)'
  <2>1. PICK b \in PolicyBody : Answer(r, b) /\ Verdict(b)
    BY <1>2, <1>a, PolicyAnswer
  <2>2. RecordsGrow
    BY <1>2, <1>b DEF EvaluatePolicy
  <2>3. /\ fetch'[r].query = fetch[r].query /\ fetch'[r].body = b
        /\ AnswerOK(r)' => \A x \in Request : AnswerOK(x)'
    BY <2>1, <2>2, <1>c, AnswersStep
  <2>4. AnswerOK(r)'
    BY <1>2, <2>1, <2>3 DEF EvaluatePolicy, Asks, AnswerOK, Verdict
  <2> QED BY <2>2, <2>3, <2>4
<1>3. ASSUME NEW n \in Run, TaskSteps(n) \/ ClientEnds(n),
             UNCHANGED << runner, sandbox >>
      PROVE  RecordsGrow /\ \A x \in Request : AnswerOK(x)'
  <2>1. RecordsGrow
    BY <1>3, <1>a, RecordedNext
  <2>2. CASE UNCHANGED fetch
    BY <2>1, <2>2, AnswerKept
  <2>3. ASSUME NEW r \in Request, Throw(r)
        PROVE  \A x \in Request : AnswerOK(x)'
    BY <2>1, <2>3, AnswersStep
  <2>4. ASSUME NEW r \in Request, Asks(r, "run"), fetch[r].query.run = n,
               NEW b \in RunBody, Answer(r, b), b.run = n, OnRecord(b)'
        PROVE  \A x \in Request : AnswerOK(x)'
    <3>1. /\ fetch'[r].query = fetch[r].query /\ fetch'[r].body = b
          /\ AnswerOK(r)' => \A x \in Request : AnswerOK(x)'
      BY <2>1, <2>4, <1>c, AnswersStep
    <3>2. OnRecord(fetch[r].body)'
      BY <2>4, <3>1 DEF OnRecord
    <3>3. AnswerOK(r)'
      BY <2>4, <3>1, <3>2 DEF Asks, AnswerOK
    <3> QED BY <3>1, <3>3
  <2> QED BY <1>3, <1>a, <2>1, <2>2, <2>3, <2>4, RepliesOnRecord
<1> QED BY <1>1, <1>2, <1>3 DEF Remote

(***************************************************************************)
(* A result of a run the page puts on display is that of the latest run.   *)
(***************************************************************************)
ResultOK == \/ result = NoResult
            \/ result \in RunBody /\ OnRecord(result) /\ result.run <= runs

PolicyOK == \/ policyResult = NoPolicy
            \/ policyResult \in PolicyBody /\ Verdict(policyResult)

LatestRun == \A r \in Request : Asks(r, "run") => fetch[r].query.run = runs

LEMMA ResultKept ==
  ASSUME TypeOK, RecordsGrow, ResultOK, UNCHANGED result, runs' \in Nat, runs <= runs'
  PROVE  ResultOK'
<1>1. result \in RunBody => result.run \in Nat
  BY FlowAssumption DEF RunBody, Run
<1>2. runs \in Nat
  BY FlowAssumption DEF TypeOK, FlowTypeOK
<1>3. OnRecord(result) => OnRecord(result)'
  BY DEF RecordsGrow, OnRecord
<1> QED BY <1>1, <1>2, <1>3 DEF ResultOK

LEMMA AnswersNext ==
  ASSUME TypeOK, Recorded, Owned, AnswersInv, [Next]_vars
  PROVE  AnswersInv'
<1> USE DEF service, runner, sandbox
<1>a. /\ \A x \in Request : AnswerOK(x)
      /\ LatestRun /\ ResultOK /\ PolicyOK
  BY DEF AnswersInv, LatestRun, ResultOK, PolicyOK
<1>b. (\A x \in Request : AnswerOK(x)') /\ LatestRun' /\ ResultOK' /\ PolicyOK'
        => AnswersInv'
  BY DEF AnswersInv, LatestRun, ResultOK, PolicyOK
<1>c. /\ fetch \in [Request -> CallState(Query, Body)]
      /\ runs \in Nat
  BY FlowAssumption DEF TypeOK, FlowTypeOK
<1>d. UNCHANGED << logged, counted >> => RecordsGrow
  BY DEF RecordsGrow
<1>e. PolicyOK /\ UNCHANGED policyResult => PolicyOK'
  BY DEF PolicyOK, Verdict
<1>f. RecordsGrow /\ UNCHANGED << result, runs >> => ResultOK'
  BY <1>a, <1>c, ResultKept
<1>1. ASSUME NEW r \in Request, handleExecuteTest(r) PROVE AnswersInv'
  <2> DEFINE q == [kind |-> "run", run |-> runs + 1,
                   simulate_unauthorized |-> simulateUnauthorized]
  <2>1. q \in Query /\ q.kind = "run" /\ q.run = runs'
    BY <1>1, FlowAssumption
    DEF handleExecuteTest, Execute, TypeOK, FlowTypeOK, Run, Query
  <2>2. /\ Send(r, q) /\ ~ running /\ runs' = runs + 1
        /\ UNCHANGED << logged, counted, result, policyResult >>
    BY <1>1 DEF handleExecuteTest, Execute
  <2> HIDE DEF q
  <2>3. \A x \in Request : AnswerOK(x)'
    BY <1>a, <1>d, <2>1, <2>2, AnswersStep
  <2>4. LatestRun'
    <3>1. \A x \in Request : x # r => ~ Asks(x, "run")'
      BY <2>1, <2>2, SentOwner DEF Owned, OneOf
    <3>2. fetch'[r].query = q
      BY <1>c, <2>1, <2>2, CallSteps
    <3> QED BY <2>1, <3>1, <3>2 DEF LatestRun
  <2>5. ResultOK'
    BY <1>a, <1>c, <1>d, <2>2, ResultKept
  <2> QED BY <1>a, <1>b, <1>e, <2>2, <2>3, <2>4, <2>5
<1>2. ASSUME NEW r \in Request, handleEvaluatePolicy(r) PROVE AnswersInv'
  <2> DEFINE q == [kind |-> "policy", client |-> candidateSpiffeId,
                   required |-> requiredSpiffeId]
  <2>1. q \in Query /\ q.kind = "policy"
    BY DEF TypeOK, Query
  <2>2. Send(r, q) /\ UNCHANGED << logged, counted, result, runs, policyResult >>
    BY <1>2 DEF handleEvaluatePolicy
  <2> HIDE DEF q
  <2>3. \A x \in Request : AnswerOK(x)'
    BY <1>a, <1>d, <2>1, <2>2, AnswersStep
  <2>4. LatestRun'
    <3>1. \A x \in Request : Asks(x, "run")' => x # r /\ Asks(x, "run")
      BY <2>1, <2>2, SentOwner
    <3>2. \A x \in Request \ {r} : fetch'[x] = fetch[x]
      BY <1>c, <2>2, OtherCalls
    <3> QED BY <1>a, <2>2, <3>1, <3>2 DEF LatestRun
  <2> QED BY <1>a, <1>b, <1>d, <1>e, <1>f, <2>2, <2>3, <2>4
<1>3. ASSUME NEW r \in Request, Return(r), UNCHANGED service
      PROVE  (\A x \in Request : AnswerOK(x)') /\ LatestRun' /\ RecordsGrow
  <2>1. \A x \in Request : Asks(x, "run")' => x # r /\ Asks(x, "run")
    BY <1>3, <1>c, AsksSteps
  <2>2. \A x \in Request \ {r} : fetch'[x] = fetch[x]
    BY <1>3, <1>c, OtherCalls
  <2>3. LatestRun'
    BY <1>3, <1>a, <2>1, <2>2 DEF LatestRun
  <2> QED BY <1>3, <1>a, <1>d, <2>3, AnswersStep
<1>4. ASSUME NEW r \in Request, ExecuteSettles(r) PROVE AnswersInv'
  <2>1. Return(r) /\ UNCHANGED service /\ Asks(r, "run")
    BY <1>4 DEF ExecuteSettles
  <2>2. PolicyOK'
    BY <1>4, <1>a, <1>e DEF ExecuteSettles
  <2>3. ResultOK'
    <3>1. CASE fetch[r].at = "ok"
      <4>1. result' = fetch[r].body
        BY <1>4, <3>1 DEF ExecuteSettles
      <4>2. fetch[r].query.kind = "run" /\ fetch[r].query.run = runs /\ AnswerOK(r)
        BY <1>a, <2>1 DEF Asks, LatestRun
      <4>3. result' \in RunBody /\ result'.run = runs /\ OnRecord(fetch[r].body)
        BY <3>1, <4>1, <4>2 DEF AnswerOK
      <4>4. OnRecord(result)'
        BY <2>1, <4>1, <4>3 DEF OnRecord
      <4> QED BY <1>c, <2>1, <4>3, <4>4 DEF ResultOK
    <3>2. CASE fetch[r].at # "ok"
      BY <1>4, <1>d, <1>f, <2>1, <3>2 DEF ExecuteSettles
    <3> QED BY <3>1, <3>2
  <2> QED BY <1>b, <1>3, <2>1, <2>2, <2>3
<1>5. ASSUME NEW r \in Request, EvaluateSettles(r) PROVE AnswersInv'
  <2>1. Return(r) /\ UNCHANGED << service, result >> /\ Asks(r, "policy")
    BY <1>5 DEF EvaluateSettles
  <2>2. PolicyOK'
    <3>1. CASE fetch[r].at = "ok"
      <4>1. policyResult' = fetch[r].body
        BY <1>5, <3>1 DEF EvaluateSettles
      <4>2. fetch[r].query.kind = "policy" /\ AnswerOK(r)
        BY <1>a, <2>1 DEF Asks
      <4>3. fetch[r].body \in PolicyBody /\ Verdict(fetch[r].body)
        BY <3>1, <4>2 DEF AnswerOK
      <4> QED BY <4>1, <4>3 DEF PolicyOK, Verdict
    <3>2. CASE fetch[r].at # "ok"
      BY <1>5, <1>a, <1>e, <3>2 DEF EvaluateSettles
    <3> QED BY <3>1, <3>2
  <2> QED BY <1>b, <1>d, <1>3, <1>f, <2>1, <2>2
<1>6. CASE Remote
  <2>1. RecordsGrow /\ \A x \in Request : AnswerOK(x)'
    BY <1>6, <1>a, RemoteAnswers
  <2>2. /\ UNCHANGED << runner, sandbox, runs >>
        /\ \A x \in Request :
             /\ fetch'[x].query = fetch[x].query
             /\ Asks(x, "run")' <=> Asks(x, "run")
    BY <1>6, RemoteOwners
  <2>3. LatestRun'
    BY <1>a, <2>2 DEF LatestRun
  <2> QED BY <1>a, <1>b, <1>e, <1>f, <2>1, <2>2, <2>3
<1>7. ASSUME UNCHANGED << service, fetch, result, policyResult >> PROVE AnswersInv'
  <2>1. RecordsGrow
    BY <1>7, <1>d
  <2>2. \A x \in Request : AnswerOK(x)'
    BY <1>7, <1>a, <2>1, AnswerKept
  <2>3. LatestRun'
    BY <1>7, <1>a DEF LatestRun, Asks, InFlight
  <2> QED BY <1>7, <1>a, <1>b, <1>e, <1>f, <2>1, <2>2, <2>3
<1>8. ASSUME \/ ToggleUnauthorized \/ UNCHANGED vars
             \/ \E t \in TypedCandidate : EditCandidate(t)
             \/ \E t \in TypedRequired : EditRequired(t)
      PROVE  AnswersInv'
  BY <1>7, <1>8 DEF ToggleUnauthorized, EditCandidate, EditRequired, vars
<1> QED
  BY <1>1, <1>2, <1>4, <1>5, <1>6, <1>8 DEF Next, Operator, Settles, Remote

-----------------------------------------------------------------------------
(* The theorems.                                                           *)

LEMMA InvInit == Init => Inv
<1> SUFFICES ASSUME Init PROVE Inv
  OBVIOUS
<1>1. \A r \in Request : fetch[r] = Idle
  BY DEF Init
<1>2. \A r \in Request : fetch[r].at # "ok" /\ \A k : ~ Asks(r, k)
  <2>1. ASSUME NEW r \in Request PROVE fetch[r].at # "ok"
    <3>1. fetch[r] = Idle
      BY <1>1
    <3>2. Idle.at = "idle"
      BY DEF Idle
    <3> QED BY <3>1, <3>2
  <2>2. \A r \in Request : \A k : ~ Asks(r, k)
    BY <1>1 DEF Asks, InFlight
  <2> QED BY <2>1, <2>2
<1>3. AnswersInv
  BY <1>2 DEF Init, AnswersInv, AnswerOK
<1>4. TasksOnRecord /\ LogAndCounterAgree
  BY DEF Init, FlowInit, TasksOnRecord, LogAndCounterAgree, Outcome
<1>5. Owned
  BY <1>2 DEF Init, Owned, OneOf
<1> QED BY <1>3, <1>4, <1>5, TypeInit DEF Inv

(***************************************************************************)
(* The page's own steps leave the records alone.                           *)
(***************************************************************************)
LEMMA RecordsNext == TypeOK /\ Recorded /\ [Next]_vars => Recorded'
<1> SUFFICES ASSUME TypeOK, Recorded, [Next]_vars PROVE Recorded'
  OBVIOUS
<1>1. ASSUME NEW n \in Run, TaskSteps(n) \/ ClientEnds(n) PROVE Recorded'
  BY <1>1, RecordedNext DEF TypeOK
<1>2. ASSUME UNCHANGED << flow, logged, counted >> PROVE Recorded'
  BY <1>2 DEF Recorded, TasksOnRecord, LogAndCounterAgree
<1> QED
  BY <1>1, <1>2
  DEF Next, Operator, Settles, ToggleUnauthorized, handleExecuteTest, Execute,
      handleEvaluatePolicy, EditCandidate, EditRequired, ExecuteSettles,
      EvaluateSettles, Disconnect, EvaluatePolicy, vars, service

LEMMA InvNext == Inv /\ [Next]_vars => Inv'
BY TypeNext, RecordsNext, OwnedNext, AnswersNext DEF Inv, Recorded

LEMMA OneOrNone ==
  ASSUME NEW flag \in BOOLEAN, NEW k, OneOf(flag, k)
  PROVE  Cardinality({ r \in Request : Asks(r, k) }) = IF flag THEN 1 ELSE 0
<1> DEFINE S == { r \in Request : Asks(r, k) }
<1>1. CASE flag
  <2>1. PICK r \in Request : Asks(r, k)
    BY <1>1 DEF OneOf
  <2>2. S = {r}
    BY <2>1 DEF OneOf
  <2> QED BY <1>1, <2>2, FS_Singleton
<1>2. CASE ~ flag
  <2>1. S = {}
    BY <1>2 DEF OneOf
  <2> QED BY <1>2, <2>1, FS_EmptySet
<1> QED BY <1>1, <1>2

(***************************************************************************)
(* The page's types, the owners of its busy flags and the agreement of log *)
(* and counter, for any number of overlapping runs.                        *)
(***************************************************************************)
THEOREM PageInvariant == Spec => []PlaygroundInv
<1>1. Inv => PlaygroundInv
  <2> SUFFICES ASSUME Inv PROVE PlaygroundInv
    OBVIOUS
  <2>1. running \in BOOLEAN /\ evaluatingPolicy \in BOOLEAN
    BY DEF Inv, TypeOK
  <2>2. FlagsHaveOwners
    BY <2>1, OneOrNone DEF Inv, Owned, FlagsHaveOwners
  <2> QED BY <2>2 DEF Inv, PlaygroundInv
<1> QED BY <1>1, InvInit, InvNext, PTL DEF Spec

(***************************************************************************)
(* What the page shows of a run is in the audit log and in the counter,    *)
(* as just that.                                                           *)
(***************************************************************************)
THEOREM ResultOnRecord == Spec => []ShownIsOnRecord
<1>1. Inv => ShownIsOnRecord
  <2> SUFFICES ASSUME Inv, result # NoResult PROVE ShownIsOnRecord
    BY DEF ShownIsOnRecord
  <2>1. result \in RunBody /\ OnRecord(result)
    BY DEF Inv, AnswersInv
  <2>2. ResultView = "OK - Handshake Successful" <=> result.status_code = 200
    BY DEF ResultView
  <2> QED BY <2>1, <2>2 DEF OnRecord, ShownIsOnRecord
<1> QED BY <1>1, InvInit, InvNext, PTL DEF Spec

(***************************************************************************)
(* The verdict on display is the one for the identities it names.          *)
(***************************************************************************)
THEOREM VerdictOfItsIds == Spec => []VerdictNamesItsIds
<1>1. Inv => VerdictNamesItsIds
  <2> SUFFICES ASSUME Inv, PolicyView # "none" PROVE VerdictNamesItsIds
    BY DEF VerdictNamesItsIds
  <2>1. policyResult # NoPolicy
    BY DEF PolicyView
  <2>2. policyResult \in PolicyBody /\ Verdict(policyResult)
    BY <2>1 DEF Inv, AnswersInv
  <2>3. PolicyView = "ALLOWED" <=> policyResult.allowed
    BY <2>1 DEF PolicyView
  <2> QED BY <2>2, <2>3 DEF Verdict, VerdictNamesItsIds
<1> QED BY <1>1, InvInit, InvNext, PTL DEF Spec

(***************************************************************************)
(* No result on display is replaced by that of an earlier run.             *)
(***************************************************************************)
THEOREM NoEarlierResult == Spec => ResultsMoveForward
<1>1. Inv /\ [Next]_vars => [result'.run >= result.run]_vars
  <2> SUFFICES ASSUME Inv, Next PROVE result'.run >= result.run
    OBVIOUS
  <2>1. runs \in Nat /\ result.run \in Nat /\ result.run <= runs
    <3>1. runs \in Nat
      BY FlowAssumption DEF Inv, TypeOK, FlowTypeOK
    <3>2. CASE result = NoResult
      BY <3>1, <3>2 DEF NoResult
    <3>3. CASE result # NoResult
      <4>1. result \in RunBody /\ result.run <= runs
        BY <3>3 DEF Inv, AnswersInv
      <4> QED BY <3>1, <4>1, FlowAssumption DEF RunBody, Run
    <3> QED BY <3>2, <3>3
  <2>2. CASE UNCHANGED result
    BY <2>1, <2>2
  <2>3. ASSUME NEW r \in Request, ExecuteSettles(r), fetch[r].at = "ok"
        PROVE  result'.run = runs
    <3>1. Asks(r, "run") /\ result' = fetch[r].body
      BY <2>3 DEF ExecuteSettles
    <3>2. fetch[r].query.kind = "run" /\ fetch[r].query.run = runs /\ AnswerOK(r)
      BY <3>1 DEF Inv, AnswersInv, Asks
    <3> QED BY <2>3, <3>1, <3>2 DEF AnswerOK
  <2>4. ASSUME NEW r \in Request, ExecuteSettles(r), fetch[r].at # "ok"
        PROVE  UNCHANGED result
    BY <2>4 DEF ExecuteSettles
  <2>5. Remote => UNCHANGED result
    BY RemoteOwners DEF Inv, Recorded, runner
  <2>6. CASE Operator \/ \E r \in Request : EvaluateSettles(r)
    <3>1. UNCHANGED result
      BY <2>6
      DEF Operator, ToggleUnauthorized, handleExecuteTest, Execute, runner,
          handleEvaluatePolicy, EditCandidate, EditRequired, EvaluateSettles
    <3> QED BY <2>2, <3>1
  <2> QED BY <2>1, <2>2, <2>3, <2>4, <2>5, <2>6 DEF Next, Settles, Remote
<1> QED BY <1>1, InvInit, InvNext, PTL DEF Spec, ResultsMoveForward

=============================================================================
