--------------------------- MODULE PlaygroundPage ---------------------------
(***************************************************************************)
(* The console's playground, app/playground/page.tsx, composed with the    *)
(* flow service it calls: the button that runs the mTLS test, and the      *)
(* policy form.  The two are independent, each with a busy flag.           *)
(***************************************************************************)
EXTENDS FlowService

CONSTANTS
  TypedCandidate, \* what the operator types into the policy form's
  TypedRequired, \* two fields
  Initial        \* the default of both its fields

Blank == ""

ASSUME PlaygroundAssumption ==
  /\ Initial \in Text \ {Blank}
  /\ TypedCandidate \subseteq Text /\ TypedRequired \subseteq Text

VARIABLES
  running, simulateUnauthorized, result,
  candidateSpiffeId, requiredSpiffeId, policyResult, evaluatingPolicy

runner  == << running, simulateUnauthorized, result >>
sandbox == << candidateSpiffeId, requiredSpiffeId, policyResult, evaluatingPolicy >>
vars    == << service, fetch, runner, sandbox >>

NoResult == [run |-> 0]
NoPolicy == [allowed |-> FALSE]

(***************************************************************************)
(* The result's header, and the policy decision's.                         *)
(***************************************************************************)
ResultView ==
  IF result = NoResult THEN "none"
  ELSE IF result.status_code = 200 THEN "OK - Handshake Successful"
  ELSE "Forbidden - Access Blocked"

PolicyView ==
  IF policyResult = NoPolicy THEN "none"
  ELSE IF policyResult.allowed THEN "ALLOWED" ELSE "DENIED"

-----------------------------------------------------------------------------
(* The transaction runner.                                                 *)

ToggleUnauthorized ==
  /\ simulateUnauthorized' = ~simulateUnauthorized
  /\ UNCHANGED << service, fetch, running, result, sandbox >>

Execute(r) ==
  /\ runs < MaxRuns
  /\ running' = TRUE
  /\ runs' = runs + 1
  /\ Send(r, [kind |-> "run", run |-> runs + 1,
              simulate_unauthorized |-> simulateUnauthorized])
  /\ UNCHANGED << flow, process, logged, counted,
                  simulateUnauthorized, result, sandbox >>

handleExecuteTest_Again(r) == Execute(r)

(***************************************************************************)
(* The button, which is disabled while running.                            *)
(***************************************************************************)
handleExecuteTest(r) == ~running /\ Execute(r)

(***************************************************************************)
(* executeTestFlow has settled; an error is an alert and leaves the result *)
(* of the run before on display.                                           *)
(***************************************************************************)
ExecuteSettles(r) ==
  /\ Asks(r, "run") /\ fetch[r].at \in {"ok", "threw"}
  /\ result' = IF fetch[r].at = "ok" THEN fetch[r].body ELSE result
  /\ running' = FALSE
  /\ Return(r)
  /\ UNCHANGED << service, simulateUnauthorized, sandbox >>

-----------------------------------------------------------------------------
(* The policy form.                                                        *)

EditCandidate(t) ==
  /\ candidateSpiffeId' = t
  /\ UNCHANGED << service, fetch, runner, requiredSpiffeId, policyResult, evaluatingPolicy >>

EditRequired(t) ==
  /\ requiredSpiffeId' = t
  /\ UNCHANGED << service, fetch, runner, candidateSpiffeId, policyResult, evaluatingPolicy >>

handleEvaluatePolicy(r) ==
  /\ candidateSpiffeId # Blank /\ requiredSpiffeId # Blank
  /\ ~evaluatingPolicy
  /\ evaluatingPolicy' = TRUE
  /\ Send(r, [kind |-> "policy", client |-> candidateSpiffeId,
              required |-> requiredSpiffeId])
  /\ UNCHANGED << service, runner, candidateSpiffeId, requiredSpiffeId, policyResult >>

EvaluateSettles_CurrentIds(r) ==
  /\ Asks(r, "policy") /\ fetch[r].at \in {"ok", "threw"}
  /\ policyResult' = IF fetch[r].at = "ok"
                     THEN [fetch[r].body EXCEPT !.client = candidateSpiffeId]
                     ELSE policyResult
  /\ evaluatingPolicy' = FALSE
  /\ Return(r)
  /\ UNCHANGED << service, runner, candidateSpiffeId, requiredSpiffeId >>

EvaluateSettles(r) ==
  /\ Asks(r, "policy") /\ fetch[r].at \in {"ok", "threw"}
  /\ policyResult' = IF fetch[r].at = "ok" THEN fetch[r].body ELSE policyResult
  /\ evaluatingPolicy' = FALSE
  /\ Return(r)
  /\ UNCHANGED << service, runner, candidateSpiffeId, requiredSpiffeId >>

-----------------------------------------------------------------------------
(***************************************************************************)
(* The connection of a call breaks; the task it started goes on.           *)
(***************************************************************************)
Disconnect(r) ==
  /\ r \in InFlight
  /\ Throw(r)
  /\ UNCHANGED << service, runner, sandbox >>

Init ==
  /\ FlowInit
  /\ fetch = [r \in Request |-> Idle]
  /\ running = FALSE /\ simulateUnauthorized = FALSE /\ result = NoResult
  /\ candidateSpiffeId = Initial /\ requiredSpiffeId = Initial
  /\ policyResult = NoPolicy /\ evaluatingPolicy = FALSE

Operator ==
  \/ ToggleUnauthorized
  \/ \E r \in Request : handleExecuteTest(r) \/ handleEvaluatePolicy(r)
  \/ \E t \in TypedCandidate : EditCandidate(t)
  \/ \E t \in TypedRequired : EditRequired(t)

Settles(r) == ExecuteSettles(r) \/ EvaluateSettles(r)

Next ==
  \/ Operator
  \/ \E r \in Request : Settles(r) \/ Disconnect(r)
  \/ \E r \in Request : EvaluatePolicy(r) /\ UNCHANGED << runner, sandbox >>
  \/ \E n \in Run : (TaskSteps(n) \/ ClientEnds(n)) /\ UNCHANGED << runner, sandbox >>

(***************************************************************************)
(* The server's tasks and the browser's continuations run.  A client       *)
(* process need not end, and a connection need not break.                  *)
(***************************************************************************)
Fairness ==
  /\ \A r \in Request : WF_vars(Settles(r)) /\ WF_vars(EvaluatePolicy(r) /\ UNCHANGED << runner, sandbox >>)
  /\ \A n \in Run : WF_vars(TaskSteps(n) /\ UNCHANGED << runner, sandbox >>)

Spec == Init /\ [][Next]_vars /\ Fairness

-----------------------------------------------------------------------------
TypeOK ==
  /\ FlowTypeOK
  /\ { running, simulateUnauthorized, evaluatingPolicy } \subseteq BOOLEAN
  /\ result = NoResult \/ result \in Body
  /\ policyResult = NoPolicy \/ policyResult \in Body
  /\ candidateSpiffeId \in Text /\ requiredSpiffeId \in Text

(***************************************************************************)
(* What the page shows of a run is on record: a run shown as successful or *)
(* as denied is logged and counted as just that, although the log, the     *)
(* counter and the answer are written at different moments.                *)
(***************************************************************************)
ShownIsOnRecord ==
  LET o == IF ResultView = "OK - Handshake Successful" THEN "success" ELSE "denied"
  IN  result # NoResult => result.run \in logged[o] \cap counted[o]

(***************************************************************************)
(* The verdict on display is the one for the identities named with it, the *)
(* ones that were sent, although the form may be edited meanwhile.         *)
(***************************************************************************)
VerdictNamesItsIds ==
  PolicyView # "none" =>
    (PolicyView = "ALLOWED") = (Strip[policyResult.client] = Strip[policyResult.required])

(***************************************************************************)
(* The busy flags have owners: exactly one call of its kind is in flight.  *)
(* The server may be executing more runs than that.                        *)
(***************************************************************************)
FlagsHaveOwners ==
  /\ Cardinality({ r \in Request : Asks(r, "run") }) = IF running THEN 1 ELSE 0
  /\ Cardinality({ r \in Request : Asks(r, "policy") }) = IF evaluatingPolicy THEN 1 ELSE 0

(***************************************************************************)
(* The invariant of page and service together: types, busy flags with      *)
(* owners, and a log that agrees with the counter.                         *)
(***************************************************************************)
PlaygroundInv == TypeOK /\ FlagsHaveOwners /\ LogAndCounterAgree

(***************************************************************************)
(* The result on display is never replaced by that of an earlier run, even *)
(* when a broken connection leaves an earlier one going on.                *)
(***************************************************************************)
ResultsMoveForward == [][result'.run >= result.run]_vars

(***************************************************************************)
(* "Executing Handshake..." and "Evaluating..." end, even if the client    *)
(* container hangs for ever.                                               *)
(***************************************************************************)
BusyEnds == (running ~> ~running) /\ (evaluatingPolicy ~> ~evaluatingPolicy)

=============================================================================
