--------------------------- MODULE ApiClientProofs ---------------------------
(***************************************************************************)
(* What a page may rely on about its calls, for any set of calls and any   *)
(* queries Q and answers B.                                                *)
(***************************************************************************)
EXTENDS ApiClient, TLAPS

(***************************************************************************)
(* A call in flight has a query, and a body once it is answered; only the  *)
(* idle call has neither.                                                  *)
(***************************************************************************)
LEMMA CallCases ==
  ASSUME NEW Q, NEW B, NEW c \in CallState(Q, B)
  PROVE  /\ c.at \in { "idle", "sent", "threw", "ok" }
         /\ c # Idle <=> c.at # "idle"
         /\ c.at # "idle" => c.query \in Q
         /\ c.at = "ok" => c.body \in B
<1>1. CASE c = Idle
  BY <1>1 DEF Idle
<1>2. CASE c \in [at : {"sent", "threw"}, query : Q]
  <2>1. c.at \in { "sent", "threw" } /\ c.query \in Q
    BY <1>2
  <2> QED BY <2>1 DEF Idle
<1>3. CASE c \in [at : {"ok"}, query : Q, body : B]
  <2>1. c.at = "ok" /\ c.query \in Q /\ c.body \in B
    BY <1>3
  <2> QED BY <2>1 DEF Idle
<1> QED BY <1>1, <1>2, <1>3 DEF CallState

(***************************************************************************)
(* What each step of a call leaves in fetch.                               *)
(***************************************************************************)
LEMMA CallSteps ==
  ASSUME NEW Q, NEW B, fetch \in [Request -> CallState(Q, B)], NEW r \in Request
  PROVE  /\ \A q \in Q : Send(r, q) =>
              /\ fetch' \in [Request -> CallState(Q, B)]
              /\ fetch[r].at = "idle"
              /\ fetch'[r].at = "sent" /\ fetch'[r].query = q
         /\ \A b \in B : Answer(r, b) =>
              /\ fetch' \in [Request -> CallState(Q, B)]
              /\ fetch[r].at = "sent" /\ fetch'[r].at = "ok"
              /\ fetch'[r].query = fetch[r].query /\ fetch'[r].body = b
         /\ Throw(r) =>
              /\ fetch' \in [Request -> CallState(Q, B)]
              /\ fetch[r].at = "sent" /\ fetch'[r].at = "threw"
              /\ fetch'[r].query = fetch[r].query
         /\ \A q \in Q : ThenSend(r, q) =>
              /\ fetch' \in [Request -> CallState(Q, B)]
              /\ fetch'[r].at = "sent" /\ fetch'[r].query = q
         /\ Return(r) =>
              /\ fetch' \in [Request -> CallState(Q, B)]
              /\ fetch'[r].at = "idle"
<1>1. ASSUME NEW q \in Q, Send(r, q)
      PROVE  /\ fetch' \in [Request -> CallState(Q, B)]
             /\ fetch[r].at = "idle"
             /\ fetch'[r].at = "sent" /\ fetch'[r].query = q
  BY <1>1 DEF Send, CallState, Idle
<1>2. ASSUME NEW b \in B, Answer(r, b)
      PROVE  /\ fetch' \in [Request -> CallState(Q, B)]
             /\ fetch[r].at = "sent" /\ fetch'[r].at = "ok"
             /\ fetch'[r].query = fetch[r].query /\ fetch'[r].body = b
  <2>1. fetch[r].at = "sent" /\ fetch[r].query \in Q
    BY <1>2, CallCases DEF Answer
  <2> QED BY <1>2, <2>1 DEF Answer, CallState
<1>3. ASSUME Throw(r)
      PROVE  /\ fetch' \in [Request -> CallState(Q, B)]
             /\ fetch[r].at = "sent" /\ fetch'[r].at = "threw"
             /\ fetch'[r].query = fetch[r].query
  <2>1. fetch[r].at = "sent" /\ fetch[r].query \in Q
    BY <1>3, CallCases DEF Throw
  <2> QED BY <1>3, <2>1 DEF Throw, CallState
<1>4. ASSUME Return(r)
      PROVE  fetch' \in [Request -> CallState(Q, B)] /\ fetch'[r].at = "idle"
  BY <1>4 DEF Return, CallState, Idle
<1>5. ASSUME NEW q \in Q, ThenSend(r, q)
      PROVE  /\ fetch' \in [Request -> CallState(Q, B)]
             /\ fetch'[r].at = "sent" /\ fetch'[r].query = q
  BY <1>5 DEF ThenSend, CallState
<1> QED BY <1>1, <1>2, <1>3, <1>4, <1>5

(***************************************************************************)
(* ... and it leaves every other call alone.                               *)
(***************************************************************************)
LEMMA OtherCalls ==
  ASSUME NEW Q, NEW B, fetch \in [Request -> CallState(Q, B)], NEW r \in Request
  PROVE  /\ \A q : Send(r, q) \/ ThenSend(r, q) =>
              \A x \in Request \ {r} : fetch'[x] = fetch[x]
         /\ \A b : Answer(r, b) => \A x \in Request \ {r} : fetch'[x] = fetch[x]
         /\ Throw(r) \/ Return(r) => \A x \in Request \ {r} : fetch'[x] = fetch[x]
BY DEF Send, Answer, Throw, ThenSend, Return

(***************************************************************************)
(* So who asks what changes for that call only, and only when it is sent   *)
(* or its handler ends.                                                    *)
(***************************************************************************)
LEMMA AsksSteps ==
  ASSUME NEW Q, NEW B, fetch \in [Request -> CallState(Q, B)], NEW r \in Request
  PROVE  /\ \A q \in Q : Send(r, q) \/ ThenSend(r, q) =>
              \A x \in Request : \A k :
                Asks(x, k)' <=> IF x = r THEN q.kind = k ELSE Asks(x, k)
         /\ \A b \in B : Answer(r, b) =>
              \A x \in Request : \A k : Asks(x, k)' <=> Asks(x, k)
         /\ Throw(r) => \A x \in Request : \A k : Asks(x, k)' <=> Asks(x, k)
         /\ Return(r) =>
              \A x \in Request : \A k : Asks(x, k)' <=> x # r /\ Asks(x, k)
<1>1. ASSUME fetch' \in [Request -> CallState(Q, B)]
      PROVE  \A x \in Request : \A k :
               Asks(x, k)' <=> fetch'[x].at # "idle" /\ fetch'[x].query.kind = k
  BY <1>1, CallCases DEF Asks, InFlight
<1>2. \A x \in Request : \A k :
        Asks(x, k) <=> fetch[x].at # "idle" /\ fetch[x].query.kind = k
  BY CallCases DEF Asks, InFlight
<1>3. ASSUME NEW q \in Q, Send(r, q) \/ ThenSend(r, q)
      PROVE  \A x \in Request : \A k :
               Asks(x, k)' <=> IF x = r THEN q.kind = k ELSE Asks(x, k)
  BY <1>1, <1>2, <1>3, CallSteps, OtherCalls
<1>4. ASSUME NEW b \in B, Answer(r, b)
      PROVE  \A x \in Request : \A k : Asks(x, k)' <=> Asks(x, k)
  BY <1>1, <1>2, <1>4, CallSteps, OtherCalls
<1>5. ASSUME Throw(r)
      PROVE  \A x \in Request : \A k : Asks(x, k)' <=> Asks(x, k)
  BY <1>1, <1>2, <1>5, CallSteps, OtherCalls
<1>6. ASSUME Return(r)
      PROVE  \A x \in Request : \A k : Asks(x, k)' <=> x # r /\ Asks(x, k)
  BY <1>1, <1>2, <1>6, CallSteps, OtherCalls
<1> QED BY <1>3, <1>4, <1>5, <1>6

==============================================================================
