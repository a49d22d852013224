-------------------------- MODULE AgentsPageProofs --------------------------
(***************************************************************************)
(* Proofs about AgentsPage, for any number of overlapping calls, tokens    *)
(* and quick copies, and any agents, node ids and typed values.            *)
(***************************************************************************)
EXTENDS AgentsPage, ApiClientProofs, FiniteSetTheorems

(***************************************************************************)
(* A load is answered with a listing and a mint with a token.              *)
(***************************************************************************)
BodiesMatch ==
  \A r \in Request :
    fetch[r].at = "ok" =>
      fetch[r].body \in IF fetch[r].query.kind = "list" THEN Listing ELSE Token

(***************************************************************************)
(* One mint at a time, and while it is in flight no token is kept: the     *)
(* dialog shows the form until it settles, however often it is closed and  *)
(* reopened meanwhile.                                                     *)
(***************************************************************************)
OneMint ==
  /\ \A r, s \in MintInFlight : r = s
  /\ submitting <=> MintInFlight # {}
  /\ submitting => mintedToken = Null

(***************************************************************************)
(* The grid's placeholder and the tick of the copy button have owners.     *)
(***************************************************************************)
OthersOwned ==
  /\ loading => \E r \in Request : Asks(r, "list")
  /\ copied => timers > 0

Inv == TypeOK /\ BodiesMatch /\ OneMint /\ OthersOwned /\ FormAgreesWithSchema

Body == Listing \cup Token

-----------------------------------------------------------------------------
(* Preservation, one part of the invariant at a time.                      *)

(***************************************************************************)
(* The queries of the page are either the list or a mint, and not both.    *)
(***************************************************************************)
LEMMA QueryKinds ==
  /\ \A q \in Query : q.kind \in { "list", "mint" }
  /\ \A q \in Query : q.kind = "mint" => q.spiffe_id \in Node /\ q.ttl \in Nat
  /\ [kind |-> "list"] \in Query /\ [kind |-> "list"].kind = "list"
BY DEF Query

LEMMA CallsTyped ==
  ASSUME TypeOK
  PROVE  /\ fetch \in [Request -> CallState(Query, Body)]
         /\ \A r \in Request :
              /\ fetch[r].at \in { "idle", "sent", "threw", "ok" }
              /\ r \in InFlight <=> fetch[r].at # "idle"
              /\ r \in InFlight => fetch[r].query \in Query
              /\ r \in MintInFlight <=> Asks(r, "mint")
<1>1. fetch \in [Request -> CallState(Query, Body)]
  BY DEF TypeOK, Body
<1>2. SUFFICES ASSUME NEW r \in Request
               PROVE  /\ fetch[r].at \in { "idle", "sent", "threw", "ok" }
                      /\ r \in InFlight <=> fetch[r].at # "idle"
                      /\ r \in InFlight => fetch[r].query \in Query
                      /\ r \in MintInFlight <=> Asks(r, "mint")
  BY <1>1
<1>3. fetch[r] \in CallState(Query, Body)
  BY <1>1
<1> QED BY <1>3, CallCases DEF InFlight, MintInFlight

LEMMA InvInit == Init => Inv
<1> SUFFICES ASSUME Init PROVE Inv
  OBVIOUS
<1> USE AgentsAssumption DEF Init
<1>1. PICK r \in Request :
        fetch = [x \in Request |->
                   IF x = r THEN [at |-> "sent", query |-> [kind |-> "list"]]
                   ELSE Idle]
  OBVIOUS
<1>2. fetch \in [Request -> CallState(Query, Body)]
  BY <1>1, QueryKinds DEF CallState
<1>3. TypeOK
  <2>1. attested \subseteq Agent /\ issued \in 0 .. MaxTokens
        /\ timers \in 0 .. MaxTimers /\ tokenTtl \in Nat
    OBVIOUS
  <2>2. { loading, isModalOpen, copied, submitting } \subseteq BOOLEAN
    OBVIOUS
  <2>3. tokenSpiffeId \in Node \cup {Blank} /\ mintedToken \in {Null} \cup Token
    OBVIOUS
  <2> QED BY <1>2, <2>1, <2>2, <2>3 DEF TypeOK, Body
<1>4. Asks(r, "list") /\ MintInFlight = {}
  BY <1>1 DEF Asks, InFlight, MintInFlight, Idle
<1>5. BodiesMatch
  BY <1>1 DEF BodiesMatch, Idle
<1>6. OneMint /\ OthersOwned /\ FormAgreesWithSchema
  BY <1>1, <1>4 DEF OneMint, OthersOwned, FormAgreesWithSchema
<1> QED BY <1>3, <1>5, <1>6 DEF Inv

LEMMA TypeNext ==
  TypeOK /\ BodiesMatch /\ [Next]_vars => TypeOK' /\ BodiesMatch'
<1> SUFFICES ASSUME TypeOK, BodiesMatch, [Next]_vars PROVE TypeOK' /\ BodiesMatch'
  OBVIOUS
<1> USE AgentsAssumption DEF server, form, grid, dialog, tick, page
<1> DEFINE C == CallState(Query, Body)
           T == TypeOK /\ BodiesMatch
<1>a. fetch \in [Request -> C]
  BY CallsTyped
<1>b. ASSUME UNCHANGED fetch PROVE BodiesMatch'
  BY <1>b DEF BodiesMatch
<1>c. ASSUME fetch' \in [Request -> C],
             UNCHANGED << attested, issued, agents, tokenSpiffeId, tokenTtl, mintedToken, timers >>,
             { loading, isModalOpen, copied, submitting }' \subseteq BOOLEAN
      PROVE  TypeOK'
  BY <1>c DEF TypeOK, Body
<1>1. ASSUME NEW r \in Request, Refresh(r) PROVE T'
  <2>1. /\ fetch' \in [Request -> C]
        /\ fetch'[r].at = "sent"
        /\ \A x \in Request \ {r} : fetch'[x] = fetch[x]
    BY <1>1, <1>a, CallSteps, OtherCalls, QueryKinds DEF Refresh
  <2>2. TypeOK'
    BY <1>1, <2>1, <1>c DEF TypeOK, Refresh
  <2>3. BodiesMatch'
    BY <2>1 DEF BodiesMatch
  <2> QED BY <2>2, <2>3
<1>2. ASSUME NEW r \in Request, handleMintToken(r) PROVE T'
  <2> DEFINE q == [kind |-> "mint", spiffe_id |-> tokenSpiffeId, ttl |-> tokenTtl]
  <2>1. q \in Query
    BY <1>2 DEF TypeOK, handleMintToken, SubmitEnabled, Query
  <2>2. Send(r, q)
    BY <1>2 DEF handleMintToken, Mint
  <2> HIDE DEF q
  <2>3. /\ fetch' \in [Request -> C]
        /\ fetch'[r].at = "sent"
        /\ \A x \in Request \ {r} : fetch'[x] = fetch[x]
    BY <2>1, <2>2, <1>a, CallSteps, OtherCalls
  <2>4. TypeOK'
    BY <1>2, <2>3, <1>c DEF TypeOK, handleMintToken, Mint
  <2>5. BodiesMatch'
    BY <2>3 DEF BodiesMatch
  <2> QED BY <2>4, <2>5
<1>3. ASSUME NEW r \in Request, LoadSettles(r) \/ MintSettles(r) PROVE T'
  <2>1. /\ fetch' \in [Request -> C]
        /\ fetch'[r].at = "idle"
        /\ \A x \in Request \ {r} : fetch'[x] = fetch[x]
    BY <1>3, <1>a, CallSteps, OtherCalls DEF LoadSettles, MintSettles
  <2>2. BodiesMatch'
    BY <2>1 DEF BodiesMatch
  <2>3. CASE LoadSettles(r)
    <3>1. agents' \subseteq Agent \cup Demo
      BY <2>3 DEF LoadSettles, TypeOK, BodiesMatch, Listing, Asks
    <3> QED BY <2>1, <2>2, <2>3, <3>1 DEF TypeOK, LoadSettles, Body
  <2>4. CASE MintSettles(r)
    <3>1. mintedToken' \in {Null} \cup Token
      BY <2>4 DEF MintSettles, TypeOK, BodiesMatch, Asks
    <3> QED BY <2>1, <2>2, <2>4, <3>1 DEF TypeOK, MintSettles, Body
  <2> QED BY <1>3, <2>3, <2>4
<1>4. ASSUME NEW r \in Request, ServeList(r) PROVE T'
  <2>1. PICK b \in Listing : b \in Body /\ Answer(r, b)
    <3>1. [agents |-> attested] \in Listing /\ [agents |-> Demo] \in Listing
      BY DEF TypeOK, Listing
    <3> QED BY <1>4, <3>1 DEF ServeList, Body
  <2>2. /\ fetch' \in [Request -> C]
        /\ fetch'[r].query = fetch[r].query /\ fetch'[r].body = b
        /\ \A x \in Request \ {r} : fetch'[x] = fetch[x]
    BY <2>1, <1>a, CallSteps, OtherCalls
  <2>3. TypeOK'
    BY <1>4, <2>2, <1>c DEF TypeOK, ServeList
  <2>4. BodiesMatch'
    BY <1>4, <2>2 DEF BodiesMatch, ServeList, Asks
  <2> QED BY <2>3, <2>4
<1>5. ASSUME NEW r \in Request, ServeMint(r) PROVE T'
  <2> DEFINE q == fetch[r].query
             b == [token |-> issued + 1, spiffe_id |-> q.spiffe_id, ttl |-> q.ttl]
  <2>1. r \in InFlight /\ q.kind = "mint" /\ q \in Query
    BY <1>5, CallsTyped DEF ServeMint, Asks
  <2>2. b \in Token /\ b \in Body
    BY <1>5, <2>1, QueryKinds DEF TypeOK, ServeMint, Token, Body
  <2>3. Answer(r, b) \/ Throw(r)
    BY <1>5 DEF ServeMint
  <2> HIDE DEF b
  <2>4. /\ fetch' \in [Request -> C]
        /\ fetch'[r].query = q
        /\ fetch'[r].at = "ok" => fetch'[r].body = b
        /\ \A x \in Request \ {r} : fetch'[x] = fetch[x]
    BY <2>2, <2>3, <1>a, CallSteps, OtherCalls
  <2>5. issued' \in 0 .. MaxTokens
    BY <1>5 DEF TypeOK, ServeMint
  <2>6. TypeOK'
    BY <1>5, <2>4, <2>5 DEF TypeOK, ServeMint, Body
  <2>7. BodiesMatch'
    BY <2>1, <2>2, <2>4 DEF BodiesMatch
  <2> QED BY <2>6, <2>7
<1>6. ASSUME NEW r \in Request, Unserved(r) PROVE T'
  <2>1. /\ fetch' \in [Request -> C]
        /\ fetch'[r].at = "threw"
        /\ \A x \in Request \ {r} : fetch'[x] = fetch[x]
    BY <1>6, <1>a, CallSteps, OtherCalls DEF Unserved
  <2>2. TypeOK'
    BY <1>6, <2>1, <1>c DEF TypeOK, Unserved
  <2>3. BodiesMatch'
    BY <2>1 DEF BodiesMatch
  <2> QED BY <2>2, <2>3
<1>7. ASSUME AgentsChange PROVE T'
  BY <1>7, <1>b DEF TypeOK, AgentsChange
<1>8. ASSUME OpenModal \/ CloseModal PROVE T'
  <2>1. { loading, isModalOpen, copied, submitting }' \subseteq BOOLEAN
    BY <1>8 DEF TypeOK, OpenModal, CloseModal
  <2>2. mintedToken' \in {Null} \cup Token
    BY <1>8 DEF TypeOK, OpenModal, CloseModal
  <2> QED BY <1>8, <2>1, <2>2, <1>b DEF TypeOK, OpenModal, CloseModal
<1>9. ASSUME NEW n \in TypedNode, EditSpiffeId(n) PROVE T'
  BY <1>9, <1>b DEF TypeOK, EditSpiffeId
<1>10. ASSUME NEW v \in TypedTtl, EditTtl(v) PROVE T'
  BY <1>10, <1>b DEF TypeOK, EditTtl
<1>11. ASSUME copyToClipboard \/ Timeout PROVE T'
  <2>1. { loading, isModalOpen, copied, submitting }' \subseteq BOOLEAN
    BY <1>11 DEF TypeOK, copyToClipboard, Timeout
  <2>2. timers' \in 0 .. MaxTimers
    BY <1>11 DEF TypeOK, copyToClipboard, Timeout
  <2> QED BY <1>11, <2>1, <2>2, <1>b DEF TypeOK, copyToClipboard, Timeout
<1>12. CASE UNCHANGED vars
  BY <1>12, <1>b DEF TypeOK, vars
<1> QED
  BY <1>1, <1>2, <1>3, <1>4, <1>5, <1>6, <1>7, <1>8, <1>9, <1>10, <1>11, <1>12
  DEF Next, Settles, Served

(***************************************************************************)
(* The owners of the flags, and what the form lets through.                *)
(***************************************************************************)
Owned == OneMint /\ OthersOwned /\ FormAgreesWithSchema

LEMMA FormStep ==
  ASSUME FormAgreesWithSchema, MintInFlight' \subseteq MintInFlight,
         \A x \in MintInFlight' : fetch'[x].query = fetch[x].query
  PROVE  FormAgreesWithSchema'
<1> SUFFICES ASSUME NEW x \in MintInFlight' PROVE SchemaAccepts(fetch'[x].query)
  BY DEF FormAgreesWithSchema, SchemaAccepts
<1>1. SchemaAccepts(fetch[x].query) /\ fetch'[x].query = fetch[x].query
  BY DEF FormAgreesWithSchema
<1> QED BY <1>1

(***************************************************************************)
(* What an answer, or nothing at all, happening to fetch does not touch.   *)
(***************************************************************************)
LEMMA QuietCalls ==
  ASSUME Owned, MintInFlight' = MintInFlight,
         \A r \in Request : \A k : Asks(r, k)' <=> Asks(r, k),
         \A r \in Request : r \in MintInFlight => fetch'[r].query = fetch[r].query
  PROVE  /\ UNCHANGED << submitting, mintedToken >> => OneMint'
         /\ UNCHANGED << loading, copied, timers >> => OthersOwned'
         /\ FormAgreesWithSchema'
<1>1. UNCHANGED << submitting, mintedToken >> => OneMint'
  BY DEF Owned, OneMint
<1>2. UNCHANGED << loading, copied, timers >> => OthersOwned'
  BY DEF Owned, OthersOwned
<1>3. FormAgreesWithSchema'
  BY FormStep DEF Owned, MintInFlight
<1> QED BY <1>1, <1>2, <1>3

LEMMA OwnedNext == TypeOK /\ Owned /\ [Next]_vars => Owned'
<1> SUFFICES ASSUME TypeOK, Owned, [Next]_vars PROVE Owned'
  OBVIOUS
<1> USE DEF server, form, grid, dialog, tick, page
<1> DEFINE C == CallState(Query, Body)
<1>a. fetch \in [Request -> C]
  BY CallsTyped
<1>b. ASSUME UNCHANGED fetch
      PROVE  /\ UNCHANGED << submitting, mintedToken >> => OneMint'
             /\ UNCHANGED << loading, copied, timers >> => OthersOwned'
             /\ FormAgreesWithSchema'
  <2>1. MintInFlight' = MintInFlight /\ \A r \in Request : \A k : Asks(r, k)' <=> Asks(r, k)
    BY <1>b DEF MintInFlight, Asks, InFlight
  <2> QED BY <1>b, <2>1, QuietCalls
<1>c. MintInFlight' = { r \in Request : Asks(r, "mint")' }
      /\ MintInFlight = { r \in Request : Asks(r, "mint") }
  BY DEF MintInFlight
<1>1. ASSUME NEW r \in Request, Refresh(r) PROVE Owned'
  <2>1. \A x \in Request : \A k : Asks(x, k)' <=> IF x = r THEN "list" = k ELSE Asks(x, k)
    BY <1>1, <1>a, AsksSteps, QueryKinds DEF Refresh
  <2>2. fetch[r].at = "idle" /\ \A x \in Request \ {r} : fetch'[x] = fetch[x]
    BY <1>1, <1>a, CallSteps, OtherCalls, QueryKinds DEF Refresh
  <2>3. r \notin MintInFlight
    BY <2>2, CallsTyped DEF Asks
  <2>4. MintInFlight' = MintInFlight
    BY <1>c, <2>1, <2>3
  <2>5. OneMint'
    BY <1>1, <2>4 DEF Refresh, Owned, OneMint
  <2>6. OthersOwned'
    BY <1>1, <2>1 DEF Refresh, Owned, OthersOwned
  <2>7. FormAgreesWithSchema'
    BY <1>c, <2>2, <2>3, <2>4, FormStep DEF Owned
  <2> QED BY <2>5, <2>6, <2>7 DEF Owned
<1>2. ASSUME NEW r \in Request, handleMintToken(r) PROVE Owned'
  <2> DEFINE q == [kind |-> "mint", spiffe_id |-> tokenSpiffeId, ttl |-> tokenTtl]
  <2>1. q \in Query /\ q.kind = "mint" /\ SchemaAccepts(q)
    BY <1>2 DEF TypeOK, handleMintToken, SubmitEnabled, Query, SchemaAccepts
  <2>2. Send(r, q)
    BY <1>2 DEF handleMintToken, Mint
  <2>3. mintedToken = Null /\ ~ submitting /\ MintInFlight = {}
    BY <1>2 DEF handleMintToken, SubmitEnabled, FormShown, Owned, OneMint
  <2> HIDE DEF q
  <2>4. /\ fetch'[r].query = q
        /\ \A x \in Request : \A k : Asks(x, k)' <=> IF x = r THEN "mint" = k ELSE Asks(x, k)
    BY <2>1, <2>2, <1>a, CallSteps, AsksSteps
  <2>5. MintInFlight' = {r}
    BY <1>c, <2>3, <2>4
  <2>6. OneMint'
    BY <1>2, <2>3, <2>5 DEF handleMintToken, Mint, OneMint
  <2>7. OthersOwned'
    <3>1. Asks(r, "list") => FALSE
      BY <2>2, CallsTyped DEF Send, Asks, Idle
    <3> QED BY <1>2, <2>4, <3>1 DEF handleMintToken, Mint, Owned, OthersOwned
  <2>8. FormAgreesWithSchema'
    <3>1. fetch'[r].query = q
      BY <2>4
    <3>2. \A x \in MintInFlight' : x = r
      BY <2>5
    <3>3. ASSUME NEW x \in MintInFlight' PROVE SchemaAccepts(fetch'[x].query)
      BY <2>1, <3>1, <3>2, <3>3
    <3> QED BY <3>3 DEF FormAgreesWithSchema, SchemaAccepts
  <2> QED BY <2>6, <2>7, <2>8 DEF Owned
<1>3. ASSUME NEW r \in Request, LoadSettles(r) PROVE Owned'
  <2>1. /\ \A x \in Request : \A k : Asks(x, k)' <=> x # r /\ Asks(x, k)
        /\ \A x \in Request \ {r} : fetch'[x] = fetch[x]
    BY <1>3, <1>a, AsksSteps, OtherCalls DEF LoadSettles
  <2>2. r \notin MintInFlight
    BY <1>3, <1>c DEF LoadSettles, Asks
  <2>3. MintInFlight' = MintInFlight
    BY <1>c, <2>1, <2>2
  <2>4. OneMint'
    BY <1>3, <2>3 DEF LoadSettles, Owned, OneMint
  <2>5. OthersOwned'
    BY <1>3 DEF LoadSettles, Owned, OthersOwned
  <2>6. FormAgreesWithSchema'
    BY <1>c, <2>1, <2>2, <2>3, FormStep DEF Owned
  <2> QED BY <2>4, <2>5, <2>6 DEF Owned
<1>4. ASSUME NEW r \in Request, MintSettles(r) PROVE Owned'
  <2>1. \A x \in Request : \A k : Asks(x, k)' <=> x # r /\ Asks(x, k)
    BY <1>4, <1>a, AsksSteps DEF MintSettles
  <2>2. r \in MintInFlight
    BY <1>4, <1>c DEF MintSettles
  <2>3. MintInFlight' = {}
    BY <1>c, <2>1, <2>2 DEF Owned, OneMint
  <2>4. OneMint' /\ FormAgreesWithSchema'
    BY <1>4, <2>3 DEF MintSettles, OneMint, FormAgreesWithSchema
  <2>5. OthersOwned'
    <3>1. ~ Asks(r, "list")
      BY <1>4 DEF MintSettles, Asks
    <3> QED BY <1>4, <2>1, <3>1 DEF MintSettles, Owned, OthersOwned
  <2> QED BY <2>4, <2>5 DEF Owned
<1>5. ASSUME NEW r \in Request, Served(r) PROVE Owned'
  <2>1. /\ \A x \in Request : \A k : Asks(x, k)' <=> Asks(x, k)
        /\ \A x \in Request : fetch'[x].query = fetch[x].query
    <3>1. CASE ServeList(r)
      <4>1. PICK b \in Body : Answer(r, b)
        BY <3>1 DEF ServeList, TypeOK, Body, Listing
      <4> QED BY <4>1, <1>a, AsksSteps, CallSteps, OtherCalls
    <3>2. CASE ServeMint(r)
      <4> DEFINE q == fetch[r].query
                 b == [token |-> issued + 1, spiffe_id |-> q.spiffe_id, ttl |-> q.ttl]
      <4>1. r \in InFlight /\ q.kind = "mint" /\ q \in Query
        BY <3>2, <1>5, CallsTyped DEF ServeMint, Asks
      <4>2. b \in Body
        BY <3>2, <4>1, QueryKinds, AgentsAssumption DEF TypeOK, ServeMint, Token, Body
      <4>3. Answer(r, b) \/ Throw(r)
        BY <3>2 DEF ServeMint
      <4> HIDE DEF b
      <4> QED BY <4>2, <4>3, <1>a, AsksSteps, CallSteps, OtherCalls
    <3>3. CASE Unserved(r)
      BY <3>3, <1>a, AsksSteps, CallSteps, OtherCalls DEF Unserved
    <3> QED BY <1>5, <3>1, <3>2, <3>3 DEF Served
  <2>2. MintInFlight' = MintInFlight
    BY <1>c, <2>1
  <2> QED
    BY <1>5, <2>1, <2>2, QuietCalls DEF Served, ServeList, ServeMint, Unserved, Owned
<1>6. ASSUME OpenModal PROVE Owned'
  <2>1. OneMint'
    BY <1>6 DEF OpenModal, Owned, OneMint, MintInFlight, Asks, InFlight
  <2> QED BY <1>6, <1>b, <2>1 DEF OpenModal, Owned
<1>7. ASSUME copyToClipboard \/ Timeout PROVE Owned'
  <2>1. OthersOwned'
    BY <1>7
    DEF copyToClipboard, Timeout, Owned, OthersOwned, Asks, InFlight, TypeOK
  <2> QED BY <1>7, <1>b, <2>1 DEF copyToClipboard, Timeout, Owned
<1>8. ASSUME \/ AgentsChange \/ CloseModal
             \/ \E n \in TypedNode : EditSpiffeId(n)
             \/ \E v \in TypedTtl : EditTtl(v)
             \/ UNCHANGED vars
      PROVE  Owned'
  BY <1>8, <1>b
  DEF AgentsChange, CloseModal, EditSpiffeId, EditTtl, vars, Owned
<1> QED
  BY <1>1, <1>2, <1>3, <1>4, <1>5, <1>6, <1>7, <1>8 DEF Next, Settles

-----------------------------------------------------------------------------
(* The theorems.                                                           *)

LEMMA InvNext == Inv /\ [Next]_vars => Inv'
BY TypeNext, OwnedNext DEF Inv, Owned

(***************************************************************************)
(* The page's types, the owners of its flags and the agreement of its form *)
(* with GenerateTokenRequest, for any number of overlapping calls.         *)
(***************************************************************************)
THEOREM PageInvariant == Spec => []AgentsInv
<1>1. Inv => AgentsInv
  <2> SUFFICES ASSUME Inv PROVE AgentsInv
    OBVIOUS
  <2>1. Cardinality(MintInFlight) <= 1
    <3>1. CASE MintInFlight = {}
      BY <3>1, FS_EmptySet
    <3>2. CASE MintInFlight # {}
      <4>1. PICK r : MintInFlight = {r}
        BY <3>2 DEF Inv, OneMint
      <4> QED BY <4>1, FS_Singleton
    <3> QED BY <3>1, <3>2
  <2>2. GridView = "Loading attested node agents..." => loading
    BY DEF GridView
  <2>3. FlagsHaveOwners
    BY <2>1, <2>2 DEF Inv, OneMint, OthersOwned, FlagsHaveOwners
  <2> QED BY <2>3 DEF Inv, AgentsInv
<1>2. Spec => []Inv
  BY InvInit, InvNext, PTL DEF Spec
<1> QED BY <1>1, <1>2, PTL

(***************************************************************************)
(* A token on display is never replaced or hidden by an answer that comes  *)
(* late: no mint can be in flight while a token is kept.                   *)
(***************************************************************************)
THEOREM DisplayedTokenStays == Spec => ShownTokenStays
<1> DEFINE Stays == TokenShown => \/ mintedToken' = mintedToken
                                  \/ mintedToken' = Null /\ isModalOpen'
<1>1. Inv /\ [Next]_vars => [Stays]_vars
  <2> SUFFICES ASSUME Inv, Next, TokenShown
               PROVE  \/ mintedToken' = mintedToken
                      \/ mintedToken' = Null /\ isModalOpen'
    OBVIOUS
  <2> USE DEF server, form, grid, dialog, tick, page
  <2>1. ASSUME NEW r \in Request PROVE ~ MintSettles(r)
    BY DEF Inv, OneMint, MintSettles, MintInFlight, TokenShown
  <2>2. ASSUME NEW r \in Request,
               Refresh(r) \/ handleMintToken(r) \/ LoadSettles(r) \/ Served(r)
        PROVE  mintedToken' = mintedToken
    BY <2>2 DEF Refresh, handleMintToken, Mint, LoadSettles, Served, ServeList,
                ServeMint, Unserved
  <2>3. ASSUME OpenModal PROVE mintedToken' = Null /\ isModalOpen'
    BY <2>3 DEF OpenModal
  <2>4. ASSUME \/ AgentsChange \/ CloseModal \/ copyToClipboard \/ Timeout
               \/ \E n \in TypedNode : EditSpiffeId(n)
               \/ \E v \in TypedTtl : EditTtl(v)
        PROVE  mintedToken' = mintedToken
    BY <2>4 DEF AgentsChange, CloseModal, copyToClipboard, Timeout, EditSpiffeId,
                EditTtl
  <2> QED BY <2>1, <2>2, <2>3, <2>4 DEF Next, Settles
<1>2. Spec => []Inv
  BY InvInit, InvNext, PTL DEF Spec
<1> QED BY <1>1, <1>2, PTL DEF Spec, ShownTokenStays

=============================================================================
