------------------------- MODULE EntriesPageProofs -------------------------
(***************************************************************************)
(* Proofs about EntriesPage, for any number of overlapping calls and any   *)
(* entries, names, selectors, typed values and demo entries.               *)
(***************************************************************************)
EXTENDS EntriesPage, ApiClientProofs, SequenceTheorems, FiniteSetTheorems

ListBody ==
  [listing : SUBSET (ever \cup Demo), version : 0..version, real : BOOLEAN]

WriteBody == [status : {"success", "simulated"}, entry : {None} \cup ever]

(***************************************************************************)
(* What is known of call r beyond its type.  A list is answered with a     *)
(* listing no older than the one on display when it was sent, and one of   *)
(* the datastore holds what its handler registered, unless it has been     *)
(* removed: ids are not handed out twice, so nothing brings it back.  A    *)
(* create carries what the form let through and is answered with an entry. *)
(***************************************************************************)
ListOK(r) ==
  fetch[r].at = "ok" /\ fetch[r].query.kind = "list" =>
    /\ fetch[r].body \in ListBody
    /\ fetch[r].query.floor <= fetch[r].body.version
    /\ fetch[r].body.real /\ fetch[r].query.wrote # None =>
         fetch[r].query.wrote \in fetch[r].body.listing \cup (ever \ store)

CreateOK(r) ==
  Asks(r, "create") =>
    /\ SchemaAccepts(fetch[r].query.form)
    /\ fetch[r].query.form.spiffe_id \in Name
    /\ fetch[r].at = "ok" => fetch[r].body \in WriteBody

CallsInv == \A r \in Request : ListOK(r) /\ CreateOK(r)

(***************************************************************************)
(* The owners of the busy flags.                                           *)
(***************************************************************************)
Owned ==
  /\ loading => \E r \in Request : Asks(r, "list")
  /\ submitting <=> \E r \in Request : r \in CreateInFlight
  /\ \A r, s \in CreateInFlight : r = s

Inv == TypeOK /\ CallsInv /\ Owned

-----------------------------------------------------------------------------
(* The form.                                                               *)

(***************************************************************************)
(* The selectors of a form are the sequences of at most MaxSelectors       *)
(* selectors, and the dialog's two buttons keep them that.                 *)
(***************************************************************************)
LEMMA FormFields ==
  \A f : f \in Form <=>
    /\ f = [spiffe_id |-> f.spiffe_id, selectors |-> f.selectors, ttl |-> f.ttl]
    /\ f.spiffe_id \in Name \cup {Blank} /\ f.ttl \in Nat
    /\ f.selectors \in Seq(Selector) /\ Len(f.selectors) <= MaxSelectors
<1> DEFINE S == UNION { [1..n -> Selector] : n \in 0..MaxSelectors }
<1>1. ASSUME NEW s \in S PROVE s \in Seq(Selector) /\ Len(s) <= MaxSelectors
  <2>1. PICK n \in 0..MaxSelectors : s \in [1..n -> Selector]
    OBVIOUS
  <2>2. s \in Seq(Selector) /\ Len(s) = n
    BY <2>1, EntriesAssumption
  <2> QED BY <2>2, EntriesAssumption
<1>2. ASSUME NEW s \in Seq(Selector), Len(s) <= MaxSelectors PROVE s \in S
  <2>1. Len(s) \in 0..MaxSelectors /\ s \in [1..Len(s) -> Selector]
    BY <1>2, LenProperties, EntriesAssumption
  <2> QED BY <2>1
<1>3. \A s : s \in S <=> s \in Seq(Selector) /\ Len(s) <= MaxSelectors
  BY <1>1, <1>2
<1> HIDE DEF S
<1>4. Form = [spiffe_id : Name \cup {Blank}, selectors : S, ttl : Nat]
  BY DEF Form, S
<1> QED BY <1>3, <1>4

LEMMA FormEdits ==
  ASSUME formData \in Form
  PROVE  /\ \A n \in Name \cup {Blank} : [formData EXCEPT !.spiffe_id = n] \in Form
         /\ \A v \in Nat : [formData EXCEPT !.ttl = v] \in Form
         /\ \A s \in Seq(Selector) : Len(s) <= MaxSelectors =>
              [formData EXCEPT !.selectors = s] \in Form
<1> DEFINE S == UNION { [1..n -> Selector] : n \in 0..MaxSelectors }
<1>1. Form = [spiffe_id : Name \cup {Blank}, selectors : S, ttl : Nat]
  BY DEF Form
<1>2. ASSUME NEW s \in Seq(Selector), Len(s) <= MaxSelectors PROVE s \in S
  BY <1>2, LenProperties, EntriesAssumption
<1> HIDE DEF S
<1> QED BY <1>1, <1>2

-----------------------------------------------------------------------------
(* The calls.                                                              *)

LEMMA QueryKinds ==
  ASSUME NEW q \in Query
  PROVE  /\ q.kind \in { "list", "create", "delete" }
         /\ q.kind = "list" => q.owner \in { "page", "create", "delete" }
                               /\ q.wrote \in {None} \cup ever /\ q.floor \in 0..version
         /\ q.kind = "create" => q.form \in Form
         /\ q.kind = "delete" => q.id \in Id \cup DemoId
<1>1. CASE q \in [kind : {"list"}, owner : {"page", "create", "delete"},
                  wrote : {None} \cup ever, floor : 0..version]
  BY <1>1
<1>2. CASE q \in [kind : {"create"}, form : Form]
  BY <1>2
<1>3. CASE q \in [kind : {"delete"}, id : Id \cup DemoId]
  BY <1>3
<1> QED BY <1>1, <1>2, <1>3 DEF Query

(***************************************************************************)
(* What the store may do under the page's feet: grow by entries with new   *)
(* ids and lose some, never get one back.                                  *)
(***************************************************************************)
StoreMoves ==
  /\ store' \subseteq ever' /\ ever' \subseteq Entry /\ ever \subseteq ever'
  /\ store' \cap ever \subseteq store
  /\ version' \in Nat /\ version <= version'

LEMMA StoreSteps ==
  ASSUME TypeOK
  PROVE  /\ UNCHANGED server => StoreMoves
         /\ \A e \in Entry : Register(e) => StoreMoves
         /\ \A e : Remove(e) => StoreMoves
<1> USE DEF TypeOK
<1>1. UNCHANGED server => StoreMoves
  BY DEF server, StoreMoves
<1>2. ASSUME NEW e \in Entry, Register(e) PROVE StoreMoves
  <2>1. e \notin ever
    BY <1>2 DEF Register
  <2> QED BY <1>2, <2>1 DEF Register, StoreMoves
<1>3. ASSUME NEW e, Remove(e) PROVE StoreMoves
  BY <1>3 DEF Remove, StoreMoves
<1> QED BY <1>1, <1>2, <1>3

(***************************************************************************)
(* Queries and answers stay well-formed when it does.                      *)
(***************************************************************************)
LEMMA CallsGrow ==
  ASSUME TypeOK, StoreMoves
  PROVE  /\ Query \subseteq Query' /\ ListBody \subseteq ListBody'
         /\ WriteBody \subseteq WriteBody' /\ Body \subseteq Body'
         /\ fetch \in [Request -> CallState(Query', Body')]
<1> USE DEF TypeOK, StoreMoves
<1>1. 0..version \subseteq 0..version' /\ ever \cup Demo \subseteq ever' \cup Demo
  OBVIOUS
<1>2. Query \subseteq Query'
  BY <1>1 DEF Query
<1>3. ListBody \subseteq ListBody'
  BY <1>1 DEF ListBody
<1>4. WriteBody \subseteq WriteBody'
  BY DEF WriteBody
<1>5. Body = ListBody \cup WriteBody /\ Body' = ListBody' \cup WriteBody'
  BY DEF Body, ListBody, WriteBody
<1>6. Body \subseteq Body'
  BY <1>3, <1>4, <1>5
<1>7. CallState(Query, Body) \subseteq CallState(Query', Body')
  BY <1>2, <1>6 DEF CallState
<1> QED BY <1>2, <1>3, <1>4, <1>6, <1>7

(***************************************************************************)
(* So the calls other than the one a step is about keep what is known of   *)
(* them.                                                                   *)
(***************************************************************************)
LEMMA OthersOK ==
  ASSUME TypeOK, CallsInv, StoreMoves, NEW x \in Request, fetch'[x] = fetch[x]
  PROVE  ListOK(x)' /\ CreateOK(x)'
<1>1. ListBody \subseteq ListBody' /\ WriteBody \subseteq WriteBody'
  BY CallsGrow
<1>2. Asks(x, "create")' => Asks(x, "create")
  BY DEF Asks, InFlight
<1>3. CreateOK(x)'
  <2>1. CreateOK(x)
    BY DEF CallsInv
  <2>2. Asks(x, "create")' =>
          /\ SchemaAccepts(fetch'[x].query.form)
          /\ fetch'[x].query.form.spiffe_id \in Name
          /\ fetch'[x].at = "ok" => fetch'[x].body \in WriteBody'
    BY <1>1, <1>2, <2>1 DEF CreateOK
  <2> QED BY <2>2 DEF CreateOK
<1>4. ASSUME fetch[x].at = "ok", fetch[x].query.kind = "list"
      PROVE  fetch[x].query \in Query
  <2>1. fetch[x] \in CallState(Query, Body)
    BY DEF TypeOK
  <2> QED BY <2>1, <1>4, CallCases
<1>5. fetch[x].at = "ok" /\ fetch[x].query.kind = "list" =>
        fetch[x].query.wrote \in {None} \cup ever
  BY <1>4, QueryKinds
<1>6. ListOK(x)'
  BY <1>1, <1>5 DEF CallsInv, ListOK, StoreMoves
<1> QED BY <1>3, <1>6

-----------------------------------------------------------------------------
(* Types and answers.                                                      *)

PageOK ==
  /\ shown \in 0..version
  /\ entries \subseteq ever \cup Demo
  /\ search \in Search
  /\ { loading, isModalOpen, submitting } \subseteq BOOLEAN
  /\ formData \in Form
  /\ selectorInput \in Selector \cup {Blank}

Typed == TypeOK /\ CallsInv

(***************************************************************************)
(* A step that keeps the calls, and one that changes call r.               *)
(***************************************************************************)
LEMMA TypedQuiet ==
  ASSUME Typed, StoreMoves, PageOK', UNCHANGED fetch
  PROVE  Typed'
<1>1. CallsInv'
  BY OthersOK DEF Typed, CallsInv
<1>2. fetch' \in [Request -> CallState(Query', Body')]
  BY CallsGrow DEF Typed
<1> QED BY <1>1, <1>2 DEF Typed, TypeOK, PageOK, StoreMoves

LEMMA TypedCall ==
  ASSUME Typed, StoreMoves, PageOK', NEW r \in Request,
         fetch' \in [Request -> CallState(Query', Body')],
         \A x \in Request \ {r} : fetch'[x] = fetch[x],
         ListOK(r)', CreateOK(r)'
  PROVE  Typed'
<1>1. CallsInv'
  BY OthersOK DEF Typed, CallsInv
<1> QED BY <1>1 DEF Typed, TypeOK, PageOK, StoreMoves

LEMMA PageQuiet == Typed /\ StoreMoves /\ UNCHANGED page => PageOK'
BY DEF Typed, TypeOK, PageOK, StoreMoves, page, form, dialog, table

(***************************************************************************)
(* What is known of a call that has just been sent, has failed or is over: *)
(* only a create carries anything.                                         *)
(***************************************************************************)
LEMMA NotAnswered ==
  ASSUME NEW r \in Request, fetch' \in [Request -> CallState(Query', Body')],
         fetch'[r].at # "ok",
         \/ fetch'[r].at = "idle"
         \/ fetch'[r].query.kind # "create"
         \/ /\ SchemaAccepts(fetch'[r].query.form)
            /\ fetch'[r].query.form.spiffe_id \in Name
  PROVE  ListOK(r)' /\ CreateOK(r)'
<1>1. ListOK(r)'
  BY DEF ListOK
<1>2. fetch'[r].at = "idle" => ~ Asks(r, "create")'
  BY CallCases DEF Asks, InFlight
<1>3. fetch'[r].query.kind # "create" => ~ Asks(r, "create")'
  BY DEF Asks
<1>4. CreateOK(r)'
  BY <1>2, <1>3 DEF CreateOK
<1> QED BY <1>1, <1>4

(***************************************************************************)
(* The steps that send a query, run a continuation to its end or fail a    *)
(* call.                                                                   *)
(***************************************************************************)
LEMMA TypedSend ==
  ASSUME Typed, StoreMoves, PageOK', NEW r \in Request, NEW q \in Query,
         Send(r, q) \/ ThenSend(r, q),
         \/ q.kind # "create"
         \/ SchemaAccepts(q.form) /\ q.form.spiffe_id \in Name
  PROVE  Typed'
<1>1. q \in Query' /\ fetch \in [Request -> CallState(Query', Body')]
  BY CallsGrow DEF Typed
<1>2. /\ fetch' \in [Request -> CallState(Query', Body')]
      /\ fetch'[r].at = "sent" /\ fetch'[r].query = q
      /\ \A x \in Request \ {r} : fetch'[x] = fetch[x]
  BY <1>1, CallSteps, OtherCalls
<1>3. ListOK(r)' /\ CreateOK(r)'
  BY <1>2, NotAnswered
<1> QED BY <1>2, <1>3, TypedCall

LEMMA TypedReturn ==
  ASSUME Typed, StoreMoves, PageOK', NEW r \in Request, Return(r)
  PROVE  Typed'
<1>1. fetch \in [Request -> CallState(Query', Body')]
  BY CallsGrow DEF Typed
<1>2. /\ fetch' \in [Request -> CallState(Query', Body')]
      /\ fetch'[r].at = "idle"
      /\ \A x \in Request \ {r} : fetch'[x] = fetch[x]
  BY <1>1, CallSteps, OtherCalls
<1>3. ListOK(r)' /\ CreateOK(r)'
  BY <1>2, NotAnswered
<1> QED BY <1>2, <1>3, TypedCall

LEMMA TypedThrow ==
  ASSUME Typed, StoreMoves, PageOK', NEW r \in Request, Throw(r)
  PROVE  Typed'
<1>1. fetch \in [Request -> CallState(Query', Body')]
  BY CallsGrow DEF Typed
<1>2. /\ fetch' \in [Request -> CallState(Query', Body')]
      /\ fetch[r].at = "sent" /\ fetch'[r].at = "threw"
      /\ fetch'[r].query = fetch[r].query
      /\ \A x \in Request \ {r} : fetch'[x] = fetch[x]
  BY <1>1, CallSteps, OtherCalls
<1>3. fetch[r].query.kind = "create" => Asks(r, "create")
  BY <1>2 DEF Asks, InFlight, Idle
<1>4. fetch[r].query.kind = "create" =>
        /\ SchemaAccepts(fetch[r].query.form)
        /\ fetch[r].query.form.spiffe_id \in Name
  BY <1>3 DEF Typed, CallsInv, CreateOK
<1>5. ListOK(r)' /\ CreateOK(r)'
  BY <1>2, <1>4, NotAnswered
<1> QED BY <1>2, <1>5, TypedCall

(***************************************************************************)
(* An answer: of a list, from the store as it is or of the demo entries;   *)
(* of a create or delete, a confirmation.                                  *)
(***************************************************************************)
LEMMA TypedListed ==
  ASSUME Typed, UNCHANGED server, PageOK', NEW r \in Request, Asks(r, "list"),
         NEW b \in ListBody, b.version = version, b.real => b.listing = store,
         Answer(r, b)
  PROVE  Typed'
<1>1. StoreMoves
  BY StoreSteps DEF Typed
<1>2. b \in ListBody' /\ b \in Body' /\ fetch \in [Request -> CallState(Query', Body')]
  BY <1>1, CallsGrow DEF Typed, Body, ListBody
<1>3. /\ fetch' \in [Request -> CallState(Query', Body')]
      /\ fetch'[r].at = "ok" /\ fetch'[r].query = fetch[r].query
      /\ fetch'[r].body = b
      /\ \A x \in Request \ {r} : fetch'[x] = fetch[x]
  BY <1>2, CallSteps, OtherCalls
<1>4. fetch[r].query \in Query
  <2>1. fetch[r] \in CallState(Query, Body) /\ fetch[r] # Idle
    BY DEF Asks, InFlight, Typed, TypeOK
  <2> QED BY <2>1, CallCases
<1>5. /\ fetch[r].query.wrote \in {None} \cup ever
      /\ fetch[r].query.floor <= version
  BY <1>4, QueryKinds DEF Asks, Typed, TypeOK
<1>6. ListOK(r)'
  BY <1>2, <1>3, <1>5 DEF ListOK, server
<1>7. CreateOK(r)'
  BY <1>3 DEF CreateOK, Asks
<1> QED BY <1>1, <1>3, <1>6, <1>7, TypedCall

LEMMA TypedWritten ==
  ASSUME Typed, StoreMoves, PageOK', NEW r \in Request, ~ Asks(r, "list"),
         NEW b \in WriteBody', Answer(r, b)
  PROVE  Typed'
<1>1. b \in Body' /\ fetch \in [Request -> CallState(Query', Body')]
  BY CallsGrow DEF Typed, Body, WriteBody
<1>2. /\ fetch' \in [Request -> CallState(Query', Body')]
      /\ fetch[r].at = "sent" /\ fetch'[r].at = "ok"
      /\ fetch'[r].query = fetch[r].query /\ fetch'[r].body = b
      /\ \A x \in Request \ {r} : fetch'[x] = fetch[x]
  BY <1>1, CallSteps, OtherCalls
<1>3. r \in InFlight
  BY <1>2 DEF InFlight, Idle
<1>4. ListOK(r)'
  BY <1>2, <1>3 DEF ListOK, Asks
<1>5. CreateOK(r)'
  <2>1. fetch[r].query.kind = "create" =>
          /\ SchemaAccepts(fetch[r].query.form)
          /\ fetch[r].query.form.spiffe_id \in Name
    BY <1>3 DEF Typed, CallsInv, CreateOK, Asks
  <2>2. Asks(r, "create")' =>
          /\ SchemaAccepts(fetch'[r].query.form)
          /\ fetch'[r].query.form.spiffe_id \in Name
          /\ fetch'[r].at = "ok" => fetch'[r].body \in WriteBody'
    BY <1>2, <2>1 DEF Asks
  <2> QED BY <2>2 DEF CreateOK
<1> QED BY <1>2, <1>4, <1>5, TypedCall

(***************************************************************************)
(* The calls of the page and what is known of a call that has been made.   *)
(***************************************************************************)
LEMMA Asked ==
  ASSUME Typed, NEW r \in InFlight
  PROVE  r \in Request /\ fetch[r].query \in Query
<1>1. r \in Request /\ fetch[r] \in CallState(Query, Body) /\ fetch[r] # Idle
  BY DEF InFlight, Typed, TypeOK
<1> QED BY <1>1, CallCases

LEMMA ListQueries ==
  ASSUME Typed, NEW owner \in {"page", "create", "delete"},
         NEW wrote \in {None} \cup ever
  PROVE  /\ ListFor(owner, wrote) \in Query
         /\ ListFor(owner, wrote).kind = "list"
         /\ ListFor(owner, wrote).owner = owner
BY DEF ListFor, Query, Typed, TypeOK

LEMMA TypedNext == Typed /\ [Next]_vars => Typed'
<1> SUFFICES ASSUME Typed, [Next]_vars PROVE Typed'
  OBVIOUS
<1> USE EntriesAssumption DEF form, dialog, table, page
<1>a. UNCHANGED server => StoreMoves
  BY StoreSteps DEF Typed
<1>b. PageOK
  BY DEF Typed, TypeOK, PageOK
<1>c. None \in {None} \cup ever
  OBVIOUS
<1>d. UNCHANGED server => UNCHANGED << store, ever, version >>
  BY DEF server
<1>e. ASSUME UNCHANGED server,
             UNCHANGED << shown, entries, search, formData, selectorInput >>,
             { loading, isModalOpen, submitting }' \subseteq BOOLEAN
      PROVE  PageOK'
  BY <1>b, <1>d, <1>e DEF PageOK
<1>1. ASSUME NEW r \in Request, Refresh(r) PROVE Typed'
  <2>1. PageOK'
    BY <1>1, <1>b, <1>e DEF Refresh, StartLoading, PageOK
  <2> QED BY <1>1, <1>a, <1>c, <2>1, ListQueries, TypedSend DEF Refresh
<1>2. ASSUME NEW r \in Request, handleCreate(r) PROVE Typed'
  <2> DEFINE q == [kind |-> "create", form |-> formData]
  <2>1. q \in Query /\ SchemaAccepts(q.form) /\ q.form.spiffe_id \in Name
    <3>1. formData \in Form
      BY <1>b DEF PageOK
    <3>2. formData.spiffe_id \in Name \cup {Blank}
      BY <3>1, FormFields
    <3>3. SubmitEnabled
      BY <1>2 DEF handleCreate
    <3>4. /\ formData.spiffe_id # Blank /\ formData.selectors # << >>
          /\ 60 <= formData.ttl /\ formData.ttl <= 86400
      BY <3>3 DEF SubmitEnabled
    <3>6. formData.spiffe_id \in Name /\ SchemaAccepts(formData)
      BY <3>2, <3>4 DEF SchemaAccepts
    <3>5. q \in Query
      BY <3>1 DEF Query
    <3> QED BY <3>5, <3>6
  <2>2. PageOK'
    BY <1>2, <1>b, <1>e DEF handleCreate, PageOK
  <2> HIDE DEF q
  <2>3. Send(r, q)
    BY <1>2 DEF handleCreate, q
  <2> QED BY <1>2, <1>a, <2>1, <2>2, <2>3, TypedSend DEF handleCreate
<1>3. ASSUME NEW r \in Request, NEW e \in entries, handleDelete(r, e) PROVE Typed'
  <2> DEFINE q == [kind |-> "delete", id |-> e.id]
  <2>1. q \in Query /\ q.kind # "create"
    <3>1. e \in ever \cup Demo
      BY <1>3, <1>b DEF PageOK
    <3>2. e.id \in Id \cup DemoId
      BY <3>1 DEF Typed, TypeOK, Entry, DemoId
    <3> QED BY <3>2 DEF Query
  <2> HIDE DEF q
  <2>2. Send(r, q) /\ UNCHANGED server
    BY <1>3 DEF handleDelete, q
  <2>3. PageOK'
    BY <1>3, <1>a, PageQuiet DEF handleDelete
  <2> QED BY <1>3, <1>a, <2>1, <2>2, <2>3, TypedSend
<1>4. ASSUME NEW r \in Request, LoadSettles(r) PROVE Typed'
  <2>1. entries' \subseteq ever \cup Demo /\ shown' \in 0..version
    <3>1. CASE fetch[r].at = "ok"
      BY <1>4, <3>1 DEF LoadSettles, Asks, Typed, CallsInv, ListOK, ListBody
    <3>2. CASE fetch[r].at # "ok"
      BY <1>4, <1>b, <3>2 DEF LoadSettles, PageOK
    <3> QED BY <3>1, <3>2
  <2>2. { loading, isModalOpen, submitting }' \subseteq BOOLEAN
    BY <1>4, <1>b DEF LoadSettles, PageOK
  <2>3. PageOK'
    BY <1>4, <1>b, <1>d, <2>1, <2>2 DEF LoadSettles, PageOK
  <2> QED BY <1>4, <1>a, <2>3, TypedReturn DEF LoadSettles
<1>5. ASSUME NEW r \in Request, CreateSettles(r) PROVE Typed'
  <2>1. PageOK'
    BY <1>5, <1>b, <1>e DEF CreateSettles, StartLoading, PageOK
  <2>2. CASE fetch[r].at = "ok"
    <3>1. fetch[r].body.entry \in {None} \cup ever
      BY <1>5, <2>2 DEF CreateSettles, Typed, CallsInv, CreateOK, WriteBody
    <3>2. ThenSend(r, ListFor("create", fetch[r].body.entry)) /\ UNCHANGED server
      BY <1>5, <2>2 DEF CreateSettles
    <3> QED BY <1>5, <1>a, <2>1, <3>1, <3>2, ListQueries, TypedSend
  <2>3. CASE fetch[r].at # "ok"
    BY <1>5, <1>a, <2>1, <2>3, TypedReturn DEF CreateSettles
  <2> QED BY <2>2, <2>3
<1>6. ASSUME NEW r \in Request, DeleteSettles(r) PROVE Typed'
  <2>1. PageOK'
    BY <1>6, <1>b, <1>e DEF DeleteSettles, StartLoading, PageOK
  <2>2. CASE fetch[r].at = "ok"
    <3>1. ThenSend(r, ListFor("delete", None)) /\ UNCHANGED server
      BY <1>6, <2>2 DEF DeleteSettles
    <3> QED BY <1>6, <1>a, <1>c, <2>1, <3>1, ListQueries, TypedSend
  <2>3. CASE fetch[r].at # "ok"
    BY <1>6, <1>a, <2>1, <2>3, TypedReturn DEF DeleteSettles
  <2> QED BY <2>2, <2>3
<1>7. ASSUME NEW r \in Request, ServeList(r) PROVE Typed'
  <2>1. PageOK'
    BY <1>7, <1>a, PageQuiet DEF ServeList
  <2>2. PICK b \in ListBody : /\ b.version = version
                              /\ b.real => b.listing = store
                              /\ Answer(r, b)
    <3> DEFINE b1 == [listing |-> store, version |-> version, real |-> TRUE]
               b2 == [listing |-> Demo, version |-> version, real |-> FALSE]
    <3>1. b1 \in ListBody /\ b1.version = version /\ b1.listing = store
      BY DEF ListBody, Typed, TypeOK
    <3>2. b2 \in ListBody /\ b2.version = version /\ b2.real = FALSE
      BY DEF ListBody, Typed, TypeOK
    <3>3. Answer(r, b1) \/ Answer(r, b2)
      BY <1>7 DEF ServeList
    <3> HIDE DEF b1, b2
    <3> QED BY <3>1, <3>2, <3>3
  <2> QED BY <1>7, <2>1, <2>2, TypedListed DEF ServeList
<1>8. ASSUME NEW r \in Request, ServeCreate(r) PROVE Typed'
  <2> DEFINE f == fetch[r].query.form
  <2>1. r \in InFlight /\ Asks(r, "create") /\ ~ Asks(r, "list")
    BY <1>8 DEF ServeCreate, Asks
  <2>2. f.spiffe_id \in Name /\ f \in Form
    BY <1>8, <2>1, Asked, QueryKinds DEF Typed, CallsInv, CreateOK, Asks
  <2>3. f.selectors \in Seq(Selector) /\ f.ttl \in Nat
    BY <2>2, FormFields
  <2>4. CASE \E i \in Id :
               LET e == [id |-> i, spiffe_id |-> f.spiffe_id,
                         selectors |-> f.selectors, ttl |-> f.ttl]
               IN  /\ Register(e)
                   /\ \/ Answer(r, [status |-> "success", entry |-> e])
                      \/ Throw(r)
    <3>1. PICK i \in Id :
            LET e == [id |-> i, spiffe_id |-> f.spiffe_id,
                      selectors |-> f.selectors, ttl |-> f.ttl]
            IN  /\ Register(e)
                /\ \/ Answer(r, [status |-> "success", entry |-> e])
                   \/ Throw(r)
      BY <2>4
    <3> DEFINE e == [id |-> i, spiffe_id |-> f.spiffe_id,
                     selectors |-> f.selectors, ttl |-> f.ttl]
               b == [status |-> "success", entry |-> e]
    <3>2. e \in Entry
      BY <2>2, <2>3 DEF Entry
    <3>3. Register(e) /\ (Answer(r, b) \/ Throw(r))
      BY <3>1
    <3> HIDE DEF e, f
    <3>4. StoreMoves /\ e \in ever'
      BY <3>2, <3>3, StoreSteps DEF Register, Typed
    <3>5. b \in WriteBody'
      BY <3>4 DEF WriteBody
    <3>6. PageOK'
      BY <1>8, <3>4, PageQuiet DEF ServeCreate
    <3> HIDE DEF b
    <3> QED BY <1>8, <2>1, <3>3, <3>4, <3>5, <3>6, TypedWritten, TypedThrow
  <2>5. CASE /\ Answer(r, [status |-> "simulated", entry |-> None])
             /\ UNCHANGED server
    <3>1. [status |-> "simulated", entry |-> None] \in WriteBody'
      BY DEF WriteBody
    <3>2. PageOK'
      BY <1>8, <1>a, <2>5, PageQuiet DEF ServeCreate
    <3> QED BY <1>8, <1>a, <2>1, <2>5, <3>1, <3>2, TypedWritten
  <2> QED BY <1>8, <2>4, <2>5 DEF ServeCreate
<1>9. ASSUME NEW r \in Request, ServeDelete(r) PROVE Typed'
  <2> DEFINE b == [status |-> "success", entry |-> None]
  <2>1. StoreMoves
    BY <1>9, <1>a, StoreSteps DEF ServeDelete, Typed
  <2>2. b \in WriteBody'
    BY DEF WriteBody
  <2>3. PageOK' /\ ~ Asks(r, "list")
    BY <1>9, <2>1, PageQuiet DEF ServeDelete, Asks
  <2>4. Answer(r, b) \/ Throw(r)
    BY <1>9 DEF ServeDelete
  <2> HIDE DEF b
  <2> QED BY <1>9, <2>1, <2>2, <2>3, <2>4, TypedWritten, TypedThrow
<1>10. ASSUME NEW r \in Request, Unserved(r) PROVE Typed'
  <2>1. PageOK'
    BY <1>10, <1>a, PageQuiet DEF Unserved
  <2> QED BY <1>10, <1>a, <2>1, TypedThrow DEF Unserved
<1>11. ASSUME OthersChange PROVE Typed'
  <2> DEFINE e(i) == [id |-> i, spiffe_id |-> InitialForm.spiffe_id,
                      selectors |-> InitialForm.selectors, ttl |-> InitialForm.ttl]
  <2>1. \A i \in Id : e(i) \in Entry
    BY FormFields DEF Entry
  <2>2. (\E i \in Id : Register(e(i))) \/ \E x \in store : Remove(x)
    BY <1>11 DEF OthersChange
  <2> HIDE DEF e
  <2>3. StoreMoves
    BY <2>1, <2>2, StoreSteps DEF Typed
  <2>4. PageOK'
    BY <1>11, <2>3, PageQuiet DEF OthersChange
  <2> QED BY <1>11, <2>3, <2>4, TypedQuiet DEF OthersChange
<1>12. ASSUME UNCHANGED << server, fetch >>, PageOK' PROVE Typed'
  BY <1>12, <1>a, TypedQuiet
<1>13. ASSUME OpenModal \/ CloseModal PROVE Typed'
  <2>1. PageOK'
    BY <1>13, <1>b, <1>e DEF OpenModal, CloseModal, PageOK
  <2> QED BY <1>12, <1>13, <2>1 DEF OpenModal, CloseModal
<1>14. ASSUME NEW f \in Form, EditForm(f) PROVE Typed'
  <2>1. PageOK'
    BY <1>14, <1>b, <1>d DEF EditForm, PageOK
  <2> QED BY <1>12, <1>14, <2>1 DEF EditForm
<1>15. ASSUME NEW n \in TypedName, EditSpiffeId(n) PROVE Typed'
  BY <1>14, <1>15, <1>b, FormEdits DEF EditSpiffeId, PageOK
<1>16. ASSUME NEW v \in TypedTtl, EditTtl(v) PROVE Typed'
  BY <1>14, <1>16, <1>b, FormEdits DEF EditTtl, PageOK
<1>17. ASSUME NEW i \in DOMAIN formData.selectors, RemoveSelector(i) PROVE Typed'
  <2> DEFINE s == formData.selectors
             n == Len(s) - 1
             t == [j \in 1..n |-> IF j < i THEN s[j] ELSE s[j + 1]]
  <2>1. s \in Seq(Selector) /\ Len(s) \in Nat /\ Len(s) <= MaxSelectors
        /\ i \in 1..Len(s) /\ \A j \in 1..Len(s) : s[j] \in Selector
    BY <1>17, <1>b, FormFields, LenProperties, ElementOfSeq DEF PageOK
  <2>2. n \in Nat /\ \A j \in 1..n : j \in 1..Len(s) /\ j + 1 \in 1..Len(s)
    BY <2>1
  <2>3. t \in [1..n -> Selector]
    BY <2>1, <2>2
  <2>4. t \in Seq(Selector) /\ Len(t) = n
    BY <2>2, <2>3
  <2>5. EditForm([formData EXCEPT !.selectors = t])
    BY <1>17 DEF RemoveSelector
  <2>6. Len(t) <= MaxSelectors
    BY <2>1, <2>4
  <2> HIDE DEF t
  <2>7. [formData EXCEPT !.selectors = t] \in Form
    BY <1>b, <2>4, <2>6, FormEdits DEF PageOK
  <2> QED BY <1>14, <2>5, <2>7
<1>18. ASSUME AddSelector PROVE Typed'
  <2> DEFINE s == Append(formData.selectors, selectorInput)
  <2>1. /\ formData.selectors \in Seq(Selector)
        /\ selectorInput \in Selector
        /\ Len(formData.selectors) < MaxSelectors
    BY <1>18, <1>b, FormFields DEF AddSelector, PageOK
  <2>2. s \in Seq(Selector) /\ Len(s) <= MaxSelectors
    BY <2>1, AppendProperties, LenProperties
  <2>3. formData' = [formData EXCEPT !.selectors = s] /\ selectorInput' = Blank
    BY <1>18 DEF AddSelector
  <2> HIDE DEF s
  <2>4. formData' \in Form
    BY <1>b, <2>2, <2>3, FormEdits DEF PageOK
  <2>5. PageOK'
    BY <1>18, <1>b, <1>d, <2>3, <2>4 DEF AddSelector, PageOK
  <2> QED BY <1>12, <1>18, <2>5 DEF AddSelector
<1>19. ASSUME NEW s \in TypedSelector, EditSelectorInput(s) PROVE Typed'
  <2>1. PageOK'
    BY <1>19, <1>b, <1>d DEF EditSelectorInput, PageOK
  <2> QED BY <1>12, <1>19, <2>1 DEF EditSelectorInput
<1>20. ASSUME NEW s \in Search, SetSearch(s) PROVE Typed'
  <2>1. PageOK'
    BY <1>20, <1>b, <1>d DEF SetSearch, PageOK
  <2> QED BY <1>12, <1>20, <2>1 DEF SetSearch
<1>21. CASE UNCHANGED vars
  <2>1. UNCHANGED << server, page, fetch >>
    BY <1>21 DEF vars
  <2> QED BY <1>12, <1>a, <2>1, PageQuiet
<1> QED
  BY <1>1, <1>2, <1>3, <1>4, <1>5, <1>6, <1>7, <1>8, <1>9, <1>10, <1>11, <1>13,
     <1>15, <1>16, <1>17, <1>18, <1>19, <1>20, <1>21
  DEF Next, Operator, Proceeds, Settles, Served

-----------------------------------------------------------------------------
(* The owners of the flags.                                                *)

Creating(r) == Asks(r, "create") \/ (Asks(r, "list") /\ fetch[r].query.owner = "create")

LEMMA OwnedMeans ==
  Owned <=> /\ loading => \E r \in Request : Asks(r, "list")
            /\ submitting <=> \E r \in Request : Creating(r)
            /\ \A r, s \in Request : Creating(r) /\ Creating(s) => r = s
BY DEF Owned, CreateInFlight, Creating

LEMMA OwnedMeansNext ==
  Owned' <=> /\ loading' => \E r \in Request : Asks(r, "list")'
             /\ submitting' <=> \E r \in Request : Creating(r)'
             /\ \A r, s \in Request : Creating(r)' /\ Creating(s)' => r = s
BY DEF Owned, CreateInFlight, Creating

(***************************************************************************)
(* An answer or a failure keeps the query: who owns which flag does not    *)
(* change.                                                                 *)
(***************************************************************************)
LEMMA ServedOwners ==
  ASSUME Typed, NEW r \in Request, (\E b : Answer(r, b)) \/ Throw(r)
  PROVE  \A x \in Request : /\ Asks(x, "list")' <=> Asks(x, "list")
                            /\ Creating(x)' <=> Creating(x)
<1>1. /\ DOMAIN fetch = Request
      /\ fetch[r].at = "sent"
      /\ fetch' = [fetch EXCEPT ![r] = fetch'[r]]
      /\ fetch'[r].query = fetch[r].query
      /\ fetch'[r].at # "idle"
  BY DEF Answer, Throw, Typed, TypeOK
<1>2. \A x \in Request : /\ fetch'[x].query = fetch[x].query
                         /\ fetch'[x] # Idle <=> fetch[x] # Idle
  BY <1>1 DEF Idle
<1> QED BY <1>2 DEF Asks, InFlight, Creating

(***************************************************************************)
(* What sending a query, and the end of a handler, do to the owners.       *)
(***************************************************************************)
LEMMA SentOwners ==
  ASSUME Typed, NEW r \in Request, NEW q \in Query, Send(r, q) \/ ThenSend(r, q)
  PROVE  /\ Asks(r, "list")' <=> q.kind = "list"
         /\ Creating(r)' <=> q.kind = "create" \/ (q.kind = "list" /\ q.owner = "create")
         /\ \A x \in Request \ {r} : /\ Asks(x, "list")' <=> Asks(x, "list")
                                     /\ Creating(x)' <=> Creating(x)
<1>1. fetch \in [Request -> CallState(Query, Body)]
  BY DEF Typed, TypeOK
<1>2. /\ fetch'[r].at = "sent" /\ fetch'[r].query = q
      /\ \A x \in Request \ {r} : fetch'[x] = fetch[x]
  BY <1>1, CallSteps, OtherCalls
<1>3. fetch'[r] # Idle
  BY <1>2 DEF Idle
<1> QED BY <1>2, <1>3 DEF Asks, InFlight, Creating

LEMMA ReturnedOwners ==
  ASSUME Typed, NEW r \in Request, Return(r)
  PROVE  /\ ~ Asks(r, "list")' /\ ~ Creating(r)'
         /\ \A x \in Request \ {r} : /\ Asks(x, "list")' <=> Asks(x, "list")
                                     /\ Creating(x)' <=> Creating(x)
<1>1. fetch'[r] = Idle /\ \A x \in Request \ {r} : fetch'[x] = fetch[x]
  BY DEF Return, Typed, TypeOK
<1> QED BY <1>1 DEF Asks, InFlight, Creating

LEMMA OwnedNext == Typed /\ Owned /\ [Next]_vars => Owned'
<1> SUFFICES ASSUME Typed, Owned, [Next]_vars PROVE Owned'
  OBVIOUS
<1> USE OwnedMeans, OwnedMeansNext DEF server, form, dialog, table, page
<1>a. ASSUME NEW r \in Request, fetch[r] = Idle
      PROVE  ~ Asks(r, "list") /\ ~ Creating(r)
  BY <1>a DEF Asks, InFlight, Creating
<1>b. None \in {None} \cup ever
  OBVIOUS
<1>1. ASSUME NEW r \in Request, Refresh(r) PROVE Owned'
  <2> DEFINE q == ListFor("page", None)
  <2>1. q \in Query /\ q.kind = "list" /\ q.owner = "page"
    BY <1>b, ListQueries
  <2>2. /\ fetch[r] = Idle /\ Send(r, q)
        /\ loading' = TRUE /\ UNCHANGED submitting
    BY <1>1 DEF Refresh, StartLoading, Send
  <2> HIDE DEF q
  <2> QED BY <1>a, <1>1, <2>1, <2>2, SentOwners
<1>2. ASSUME NEW r \in Request, handleCreate(r) PROVE Owned'
  <2> DEFINE q == [kind |-> "create", form |-> formData]
  <2>1. q \in Query /\ q.kind = "create"
    BY DEF Query, Typed, TypeOK
  <2>2. /\ fetch[r] = Idle /\ Send(r, q)
        /\ ~ submitting /\ submitting' = TRUE /\ UNCHANGED loading
    BY <1>2 DEF handleCreate, SubmitEnabled, Send
  <2> HIDE DEF q
  <2> QED BY <1>a, <1>2, <2>1, <2>2, SentOwners
<1>3. ASSUME NEW r \in Request, NEW e \in entries, handleDelete(r, e) PROVE Owned'
  <2> DEFINE q == [kind |-> "delete", id |-> e.id]
  <2>1. q \in Query /\ q.kind = "delete"
    <3>1. e.id \in Id \cup DemoId
      BY DEF Typed, TypeOK, Entry, DemoId
    <3> QED BY <3>1 DEF Query
  <2>2. fetch[r] = Idle /\ Send(r, q) /\ UNCHANGED << submitting, loading >>
    BY <1>3 DEF handleDelete, Send
  <2> HIDE DEF q
  <2> QED BY <1>a, <1>3, <2>1, <2>2, SentOwners
<1>4. ASSUME NEW r \in Request, LoadSettles(r) PROVE Owned'
  <2>1. /\ Asks(r, "list") /\ Return(r) /\ loading' = FALSE
        /\ submitting' = (submitting /\ fetch[r].query.owner # "create")
    BY <1>4 DEF LoadSettles
  <2>2. Creating(r) <=> fetch[r].query.owner = "create"
    BY <2>1 DEF Creating, Asks
  <2>3. CASE Creating(r)
    <3>1. submitting' = FALSE
      BY <2>1, <2>2, <2>3
    <3> QED BY <2>1, <2>3, <3>1, ReturnedOwners
  <2>4. CASE ~ Creating(r)
    <3>1. submitting' <=> submitting
      BY <2>1, <2>2, <2>4
    <3> QED BY <2>1, <2>4, <3>1, ReturnedOwners
  <2> QED BY <2>3, <2>4
<1>5. ASSUME NEW r \in Request, CreateSettles(r) PROVE Owned'
  <2>1. Creating(r) /\ Asks(r, "create")
    BY <1>5 DEF CreateSettles, Creating
  <2>2. CASE fetch[r].at = "ok"
    <3> DEFINE q == ListFor("create", fetch[r].body.entry)
    <3>1. q \in Query /\ q.kind = "list" /\ q.owner = "create"
      <4>1. fetch[r].body.entry \in {None} \cup ever
        BY <2>1, <2>2 DEF Typed, CallsInv, CreateOK, WriteBody
      <4> QED BY <4>1, ListQueries
    <3>2. ThenSend(r, q) /\ loading' = TRUE /\ UNCHANGED submitting
      BY <1>5, <2>2 DEF CreateSettles, StartLoading
    <3> HIDE DEF q
    <3> QED BY <2>1, <3>1, <3>2, SentOwners
  <2>3. CASE fetch[r].at # "ok"
    <3>1. Return(r) /\ submitting' = FALSE /\ UNCHANGED loading
      BY <1>5, <2>3 DEF CreateSettles
    <3>2. ~ Asks(r, "list")
      BY <2>1 DEF Asks
    <3> QED BY <2>1, <3>1, <3>2, ReturnedOwners
  <2> QED BY <2>2, <2>3
<1>6. ASSUME NEW r \in Request, DeleteSettles(r) PROVE Owned'
  <2>1. ~ Creating(r) /\ ~ Asks(r, "list") /\ UNCHANGED submitting
    BY <1>6 DEF DeleteSettles, Creating, Asks
  <2>2. CASE fetch[r].at = "ok"
    <3> DEFINE q == ListFor("delete", None)
    <3>1. q \in Query /\ q.kind = "list" /\ q.owner = "delete"
      BY <1>b, ListQueries
    <3>2. ThenSend(r, q) /\ loading' = TRUE
      BY <1>6, <2>2 DEF DeleteSettles, StartLoading
    <3> HIDE DEF q
    <3> QED BY <2>1, <3>1, <3>2, SentOwners
  <2>3. CASE fetch[r].at # "ok"
    <3>1. Return(r) /\ UNCHANGED loading
      BY <1>6, <2>3 DEF DeleteSettles
    <3> QED BY <2>1, <3>1, ReturnedOwners
  <2> QED BY <2>2, <2>3
<1>7. ASSUME NEW r \in Request, Served(r) PROVE Owned'
  <2>1. ((\E b : Answer(r, b)) \/ Throw(r)) /\ UNCHANGED << submitting, loading >>
    BY <1>7 DEF Served, ServeList, ServeCreate, ServeDelete, Unserved
  <2> QED BY <2>1, ServedOwners
<1>8. ASSUME UNCHANGED << fetch, loading, submitting >> PROVE Owned'
  BY <1>8 DEF Asks, InFlight, Creating
<1>9. ASSUME \/ OpenModal \/ CloseModal \/ AddSelector \/ OthersChange
             \/ \E n \in TypedName : EditSpiffeId(n)
             \/ \E v \in TypedTtl : EditTtl(v)
             \/ \E s \in TypedSelector : EditSelectorInput(s)
             \/ \E i \in DOMAIN formData.selectors : RemoveSelector(i)
             \/ \E s \in Search : SetSearch(s)
             \/ UNCHANGED vars
      PROVE  Owned'
  BY <1>8, <1>9
  DEF OpenModal, CloseModal, AddSelector, OthersChange, EditSpiffeId, EditTtl,
      EditSelectorInput, RemoveSelector, EditForm, SetSearch, vars
<1> QED
  BY <1>1, <1>2, <1>3, <1>4, <1>5, <1>6, <1>7, <1>9
  DEF Next, Operator, Proceeds, Settles

-----------------------------------------------------------------------------
(* The theorems.                                                           *)

LEMMA InvInit == Init => Inv
<1> SUFFICES ASSUME Init PROVE Inv
  OBVIOUS
<1>1. PICK r \in Request :
        fetch = [x \in Request |->
                   IF x = r THEN [at |-> "sent", query |-> ListFor("page", None)]
                            ELSE Idle]
  BY DEF Init
<1> DEFINE q == ListFor("page", None)
<1>2. /\ q \in Query /\ q.kind = "list" /\ q.owner = "page"
  BY DEF Init, ListFor, Query
<1>3. fetch = [x \in Request |->
                 IF x = r THEN [at |-> "sent", query |-> q] ELSE Idle]
  BY <1>1
<1> HIDE DEF q
<1>4. fetch \in [Request -> CallState(Query, Body)]
  BY <1>2, <1>3 DEF CallState
<1>5. { loading, isModalOpen, submitting } \subseteq BOOLEAN
  BY DEF Init
<1>6. TypeOK
  BY <1>4, <1>5, EntriesAssumption DEF Init, TypeOK
<1>7. \A x \in Request : fetch[x].at # "ok" /\ ~ Asks(x, "create")
  BY <1>2, <1>3 DEF Asks, InFlight, Idle
<1>8. CallsInv
  BY <1>7 DEF CallsInv, ListOK, CreateOK
<1>9. Asks(r, "list") /\ \A x \in Request : ~ Creating(x)
  BY <1>2, <1>3 DEF Asks, InFlight, Idle, Creating
<1>10. Owned
  BY <1>9, OwnedMeans DEF Init
<1> QED BY <1>6, <1>8, <1>10 DEF Inv

LEMMA InvNext == Inv /\ [Next]_vars => Inv'
BY TypedNext, OwnedNext DEF Inv, Typed

(***************************************************************************)
(* The page's types, the owners of its busy flags and the agreement of its *)
(* form with CreateEntryRequest, for any number of overlapping loads,      *)
(* creates and deletes.                                                    *)
(***************************************************************************)
THEOREM PageInvariant == Spec => []EntriesInv
<1>1. Inv => EntriesInv
  <2> SUFFICES ASSUME Inv PROVE EntriesInv
    OBVIOUS
  <2>1. Cardinality(CreateInFlight) <= 1
    <3>1. CASE CreateInFlight = {}
      BY <3>1, FS_EmptySet
    <3>2. CASE CreateInFlight # {}
      <4>1. \A x, y \in CreateInFlight : x = y
        BY DEF Inv, Owned
      <4>2. PICK r : r \in CreateInFlight
        BY <3>2
      <4>3. CreateInFlight = {r}
        BY <4>1, <4>2
      <4> QED BY <4>3, FS_Singleton
    <3> QED BY <3>1, <3>2
  <2>2. loading => ListInFlight # {}
    BY DEF Inv, Owned, ListInFlight
  <2>3. submitting <=> CreateInFlight # {}
    <3>1. CreateInFlight \subseteq Request
      BY DEF CreateInFlight
    <3>2. submitting <=> \E r \in Request : r \in CreateInFlight
      BY DEF Inv, Owned
    <3> QED BY <3>1, <3>2
  <2>4. FormAgreesWithSchema
    BY DEF Inv, CallsInv, CreateOK, FormAgreesWithSchema
  <2> QED BY <2>1, <2>2, <2>3, <2>4 DEF Inv, EntriesInv, BusyFlagsHaveOwners
<1>2. Spec => []Inv
  BY InvInit, InvNext, PTL DEF Spec
<1> QED BY <1>1, <1>2, PTL

(***************************************************************************)
(* Of all the steps only loadEntries' own end takes an answered list call  *)
(* away.                                                                   *)
(***************************************************************************)
LEMMA ListEnds ==
  ASSUME Inv, [Next]_vars, NEW r \in Request, Asks(r, "list"), fetch[r].at = "ok",
         fetch'[r] = Idle
  PROVE  LoadSettles(r)
<1> USE DEF server, form, dialog, table, page
<1>1. DOMAIN fetch = Request /\ fetch[r] # Idle
  BY DEF Inv, TypeOK, Asks, InFlight
<1>2. ASSUME NEW x \in Request, NEW q, Send(x, q) \/ ThenSend(x, q) PROVE FALSE
  BY <1>1, <1>2 DEF Send, ThenSend, Idle
<1>3. ASSUME NEW x \in Request, Served(x) PROVE FALSE
  <2>1. (\E b : Answer(x, b)) \/ Throw(x)
    BY <1>3 DEF Served, ServeList, ServeCreate, ServeDelete, Unserved
  <2> QED BY <1>1, <2>1 DEF Answer, Throw, Idle
<1>4. ASSUME NEW x \in Request, Return(x), x # r PROVE FALSE
  BY <1>1, <1>4 DEF Return
<1>5. ASSUME NEW x \in Request, CreateSettles(x) \/ DeleteSettles(x) PROVE FALSE
  <2>1. x # r
    BY <1>5 DEF CreateSettles, DeleteSettles, Asks
  <2>2. (\E q : ThenSend(x, q)) \/ Return(x)
    BY <1>5 DEF CreateSettles, DeleteSettles
  <2> QED BY <1>2, <1>4, <2>1, <2>2
<1>6. ASSUME NEW x \in Request, LoadSettles(x) PROVE x = r
  BY <1>4, <1>6 DEF LoadSettles
<1>7. ASSUME UNCHANGED fetch PROVE FALSE
  BY <1>1, <1>7
<1>8. ASSUME \/ OpenModal \/ CloseModal \/ AddSelector \/ OthersChange
             \/ \E n \in TypedName : EditSpiffeId(n)
             \/ \E v \in TypedTtl : EditTtl(v)
             \/ \E s \in TypedSelector : EditSelectorInput(s)
             \/ \E i \in DOMAIN formData.selectors : RemoveSelector(i)
             \/ \E s \in Search : SetSearch(s)
             \/ UNCHANGED vars
      PROVE  FALSE
  BY <1>7, <1>8
  DEF OpenModal, CloseModal, AddSelector, OthersChange, EditSpiffeId, EditTtl,
      EditSelectorInput, RemoveSelector, EditForm, SetSearch, vars
<1>9. ASSUME NEW x \in Request,
             Refresh(x) \/ handleCreate(x) \/ \E e \in entries : handleDelete(x, e)
      PROVE  FALSE
  BY <1>2, <1>9 DEF Refresh, handleCreate, handleDelete
<1> QED
  BY <1>3, <1>5, <1>6, <1>8, <1>9 DEF Next, Operator, Proceeds, Settles

(***************************************************************************)
(* A load never shows a listing older than the one on display when it was  *)
(* requested.                                                              *)
(***************************************************************************)
THEOREM NoLoadGoesBack == Spec => LoadsMoveForward
<1> DEFINE Forward ==
      \A r \in Request :
        (Asks(r, "list") /\ fetch[r].at = "ok" /\ fetch'[r] = Idle)
          => shown' >= fetch[r].query.floor
<1>1. Inv /\ [Next]_vars => Forward
  <2> SUFFICES ASSUME Inv, [Next]_vars, NEW r \in Request,
                      Asks(r, "list"), fetch[r].at = "ok", fetch'[r] = Idle
               PROVE  shown' >= fetch[r].query.floor
    OBVIOUS
  <2>1. shown' = fetch[r].body.version
    BY ListEnds DEF LoadSettles
  <2>2. ListOK(r) /\ fetch[r].query.kind = "list"
    BY DEF Inv, CallsInv, Asks
  <2>3. fetch[r].query.floor <= fetch[r].body.version
        /\ fetch[r].body.version \in 0..version
    BY <2>2 DEF ListOK, ListBody
  <2>4. fetch[r].query.floor \in 0..version
    <3>1. fetch[r] \in CallState(Query, Body)
      BY DEF Inv, TypeOK
    <3>2. fetch[r].query \in Query
      BY <3>1, CallCases
    <3> QED BY <2>2, <3>2, QueryKinds
  <2>5. version \in Nat
    BY DEF Inv, TypeOK
  <2> QED BY <2>1, <2>3, <2>4, <2>5
<1>2. Spec => []Inv
  BY InvInit, InvNext, PTL DEF Spec
<1> QED BY <1>1, <1>2, PTL DEF Spec, LoadsMoveForward

(***************************************************************************)
(* handleCreate's reload shows the entry it registered, unless somebody    *)
(* has removed it since.                                                   *)
(***************************************************************************)
THEOREM CreatedEntryIsShown == Spec => ReloadShowsCreated
<1> DEFINE Shows ==
      \A r \in Request :
        ( /\ Asks(r, "list") /\ fetch[r].query.owner = "create"
          /\ fetch[r].at = "ok" /\ fetch[r].body.real
          /\ fetch[r].query.wrote # None
          /\ fetch'[r] = Idle )
        => \/ fetch[r].query.wrote \in entries'
           \/ fetch[r].query.wrote \in ever \ store
<1>1. Inv /\ [Next]_vars => Shows
  <2> SUFFICES ASSUME Inv, [Next]_vars, NEW r \in Request,
                      Asks(r, "list"), fetch[r].at = "ok", fetch[r].body.real,
                      fetch[r].query.wrote # None, fetch'[r] = Idle
               PROVE  \/ fetch[r].query.wrote \in entries'
                      \/ fetch[r].query.wrote \in ever \ store
    OBVIOUS
  <2>1. entries' = fetch[r].body.listing
    BY ListEnds DEF LoadSettles
  <2>2. ListOK(r) /\ fetch[r].query.kind = "list"
    BY DEF Inv, CallsInv, Asks
  <2> QED BY <2>1, <2>2 DEF ListOK
<1>2. Spec => []Inv
  BY InvInit, InvNext, PTL DEF Spec
<1> QED BY <1>1, <1>2, PTL DEF Spec, ReloadShowsCreated

=============================================================================
