--------------------------- MODULE OidcPageProofs ---------------------------
(***************************************************************************)
(* Proofs about OidcPage, for any number of overlapping runs of loadOIDC,  *)
(* any keys and any number of pending ticks, and about OverviewPage, for   *)
(* any number of overlapping loads and changes of the world.               *)
(***************************************************************************)
EXTENDS OidcPage, SequenceTheorems, FiniteSetTheorems, TLAPS

Call == Load \X Part

(***************************************************************************)
(* An answer in flight belongs to the run its load is by now: a load is    *)
(* not reused before all its calls have ended.                             *)
(***************************************************************************)
CallsBelong ==
  \A l \in Load, p \in Part :
    /\ At(l, p) # "idle" => run[l] \in 1..runs
    /\ At(l, p) = "ok" => fetch[<< l, p >>].body.run = run[l]

(***************************************************************************)
(* The calls the OIDC provider has still to answer, of which each will add *)
(* two to the counter.                                                     *)
(***************************************************************************)
Unanswered ==
  { r \in Call : r[2] \in { "discovery", "jwks" } /\ fetch[r].at = "sent" }

Counted ==
  oidcRequests \in Nat /\ oidcRequests + 2 * Cardinality(Unanswered) <= 4 * runs

Inv == TypeOK /\ CallsBelong /\ Counted /\ DocumentsFromOneRun /\ FlagsHaveOwners

-----------------------------------------------------------------------------
(* The calls.                                                              *)

CallsTyped ==
  /\ DOMAIN fetch = Call
  /\ \A r \in Call : fetch[r] \in Api!CallState({r[2]}, Document)

LEMMA CallCases ==
  ASSUME CallsTyped, NEW r \in Call
  PROVE  /\ fetch[r].at \in { "idle", "sent", "threw", "ok" }
         /\ fetch[r].at # "idle" => fetch[r].query = r[2]
         /\ fetch[r].at = "ok" => fetch[r].body \in Document
<1>1. fetch[r] \in Api!CallState({r[2]}, Document)
  BY DEF CallsTyped
<1>2. CASE fetch[r] = Api!Idle
  BY <1>2 DEF Api!Idle
<1>3. CASE fetch[r] \in [at : {"sent", "threw"}, query : {r[2]}]
  BY <1>3
<1>4. CASE fetch[r] \in [at : {"ok"}, query : {r[2]}, body : Document]
  BY <1>4
<1> QED BY <1>1, <1>2, <1>3, <1>4 DEF Api!CallState

(***************************************************************************)
(* The two ways a call settles.                                            *)
(***************************************************************************)
LEMMA CallSettles ==
  ASSUME CallsTyped, NEW r \in Call
  PROVE  /\ \A b \in Document : Api!Answer(r, b) =>
              /\ CallsTyped' /\ fetch[r].at = "sent"
              /\ fetch'[r].at = "ok" /\ fetch'[r].body = b
              /\ \A x \in Call \ {r} : fetch'[x] = fetch[x]
         /\ Api!Throw(r) =>
              /\ CallsTyped' /\ fetch[r].at = "sent" /\ fetch'[r].at = "threw"
              /\ \A x \in Call \ {r} : fetch'[x] = fetch[x]
<1>1. ASSUME NEW c, c \in Api!CallState({r[2]}, Document),
             fetch' = [fetch EXCEPT ![r] = c]
      PROVE  /\ CallsTyped' /\ fetch'[r] = c
             /\ \A x \in Call \ {r} : fetch'[x] = fetch[x]
  BY <1>1 DEF CallsTyped
<1>2. ASSUME fetch[r].at = "sent" PROVE fetch[r].query = r[2]
  BY <1>2, CallCases
<1>3. ASSUME NEW b \in Document, Api!Answer(r, b)
      PROVE  /\ CallsTyped' /\ fetch[r].at = "sent"
             /\ fetch'[r].at = "ok" /\ fetch'[r].body = b
             /\ \A x \in Call \ {r} : fetch'[x] = fetch[x]
  <2> DEFINE c == [at |-> "ok", query |-> r[2], body |-> b]
  <2>1. c \in Api!CallState({r[2]}, Document)
    BY DEF Api!CallState
  <2>2. fetch[r].at = "sent" /\ fetch' = [fetch EXCEPT ![r] = c]
    BY <1>2, <1>3 DEF Api!Answer
  <2>3. c.at = "ok" /\ c.body = b
    OBVIOUS
  <2> HIDE DEF c
  <2> QED BY <1>1, <2>1, <2>2, <2>3
<1>4. ASSUME Api!Throw(r)
      PROVE  /\ CallsTyped' /\ fetch[r].at = "sent" /\ fetch'[r].at = "threw"
             /\ \A x \in Call \ {r} : fetch'[x] = fetch[x]
  <2> DEFINE c == [at |-> "threw", query |-> r[2]]
  <2>1. c \in Api!CallState({r[2]}, Document)
    BY DEF Api!CallState
  <2>2. fetch[r].at = "sent" /\ fetch' = [fetch EXCEPT ![r] = c]
    BY <1>2, <1>4 DEF Api!Throw
  <2>3. c.at = "threw"
    OBVIOUS
  <2> HIDE DEF c
  <2> QED BY <1>1, <2>1, <2>2, <2>3
<1> QED BY <1>3, <1>4

(***************************************************************************)
(* The steps that start or free the three calls of a load.                 *)
(***************************************************************************)
LEMMA CallsMove ==
  ASSUME CallsTyped, NEW l \in Load
  PROVE  /\ loadOIDC(l) =>
              /\ CallsTyped'
              /\ \A r \in Call : IF r[1] = l THEN fetch'[r].at = "sent"
                                 ELSE fetch'[r] = fetch[r]
         /\ Drain(l) =>
              /\ CallsTyped'
              /\ \A r \in Call : IF r[1] = l THEN fetch'[r].at = "idle"
                                 ELSE fetch'[r] = fetch[r]
<1>1. ASSUME loadOIDC(l)
      PROVE  /\ CallsTyped'
             /\ \A r \in Call : IF r[1] = l THEN fetch'[r].at = "sent"
                                ELSE fetch'[r] = fetch[r]
  <2>1. fetch' = [r \in Call |->
                    IF r[1] = l THEN [at |-> "sent", query |-> r[2]] ELSE fetch[r]]
    BY <1>1 DEF loadOIDC, Call
  <2> QED BY <2>1 DEF CallsTyped, Api!CallState
<1>2. ASSUME Drain(l)
      PROVE  /\ CallsTyped'
             /\ \A r \in Call : IF r[1] = l THEN fetch'[r].at = "idle"
                                ELSE fetch'[r] = fetch[r]
  <2>1. fetch' = [r \in Call |-> IF r[1] = l THEN Api!Idle ELSE fetch[r]]
    BY <1>2 DEF Drain, Call
  <2> QED BY <2>1 DEF CallsTyped, Api!CallState, Api!Idle
<1> QED BY <1>1, <1>2

(***************************************************************************)
(* What Served does to call (l, p), and to the counter.                    *)
(***************************************************************************)
LEMMA ServedStep ==
  ASSUME CallsTyped, NEW l \in Load, NEW p \in Part, Served(l, p),
         run[l] \in 1..MaxRuns
  PROVE  /\ CallsTyped'
         /\ fetch[<< l, p >>].at = "sent" /\ fetch'[<< l, p >>].at \in { "ok", "threw" }
         /\ fetch'[<< l, p >>].at = "ok" => fetch'[<< l, p >>].body.run = run[l]
         /\ \A x \in Call \ {<< l, p >>} : fetch'[x] = fetch[x]
         /\ IF p \in { "discovery", "jwks" }
            THEN oidcRequests' \in { oidcRequests, oidcRequests + 2 }
            ELSE oidcRequests' = oidcRequests
         /\ UNCHANGED << docs, loading, copiedKey, awaiting, timers, runs, run >>
<1> DEFINE c == << l, p >>
<1>0. c \in Call
  BY DEF Call
<1> HIDE DEF c
<1>1. ASSUME NEW keys \in SUBSET Kid, Api!Answer(c, [run |-> run[l], keys |-> keys])
      PROVE  /\ CallsTyped' /\ fetch[c].at = "sent" /\ fetch'[c].at = "ok"
             /\ fetch'[c].body.run = run[l]
             /\ \A x \in Call \ {c} : fetch'[x] = fetch[x]
  <2> DEFINE b == [run |-> run[l], keys |-> keys]
  <2>1. b \in Document /\ b.run = run[l]
    BY DEF Document
  <2>2. Api!Answer(c, b)
    BY <1>1
  <2> HIDE DEF b
  <2> QED BY <1>0, <2>1, <2>2, CallSettles
<1>2. CASE ServeOidc(l, p)
  <2>1. PICK keys \in SUBSET Kid : Api!Answer(c, [run |-> run[l], keys |-> keys])
    BY <1>2 DEF ServeOidc, Respond, c
  <2>2. p \in { "discovery", "jwks" } /\ oidcRequests' = oidcRequests + 2
        /\ UNCHANGED << docs, loading, copiedKey, awaiting, timers, runs, run >>
    BY <1>2 DEF ServeOidc
  <2> QED BY <1>1, <2>1, <2>2 DEF c
<1>3. CASE p = "bundle" /\ ServeBundle(l)
  <2>1. Api!Answer(c, [run |-> run[l], keys |-> {}])
    BY <1>3 DEF ServeBundle, Respond, c
  <2>2. UNCHANGED << oidcRequests, docs, loading, copiedKey, awaiting, timers, runs, run >>
    BY <1>3 DEF ServeBundle
  <2> QED BY <1>1, <1>3, <2>1, <2>2 DEF c
<1>4. CASE Unreachable(l, p)
  <2>1. Api!Throw(c)
    BY <1>4 DEF Unreachable, c
  <2> QED BY <1>0, <1>4, <2>1, CallSettles DEF Unreachable, c
<1> QED BY <1>2, <1>3, <1>4 DEF Served

-----------------------------------------------------------------------------
(* Types, and the run each call belongs to.                                *)

PageTyped ==
  /\ discoveryDoc \in {Null} \cup Document
  /\ jwks \in {Null} \cup Document /\ bundle \in {Null} \cup Document
  /\ loading \in BOOLEAN /\ copiedKey \in Kid \cup {"bundle", "none"}
  /\ awaiting \subseteq Load /\ timers \in 0..MaxTimers
  /\ runs \in 1..MaxRuns /\ run \in [Load -> 0..MaxRuns]

Typed == CallsTyped /\ PageTyped /\ CallsBelong

LEMMA TypeInit == Init => Typed
<1> SUFFICES ASSUME Init PROVE Typed
  OBVIOUS
<1>1. PICK l \in Load :
        /\ fetch = [r \in Call |->
                      IF r[1] = l THEN [at |-> "sent", query |-> r[2]] ELSE Api!Idle]
        /\ awaiting = {l}
        /\ run = [x \in Load |-> IF x = l THEN 1 ELSE 0]
  BY DEF Init, Call
<1>2. CallsTyped
  BY <1>1 DEF CallsTyped, Api!CallState
<1>3. run \in [Load -> 0..MaxRuns]
  BY <1>1, OidcAssumption
<1>4. PageTyped
  BY <1>1, <1>3, OidcAssumption DEF Init, PageTyped
<1>5. \A x \in Load, p \in Part :
        /\ x # l => At(x, p) = "idle"
        /\ x = l => At(x, p) = "sent"
  BY <1>1 DEF At, Call, Api!Idle
<1>6. CallsBelong
  BY <1>1, <1>5 DEF CallsBelong, Init
<1> QED BY <1>2, <1>4, <1>6 DEF Typed

(***************************************************************************)
(* A call the control plane settles belongs to a run.                      *)
(***************************************************************************)
LEMMA ServedRun ==
  ASSUME Typed, NEW l \in Load, NEW p \in Part, Served(l, p)
  PROVE  At(l, p) = "sent" /\ run[l] \in 1..MaxRuns /\ run[l] \in 1..runs
<1>1. At(l, p) = "sent"
  BY DEF Served, ServeOidc, ServeBundle, Unreachable, Respond, At, Api!Answer,
         Api!Throw
<1>2. run[l] \in 1..runs
  BY <1>1 DEF Typed, CallsBelong
<1>3. runs \in 1..MaxRuns
  BY DEF Typed, PageTyped
<1> QED BY <1>1, <1>2, <1>3, OidcAssumption

LEMMA TypeNext == Typed /\ [Next]_vars => Typed'
<1> SUFFICES ASSUME Typed, [Next]_vars PROVE Typed'
  OBVIOUS
<1> USE DEF docs
<1>a. \A l \in Load, p \in Part : << l, p >> \in Call
  BY DEF Call
<1>b. CallsTyped /\ PageTyped /\ CallsBelong
  BY DEF Typed
<1>1. ASSUME NEW l \in Load, loadOIDC(l) PROVE Typed'
  <2>1. /\ CallsTyped'
        /\ \A r \in Call : IF r[1] = l THEN fetch'[r].at = "sent"
                           ELSE fetch'[r] = fetch[r]
    BY <1>1, <1>b, CallsMove
  <2>2. /\ runs' = runs + 1 /\ runs' \in 1..MaxRuns
        /\ run' = [run EXCEPT ![l] = runs + 1]
        /\ run' \in [Load -> 0..MaxRuns]
    BY <1>1, <1>b, OidcAssumption DEF loadOIDC, PageTyped
  <2>3. PageTyped'
    BY <1>1, <1>b, <2>2 DEF loadOIDC, PageTyped
  <2>4. ASSUME NEW x \in Load, NEW p \in Part
        PROVE  /\ At(x, p)' # "idle" => run'[x] \in 1..runs'
               /\ At(x, p)' = "ok" => fetch'[<< x, p >>].body.run = run'[x]
    <3>1. CASE x = l
      <4>1. At(x, p)' = "sent" /\ run'[x] = runs + 1
        BY <3>1, <1>a, <1>b, <2>1, <2>2 DEF At, PageTyped
      <4> QED BY <4>1, <2>2
    <3>2. CASE x # l
      <4>1. fetch'[<< x, p >>] = fetch[<< x, p >>] /\ run'[x] = run[x]
        BY <3>2, <1>a, <1>b, <2>1, <2>2 DEF PageTyped
      <4>2. 1..runs \subseteq 1..runs'
        BY <2>2, <1>b, OidcAssumption DEF PageTyped
      <4> QED BY <4>1, <4>2, <1>b DEF At, CallsBelong
    <3> QED BY <3>1, <3>2
  <2>5. CallsBelong'
    BY <2>4 DEF CallsBelong
  <2> QED BY <2>1, <2>3, <2>5 DEF Typed
<1>2. ASSUME NEW l \in Load, Drain(l) PROVE Typed'
  <2>1. /\ CallsTyped'
        /\ \A r \in Call : IF r[1] = l THEN fetch'[r].at = "idle"
                           ELSE fetch'[r] = fetch[r]
    BY <1>2, <1>b, CallsMove
  <2>2. PageTyped'
    BY <1>2, <1>b DEF Drain, PageTyped
  <2>3. \A x \in Load, p \in Part :
          \/ fetch'[<< x, p >>].at = "idle"
          \/ fetch'[<< x, p >>] = fetch[<< x, p >>]
    BY <2>1, <1>a
  <2>4. CallsBelong'
    <3>1. ASSUME NEW x \in Load, NEW p \in Part
          PROVE  /\ At(x, p)' # "idle" => run'[x] \in 1..runs'
                 /\ At(x, p)' = "ok" => fetch'[<< x, p >>].body.run = run'[x]
      <4>1. CASE fetch'[<< x, p >>].at = "idle"
        BY <4>1 DEF At
      <4>2. CASE fetch'[<< x, p >>] = fetch[<< x, p >>]
        BY <4>2, <1>2, <1>b DEF Drain, CallsBelong, At
      <4> QED BY <2>3, <4>1, <4>2
    <3> QED BY <3>1 DEF CallsBelong
  <2> QED BY <2>1, <2>2, <2>4 DEF Typed
<1>3. ASSUME NEW l \in Load, NEW p \in Part, Served(l, p) PROVE Typed'
  <2>1. run[l] \in 1..MaxRuns /\ run[l] \in 1..runs
    BY <1>3, ServedRun
  <2>2. /\ CallsTyped'
        /\ fetch'[<< l, p >>].at = "ok" => fetch'[<< l, p >>].body.run = run[l]
        /\ \A x \in Call \ {<< l, p >>} : fetch'[x] = fetch[x]
        /\ UNCHANGED << docs, loading, copiedKey, awaiting, timers, runs, run >>
    BY <1>3, <1>b, <2>1, ServedStep
  <2>3. PageTyped'
    BY <2>2, <1>b DEF PageTyped
  <2>4. CallsBelong'
    <3>1. ASSUME NEW x \in Load, NEW y \in Part
          PROVE  /\ At(x, y)' # "idle" => run'[x] \in 1..runs'
                 /\ At(x, y)' = "ok" => fetch'[<< x, y >>].body.run = run'[x]
      <4>1. CASE << x, y >> = << l, p >>
        BY <4>1, <2>1, <2>2 DEF At
      <4>2. CASE << x, y >> # << l, p >>
        <5>1. fetch'[<< x, y >>] = fetch[<< x, y >>]
          BY <4>2, <1>a, <2>2
        <5> QED BY <5>1, <2>2, <1>b DEF At, CallsBelong
      <4> QED BY <4>1, <4>2
    <3> QED BY <3>1 DEF CallsBelong
  <2> QED BY <2>2, <2>3, <2>4 DEF Typed
<1>4. ASSUME UNCHANGED << fetch, runs, run >>, PageTyped' PROVE Typed'
  BY <1>4, <1>b DEF Typed, CallsTyped, CallsBelong, At
<1>5. ASSUME NEW l \in Load, Resolves(l) PROVE Typed'
  <2>1. \A p \in Part : fetch[<< l, p >>].body \in Document
    BY <1>5, <1>a, <1>b, CallCases DEF Resolves, At
  <2>2. /\ discoveryDoc' \in Document /\ jwks' \in Document /\ bundle' \in Document
    BY <1>5, <2>1 DEF Resolves, Part
  <2>3. PageTyped'
    BY <1>5, <1>b, <2>2 DEF Resolves, Settle, PageTyped
  <2> QED BY <1>4, <1>5, <2>3 DEF Resolves, Settle
<1>6. ASSUME NEW l \in Load, Rejects(l) PROVE Typed'
  <2>1. PageTyped'
    BY <1>6, <1>b DEF Rejects, Settle, PageTyped
  <2> QED BY <1>4, <1>6, <2>1 DEF Rejects, Settle
<1>7. ASSUME NEW id \in Kid \cup {"bundle"}, copyText(id) PROVE Typed'
  <2>1. PageTyped'
    BY <1>7, <1>b, OidcAssumption DEF copyText, PageTyped
  <2> QED BY <1>4, <1>7, <2>1 DEF copyText
<1>8. ASSUME Timeout PROVE Typed'
  <2>1. PageTyped'
    BY <1>8, <1>b, OidcAssumption DEF Timeout, PageTyped
  <2> QED BY <1>4, <1>8, <2>1 DEF Timeout
<1>9. CASE UNCHANGED vars
  <2>1. PageTyped'
    BY <1>9, <1>b DEF vars, PageTyped
  <2> QED BY <1>4, <1>9, <2>1 DEF vars
<1> QED
  BY <1>1, <1>2, <1>3, <1>5, <1>6, <1>7, <1>8, <1>9 DEF Next, Continue

-----------------------------------------------------------------------------
(* The counter.                                                            *)

LEMMA CallsFinite ==
  \A S \in SUBSET Call : IsFiniteSet(S) /\ Cardinality(S) \in Nat
<1>1. IsFiniteSet(Part)
  <2>1. IsFiniteSet({})
    BY FS_EmptySet
  <2>2. IsFiniteSet({} \cup {"discovery"})
    BY <2>1, FS_AddElement
  <2>3. IsFiniteSet(({} \cup {"discovery"}) \cup {"jwks"})
    BY <2>2, FS_AddElement
  <2>4. IsFiniteSet((({} \cup {"discovery"}) \cup {"jwks"}) \cup {"bundle"})
    BY <2>3, FS_AddElement
  <2>5. Part = (({} \cup {"discovery"}) \cup {"jwks"}) \cup {"bundle"}
    BY DEF Part
  <2> QED BY <2>4, <2>5
<1>2. IsFiniteSet(Call)
  BY <1>1, FS_Product, OidcAssumption DEF Call
<1> QED BY <1>2, FS_Subset, FS_CardinalityType

(***************************************************************************)
(* Starting the calls of a load, none of which is under way, adds its two. *)
(***************************************************************************)
LEMMA TwoMore ==
  ASSUME NEW S, NEW T, NEW a, NEW b, IsFiniteSet(S), Cardinality(S) \in Nat,
         a \notin S, b \notin S, a # b, T = (S \cup {a}) \cup {b}
  PROVE  Cardinality(T) = Cardinality(S) + 2
<1>1. IsFiniteSet(S \cup {a}) /\ Cardinality(S \cup {a}) = Cardinality(S) + 1
  BY FS_AddElement
<1>2. b \notin S \cup {a}
  OBVIOUS
<1>3. Cardinality(T) = Cardinality(S \cup {a}) + 1
  BY <1>1, <1>2, FS_AddElement
<1> QED BY <1>1, <1>3

LEMMA CountedInit == Init => Counted
<1> SUFFICES ASSUME Init PROVE Counted
  OBVIOUS
<1>1. PICK l \in Load :
        fetch = [r \in Call |->
                   IF r[1] = l THEN [at |-> "sent", query |-> r[2]] ELSE Api!Idle]
  BY DEF Init, Call
<1>2. \A r \in Call : fetch[r].at = "sent" <=> r[1] = l
  BY <1>1 DEF Api!Idle
<1>3. Unanswered = ({} \cup {<< l, "discovery" >>}) \cup {<< l, "jwks" >>}
  BY <1>2 DEF Unanswered, Call, Part
<1>4. Cardinality(Unanswered) = 2
  <2> DEFINE S == {}
             a == << l, "discovery" >>
             b == << l, "jwks" >>
  <2>1. IsFiniteSet(S) /\ Cardinality(S) = 0
    BY FS_EmptySet
  <2>2. a \notin S /\ b \notin S /\ a # b /\ Unanswered = (S \cup {a}) \cup {b}
    BY <1>3
  <2> HIDE DEF S, a, b
  <2>3. Cardinality(Unanswered) = Cardinality(S) + 2
    BY <2>1, <2>2, TwoMore
  <2> QED BY <2>1, <2>3
<1> QED BY <1>4 DEF Init, Counted

LEMMA CountedNext == Typed /\ Counted /\ [Next]_vars => Counted'
<1> SUFFICES ASSUME Typed, Counted, [Next]_vars PROVE Counted'
  OBVIOUS
<1>a. CallsTyped /\ runs \in Nat /\ oidcRequests \in Nat
  BY OidcAssumption DEF Typed, PageTyped, Counted
<1>b. /\ IsFiniteSet(Unanswered) /\ Cardinality(Unanswered) \in Nat
      /\ Cardinality(Unanswered') \in Nat
  <2>1. Unanswered \subseteq Call /\ Unanswered' \subseteq Call
    BY DEF Unanswered
  <2> QED BY <2>1, CallsFinite
<1>c. \A l \in Load, p \in Part : << l, p >> \in Call
  BY DEF Call
<1>1. ASSUME NEW l \in Load, loadOIDC(l) PROVE Counted'
  <2>1. \A r \in Call : IF r[1] = l THEN fetch'[r].at = "sent"
                        ELSE fetch'[r] = fetch[r]
    BY <1>1, <1>a, CallsMove
  <2>2. \A p \in Part : fetch[<< l, p >>].at = "idle"
    BY <1>1 DEF loadOIDC, At
  <2> DEFINE a == << l, "discovery" >>
             b == << l, "jwks" >>
  <2>3. /\ a \in Call /\ a[1] = l /\ a[2] = "discovery" /\ fetch[a].at = "idle"
        /\ b \in Call /\ b[1] = l /\ b[2] = "jwks" /\ fetch[b].at = "idle"
        /\ a # b
    BY <1>c, <2>2 DEF Part
  <2>4. \A r \in Call : r[1] = l /\ r[2] \in { "discovery", "jwks" } => r \in {a, b}
    BY DEF Call
  <2> HIDE DEF a, b
  <2>5. a \notin Unanswered /\ b \notin Unanswered
    BY <2>3 DEF Unanswered
  <2>6. Unanswered' = (Unanswered \cup {a}) \cup {b}
    BY <2>1, <2>3, <2>4 DEF Unanswered
  <2>7. Cardinality(Unanswered') = Cardinality(Unanswered) + 2
    BY <1>b, <2>3, <2>5, <2>6, TwoMore
  <2> QED BY <1>1, <1>a, <1>b, <2>7 DEF loadOIDC, Counted
<1>2. ASSUME Unanswered' = Unanswered, UNCHANGED << oidcRequests, runs >>
      PROVE  Counted'
  BY <1>2 DEF Counted
<1>3. ASSUME NEW l \in Load, Drain(l) PROVE Counted'
  <2>1. \A r \in Call : IF r[1] = l THEN fetch'[r].at = "idle"
                        ELSE fetch'[r] = fetch[r]
    BY <1>3, <1>a, CallsMove
  <2>2. \A r \in Call : r[1] = l => fetch[r].at \in {"ok", "threw"}
    <3>1. \A p \in Part : fetch[<< l, p >>].at \in {"ok", "threw"}
      BY <1>3 DEF Drain, At
    <3>2. \A r \in Call : r = << r[1], r[2] >> /\ r[2] \in Part
      BY DEF Call
    <3> QED BY <3>1, <3>2
  <2>3. Unanswered' = Unanswered
    BY <2>1, <2>2 DEF Unanswered
  <2> QED BY <1>2, <1>3, <2>3 DEF Drain
<1>4. ASSUME NEW l \in Load, NEW p \in Part, Served(l, p) PROVE Counted'
  <2> DEFINE c == << l, p >>
  <2>1. c \in Call /\ c[2] = p
    BY <1>c
  <2>2. /\ fetch[c].at = "sent" /\ fetch'[c].at # "sent"
        /\ \A x \in Call \ {c} : fetch'[x] = fetch[x]
        /\ IF p \in { "discovery", "jwks" }
           THEN oidcRequests' \in { oidcRequests, oidcRequests + 2 }
           ELSE oidcRequests' = oidcRequests
        /\ runs' = runs
    BY <1>4, <1>a, ServedRun, ServedStep
  <2> HIDE DEF c
  <2>3. CASE p \in { "discovery", "jwks" }
    <3>1. c \in Unanswered
      BY <2>1, <2>2, <2>3 DEF Unanswered
    <3>2. Unanswered' = Unanswered \ {c}
      BY <2>1, <2>2 DEF Unanswered
    <3>3. Cardinality(Unanswered') = Cardinality(Unanswered) - 1
      BY <1>b, <3>1, <3>2, FS_RemoveElement
    <3> QED BY <1>a, <1>b, <2>2, <2>3, <3>3 DEF Counted
  <2>4. CASE p \notin { "discovery", "jwks" }
    <3>1. Unanswered' = Unanswered
      BY <2>1, <2>2, <2>4 DEF Unanswered
    <3> QED BY <1>2, <2>2, <2>4, <3>1
  <2> QED BY <2>3, <2>4
<1>5. ASSUME UNCHANGED << fetch, oidcRequests, runs >> PROVE Counted'
  BY <1>2, <1>5 DEF Unanswered
<1>6. ASSUME \/ \E l \in Load : Resolves(l) \/ Rejects(l)
             \/ \E id \in Kid \cup {"bundle"} : copyText(id)
             \/ Timeout \/ UNCHANGED vars
      PROVE  Counted'
  BY <1>5, <1>6 DEF Resolves, Rejects, Settle, copyText, Timeout, vars
<1> QED
  BY <1>1, <1>3, <1>4, <1>6 DEF Next, Continue

-----------------------------------------------------------------------------
(* The documents and the flags.                                            *)

LEMMA OneRunNext ==
  Typed /\ DocumentsFromOneRun /\ [Next]_vars => DocumentsFromOneRun'
<1> SUFFICES ASSUME Typed, DocumentsFromOneRun, [Next]_vars
             PROVE  DocumentsFromOneRun'
  OBVIOUS
<1>1. ASSUME NEW l \in Load, Resolves(l) PROVE DocumentsFromOneRun'
  <2>1. \A p \in Part : fetch[<< l, p >>].body.run = run[l]
    BY <1>1 DEF Resolves, At, Typed, CallsBelong
  <2> QED BY <1>1, <2>1 DEF Resolves, Part, DocumentsFromOneRun
<1>2. ASSUME UNCHANGED docs PROVE DocumentsFromOneRun'
  BY <1>2 DEF docs, DocumentsFromOneRun
<1>3. ASSUME NEW l \in Load, NEW p \in Part, Served(l, p) PROVE UNCHANGED docs
  BY <1>3 DEF Served, ServeOidc, ServeBundle, Unreachable, docs
<1> QED
  BY <1>1, <1>2, <1>3
  DEF Next, Continue, loadOIDC, Rejects, Drain, copyText, Timeout, vars, docs

LEMMA FlagsNext ==
  Typed /\ FlagsHaveOwners /\ [Next]_vars => FlagsHaveOwners'
<1> SUFFICES ASSUME Typed, FlagsHaveOwners, [Next]_vars PROVE FlagsHaveOwners'
  OBVIOUS
<1>1. ASSUME NEW l \in Load, NEW p \in Part, Served(l, p)
      PROVE  UNCHANGED << loading, awaiting, copiedKey, timers >>
  BY <1>1 DEF Served, ServeOidc, ServeBundle, Unreachable
<1>2. ASSUME NEW l \in Load, loadOIDC(l) \/ Resolves(l) \/ Rejects(l)
      PROVE  FlagsHaveOwners'
  BY <1>2 DEF loadOIDC, Resolves, Rejects, Settle, FlagsHaveOwners
<1>3. ASSUME NEW id \in Kid \cup {"bundle"}, copyText(id) PROVE FlagsHaveOwners'
  <2>1. timers' > 0
    BY <1>3, OidcAssumption DEF copyText, Typed, PageTyped
  <2> QED BY <1>3, <2>1 DEF copyText, FlagsHaveOwners
<1>4. ASSUME Timeout PROVE FlagsHaveOwners'
  BY <1>4 DEF Timeout, FlagsHaveOwners
<1>5. ASSUME UNCHANGED << loading, awaiting, copiedKey, timers >>
      PROVE  FlagsHaveOwners'
  BY <1>5 DEF FlagsHaveOwners
<1> QED
  BY <1>1, <1>2, <1>3, <1>4, <1>5 DEF Next, Continue, Drain, vars

-----------------------------------------------------------------------------
(* The theorems.                                                           *)

LEMMA InvTypes == Inv <=> /\ Typed /\ Counted /\ DocumentsFromOneRun /\ FlagsHaveOwners
<1>1. TypeOK <=> CallsTyped /\ PageTyped /\ oidcRequests \in 0 .. 4 * runs
  BY DEF TypeOK, CallsTyped, PageTyped, Call
<1>2. ASSUME Counted, PageTyped PROVE oidcRequests \in 0 .. 4 * runs
  <2>1. Cardinality(Unanswered) \in Nat
    <3>1. Unanswered \subseteq Call
      BY DEF Unanswered
    <3> QED BY <3>1, CallsFinite
  <2> QED BY <1>2, <2>1, OidcAssumption DEF Counted, PageTyped
<1> QED BY <1>1, <1>2 DEF Inv, Typed

LEMMA InvInit == Init => Inv
<1> SUFFICES ASSUME Init PROVE Inv
  OBVIOUS
<1>1. DocumentsFromOneRun /\ FlagsHaveOwners
  BY DEF Init, DocumentsFromOneRun, FlagsHaveOwners
<1> QED BY <1>1, TypeInit, CountedInit, InvTypes

LEMMA InvNext == Inv /\ [Next]_vars => Inv'
<1> SUFFICES ASSUME Inv, [Next]_vars PROVE Inv'
  OBVIOUS
<1>1. Typed /\ Counted /\ DocumentsFromOneRun /\ FlagsHaveOwners
  BY InvTypes
<1>2. Typed' /\ Counted' /\ DocumentsFromOneRun' /\ FlagsHaveOwners'
  BY <1>1, TypeNext, CountedNext, OneRunNext, FlagsNext
<1>3. Inv' <=> Typed' /\ Counted' /\ DocumentsFromOneRun' /\ FlagsHaveOwners'
  BY InvTypes, PTL
<1> QED BY <1>2, <1>3

(***************************************************************************)
(* The page's types, the bound on the requests counter, which is           *)
(* incremented twice for each document asked of the provider, and the      *)
(* owners of the two flags.                                                *)
(***************************************************************************)
THEOREM PageInvariant == Spec => []OidcInv
<1>1. Inv => OidcInv
  BY DEF Inv, OidcInv
<1> QED BY <1>1, InvInit, InvNext, PTL DEF Spec

(***************************************************************************)
(* The three documents on display come from one run of loadOIDC, however   *)
(* many overlap and whichever of their calls fail.                         *)
(***************************************************************************)
THEOREM RunsNeverMix == Spec => []DocumentsFromOneRun
<1>1. Inv => DocumentsFromOneRun
  BY DEF Inv
<1> QED BY <1>1, InvInit, InvNext, PTL DEF Spec

(***************************************************************************)
(* No failed or late run takes a document off the page.                    *)
(***************************************************************************)
THEOREM DocumentsRemain == Spec => DocumentsStay
<1> DEFINE Stay == DiscoveryView = "document" => DiscoveryView' = "document"
<1>1. Inv /\ [Next]_vars => Stay
  <2> SUFFICES ASSUME Inv, [Next]_vars, discoveryDoc # Null
               PROVE  discoveryDoc' # Null
    BY DEF DiscoveryView
  <2>1. ASSUME NEW l \in Load, Resolves(l) PROVE discoveryDoc' # Null
    <3>1. << l, "discovery" >> \in Call /\ fetch[<< l, "discovery" >>].at = "ok"
      BY <2>1 DEF Resolves, At, Call, Part
    <3>2. discoveryDoc' \in Document
      BY <2>1, <3>1, CallCases, InvTypes DEF Resolves, Typed
    <3> QED BY <3>2 DEF Document, Null
  <2>2. ASSUME NEW l \in Load, NEW p \in Part, Served(l, p) PROVE UNCHANGED docs
    BY <2>2 DEF Served, ServeOidc, ServeBundle, Unreachable, docs
  <2> QED
    BY <2>1, <2>2
    DEF Next, Continue, loadOIDC, Rejects, Drain, copyText, Timeout, vars, docs
<1> QED BY <1>1, InvInit, InvNext, PTL DEF Spec, DocumentsStay

-----------------------------------------------------------------------------
(* The overview page, the other page whose loads await a set of calls.     *)

CONSTANTS Count, Clicked, MaxChanges

VARIABLES
  server, entries, agents, oidc, events, api, changes, route,
  mounted, overview, recentLogs, error, selectedNode, mine

Overview == INSTANCE OverviewPage

(***************************************************************************)
(* The answers of get_overview, which all add up, and so does the built-in *)
(* one.                                                                    *)
(***************************************************************************)
Sound ==
  { s \in Overview!OverviewSummary :
      s.active_svids = s.workload_entries_count + s.spire_agent_count }

LoadTypes ==
  /\ DOMAIN fetch = Load \X Overview!Part
  /\ \A l \in Load :
       /\ fetch[<< l, "overview" >>] \in Overview!Api!CallState({"overview"}, Sound)
       /\ fetch[<< l, "logs" >>] \in Overview!Api!CallState({"logs"}, 0..events)

(***************************************************************************)
(* What get_overview has read for a load.                                  *)
(***************************************************************************)
Reads ==
  { s \in Seq(BOOLEAN \cup Nat) :
      /\ Len(s) <= 3
      /\ 1 \in DOMAIN s => s[1] \in BOOLEAN
      /\ 2 \in DOMAIN s => s[2] \in Nat
      /\ 3 \in DOMAIN s => s[3] \in Nat }

RouteTypes == route \in [Load -> Reads]

WorldTypes ==
  /\ server \in {"up", "crashed", "down"}
  /\ entries \in Count /\ agents \in Count
  /\ oidc \in BOOLEAN /\ api \in BOOLEAN
  /\ events \in Nat /\ changes \in 0..MaxChanges

ViewTypes ==
  /\ loading \in BOOLEAN /\ error \in BOOLEAN
  /\ overview \in {Overview!Null} \cup Sound
  /\ recentLogs \in 0..events
  /\ selectedNode \in Overview!Node
  /\ mine \subseteq Load

IntervalOfPage == mounted \in BOOLEAN /\ timers = IF mounted THEN 1 ELSE 0

OvInv == LoadTypes /\ RouteTypes /\ WorldTypes /\ ViewTypes /\ IntervalOfPage

(***************************************************************************)
(* What OverviewPage assumes of its constants.                             *)
(***************************************************************************)
WorldBounds ==
  /\ Count \subseteq Nat /\ 0 \in Count
  /\ Clicked \subseteq {"server", "agent", "backend", "client", "oidc"}
  /\ MaxChanges \in Nat

(***************************************************************************)
(* What get_overview answers adds up, and so does the built-in answer.     *)
(***************************************************************************)
LEMMA SummarySound ==
  /\ \A h \in BOOLEAN, e \in Nat, a \in Nat, o \in BOOLEAN :
       Overview!Summary(h, e, a, o) \in Sound
  /\ Overview!Fallback \in Sound
<1>1. ASSUME NEW h \in BOOLEAN, NEW e \in Nat, NEW a \in Nat, NEW o \in BOOLEAN
      PROVE  Overview!Summary(h, e, a, o) \in Sound
  <2>1. e + a \in Nat
    OBVIOUS
  <2> QED BY <2>1 DEF Overview!Summary, Sound, Overview!OverviewSummary
<1>2. Overview!Fallback \in Sound
  <2> DEFINE f == [spire_server_healthy |-> TRUE, workload_entries_count |-> 2,
                   spire_agent_count |-> 1, oidc_healthy |-> TRUE,
                   backend_api_healthy |-> TRUE, active_svids |-> 3]
  <2>1. Overview!Fallback = f
    BY DEF Overview!Fallback, Overview!Summary
  <2>2. f \in Overview!OverviewSummary
    BY DEF Overview!OverviewSummary
  <2>3. f.active_svids = f.workload_entries_count + f.spire_agent_count
    OBVIOUS
  <2> HIDE DEF f
  <2> QED BY <2>1, <2>2, <2>3 DEF Sound
<1> QED BY <1>1, <1>2

(***************************************************************************)
(* One more read.                                                          *)
(***************************************************************************)
LEMMA ReadStep ==
  ASSUME WorldBounds, WorldTypes, NEW got \in Reads, Len(got) < 3
  PROVE  Append(got, << Overview!ReadHealth, Overview!ReadEntries,
                        Overview!ReadAgents >>[Len(got) + 1]) \in Reads
<1> DEFINE S == BOOLEAN \cup Nat
           v == << Overview!ReadHealth, Overview!ReadEntries,
                   Overview!ReadAgents >>[Len(got) + 1]
<1>1. /\ Overview!ReadHealth \in BOOLEAN
      /\ Overview!ReadEntries \in Nat /\ Overview!ReadAgents \in Nat
  BY DEF WorldBounds, WorldTypes, Overview!ReadHealth, Overview!ReadEntries,
         Overview!ReadAgents
<1>2. got \in Seq(S)
  BY DEF Reads
<1>b. Len(got) = 0 \/ Len(got) = 1 \/ Len(got) = 2
  <2>1. Len(got) \in Nat
    BY <1>2, LenProperties
  <2>2. \A n \in Nat : n < 3 => n = 0 \/ n = 1 \/ n = 2
    OBVIOUS
  <2> QED BY <2>1, <2>2
<1>3. /\ Len(got) = 0 => v = Overview!ReadHealth
      /\ Len(got) = 1 => v = Overview!ReadEntries
      /\ Len(got) = 2 => v = Overview!ReadAgents
  <2>1. \A a, b, c : /\ << a, b, c >>[0 + 1] = a
                     /\ << a, b, c >>[1 + 1] = b
                     /\ << a, b, c >>[2 + 1] = c
    OBVIOUS
  <2>2. CASE Len(got) = 0
    BY <2>1, <2>2
  <2>3. CASE Len(got) = 1
    BY <2>1, <2>3
  <2>4. CASE Len(got) = 2
    BY <2>1, <2>4
  <2> QED BY <1>b, <2>2, <2>3, <2>4
<1>4. v \in S
  BY <1>1, <1>b, <1>3
<1> HIDE DEF v
<1>5. /\ Append(got, v) \in Seq(S) /\ Len(Append(got, v)) = Len(got) + 1
      /\ \A j \in 1..Len(got) : Append(got, v)[j] = got[j]
      /\ Append(got, v)[Len(got) + 1] = v
  BY <1>2, <1>4, AppendProperties
<1>6. DOMAIN got = 1..Len(got) /\ DOMAIN Append(got, v) = 1..(Len(got) + 1)
  BY <1>2, <1>5
<1>7. /\ 1 \in DOMAIN got => got[1] \in BOOLEAN
      /\ 2 \in DOMAIN got => got[2] \in Nat
  BY DEF Reads
<1> DEFINE w == Append(got, v)
<1>8. /\ Len(w) <= 3
      /\ 1 \in DOMAIN w => IF Len(got) = 0 THEN w[1] = v
                           ELSE 1 \in DOMAIN got /\ w[1] = got[1]
      /\ 2 \in DOMAIN w => IF Len(got) = 1 THEN w[2] = v
                           ELSE 2 \in DOMAIN got /\ w[2] = got[2]
      /\ 3 \in DOMAIN w => Len(got) = 2 /\ w[3] = v
  <2>1. CASE Len(got) = 0
    BY <1>5, <1>6, <2>1
  <2>2. CASE Len(got) = 1
    BY <1>5, <1>6, <2>2
  <2>3. CASE Len(got) = 2
    BY <1>5, <1>6, <2>3
  <2> QED BY <1>b, <2>1, <2>2, <2>3
<1> HIDE DEF w
<1>9. /\ 1 \in DOMAIN w => w[1] \in BOOLEAN
      /\ 2 \in DOMAIN w => w[2] \in Nat
      /\ 3 \in DOMAIN w => w[3] \in Nat
  BY <1>1, <1>3, <1>7, <1>8
<1>10. Append(got, v) \in Reads
  BY <1>5, <1>8, <1>9 DEF Reads, w
<1> QED BY <1>10 DEF v

(***************************************************************************)
(* What is known of a call by where it is.                                 *)
(***************************************************************************)
LEMMA LoadCases ==
  ASSUME LoadTypes, NEW l \in Load
  PROVE  /\ fetch[<< l, "overview" >>].at = "ok" =>
              fetch[<< l, "overview" >>].body \in Sound
         /\ fetch[<< l, "overview" >>].at = "sent" =>
              fetch[<< l, "overview" >>].query = "overview"
         /\ fetch[<< l, "logs" >>].at = "ok" =>
              fetch[<< l, "logs" >>].body \in 0..events
         /\ fetch[<< l, "logs" >>].at = "sent" =>
              fetch[<< l, "logs" >>].query = "logs"
<1>1. fetch[<< l, "overview" >>] \in Overview!Api!CallState({"overview"}, Sound)
  BY DEF LoadTypes
<1>2. fetch[<< l, "logs" >>] \in Overview!Api!CallState({"logs"}, 0..events)
  BY DEF LoadTypes
<1>3. ASSUME NEW q, NEW B, NEW c \in Overview!Api!CallState({q}, B)
      PROVE  (c.at = "ok" => c.body \in B) /\ (c.at = "sent" => c.query = q)
  BY <1>3 DEF Overview!Api!CallState, Overview!Api!Idle
<1> QED BY <1>1, <1>2, <1>3

(***************************************************************************)
(* A call settles, or the two calls of a load are sent or freed.           *)
(***************************************************************************)
LEMMA LoadSteps ==
  ASSUME LoadTypes, NEW l \in Load, UNCHANGED events
  PROVE  /\ \A b \in Sound : Overview!Api!Answer(<< l, "overview" >>, b) => LoadTypes'
         /\ \A b \in 0..events : Overview!Api!Answer(<< l, "logs" >>, b) => LoadTypes'
         /\ \A p \in Overview!Part : Overview!Api!Throw(<< l, p >>) => LoadTypes'
         /\ Overview!StartLoad(l) => LoadTypes'
         /\ Overview!LoadSettles(l) => LoadTypes'
<1> USE DEF Overview!Part
<1>a. /\ \A x \in Load : /\ << x, "overview" >> \in Load \X Overview!Part
                         /\ << x, "logs" >> \in Load \X Overview!Part
      /\ \A x, y \in Load : << x, "overview" >> # << y, "logs" >>
      /\ \A x, y \in Load : x # y =>
           << x, "overview" >> # << y, "overview" >> /\ << x, "logs" >> # << y, "logs" >>
  OBVIOUS
<1>1. ASSUME NEW c \in Overview!Api!CallState({"overview"}, Sound),
             fetch' = [fetch EXCEPT ![<< l, "overview" >>] = c]
      PROVE  LoadTypes'
  BY <1>1, <1>a DEF LoadTypes
<1>2. ASSUME NEW c \in Overview!Api!CallState({"logs"}, 0..events),
             fetch' = [fetch EXCEPT ![<< l, "logs" >>] = c]
      PROVE  LoadTypes'
  BY <1>2, <1>a DEF LoadTypes
<1>3. ASSUME NEW b \in Sound, Overview!Api!Answer(<< l, "overview" >>, b)
      PROVE  LoadTypes'
  <2> DEFINE c == [at |-> "ok", query |-> "overview", body |-> b]
  <2>1. c \in Overview!Api!CallState({"overview"}, Sound)
    BY DEF Overview!Api!CallState
  <2>2. fetch' = [fetch EXCEPT ![<< l, "overview" >>] = c]
    BY <1>3, LoadCases DEF Overview!Api!Answer
  <2> HIDE DEF c
  <2> QED BY <1>1, <2>1, <2>2
<1>4. ASSUME NEW b \in 0..events, Overview!Api!Answer(<< l, "logs" >>, b)
      PROVE  LoadTypes'
  <2> DEFINE c == [at |-> "ok", query |-> "logs", body |-> b]
  <2>1. c \in Overview!Api!CallState({"logs"}, 0..events)
    BY DEF Overview!Api!CallState
  <2>2. fetch' = [fetch EXCEPT ![<< l, "logs" >>] = c]
    BY <1>4, LoadCases DEF Overview!Api!Answer
  <2> HIDE DEF c
  <2> QED BY <1>2, <2>1, <2>2
<1>5. ASSUME NEW p \in Overview!Part, Overview!Api!Throw(<< l, p >>)
      PROVE  LoadTypes'
  <2> DEFINE c == [at |-> "threw", query |-> p]
  <2>1. CASE p = "overview"
    <3>1. c \in Overview!Api!CallState({"overview"}, Sound)
      BY <2>1 DEF Overview!Api!CallState
    <3>2. fetch' = [fetch EXCEPT ![<< l, "overview" >>] = c]
      BY <1>5, <2>1, LoadCases DEF Overview!Api!Throw
    <3> HIDE DEF c
    <3> QED BY <1>1, <3>1, <3>2
  <2>2. CASE p = "logs"
    <3>1. c \in Overview!Api!CallState({"logs"}, 0..events)
      BY <2>2 DEF Overview!Api!CallState
    <3>2. fetch' = [fetch EXCEPT ![<< l, "logs" >>] = c]
      BY <1>5, <2>2, LoadCases DEF Overview!Api!Throw
    <3> HIDE DEF c
    <3> QED BY <1>2, <3>1, <3>2
  <2> QED BY <2>1, <2>2
<1>6. ASSUME Overview!StartLoad(l) PROVE LoadTypes'
  <2>1. fetch' = [r \in Load \X Overview!Part |->
                    IF r[1] = l THEN [at |-> "sent", query |-> r[2]] ELSE fetch[r]]
    BY <1>6 DEF Overview!StartLoad
  <2>2. /\ [at |-> "sent", query |-> "overview"]
              \in Overview!Api!CallState({"overview"}, Sound)
        /\ [at |-> "sent", query |-> "logs"]
              \in Overview!Api!CallState({"logs"}, 0..events)
    BY DEF Overview!Api!CallState
  <2> QED BY <1>a, <2>1, <2>2 DEF LoadTypes
<1>7. ASSUME Overview!LoadSettles(l) PROVE LoadTypes'
  <2>1. fetch' = [r \in Load \X Overview!Part |->
                    IF r[1] = l THEN Overview!Api!Idle ELSE fetch[r]]
    BY <1>7 DEF Overview!LoadSettles
  <2>2. /\ Overview!Api!Idle \in Overview!Api!CallState({"overview"}, Sound)
        /\ Overview!Api!Idle \in Overview!Api!CallState({"logs"}, 0..events)
    BY DEF Overview!Api!CallState
  <2> QED BY <1>a, <2>1, <2>2 DEF LoadTypes
<1> QED BY <1>3, <1>4, <1>5, <1>6, <1>7

LEMMA OvInit == WorldBounds /\ Overview!Init => OvInv
<1> SUFFICES ASSUME WorldBounds, Overview!Init PROVE OvInv
  OBVIOUS
<1>1. LoadTypes
  BY DEF Overview!Init, LoadTypes, Overview!Part, Overview!Api!CallState
<1>2. RouteTypes
  <2>1. Overview!NotRead \in Reads
    BY DEF Overview!NotRead, Reads
  <2> QED BY <2>1 DEF Overview!Init, RouteTypes
<1>3. WorldTypes
  BY DEF Overview!Init, WorldTypes, WorldBounds
<1>4. ViewTypes
  <2>1. recentLogs \in 0..events
    BY DEF Overview!Init
  <2> QED BY <2>1 DEF Overview!Init, ViewTypes, Overview!Node
<1>5. IntervalOfPage
  BY DEF Overview!Init, IntervalOfPage
<1> QED BY <1>1, <1>2, <1>3, <1>4, <1>5 DEF OvInv

(***************************************************************************)
(* The page's own steps.                                                   *)
(***************************************************************************)
LEMMA PageSteps ==
  ASSUME WorldBounds, OvInv, NEW l \in Load,
         Overview!Mount(l) \/ Overview!Tick(l) \/ Overview!onRefresh(l)
  PROVE  OvInv'
<1>1. /\ Overview!StartLoad(l)
      /\ UNCHANGED << Overview!world, route >>
  BY DEF Overview!Mount, Overview!Tick, Overview!onRefresh
<1>2. UNCHANGED << server, entries, agents, oidc, events, api, changes, route >>
  BY <1>1 DEF Overview!world
<1>3. LoadTypes'
  BY <1>1, <1>2, LoadSteps DEF OvInv
<1>4. RouteTypes' /\ WorldTypes'
  BY <1>2 DEF OvInv, RouteTypes, WorldTypes
<1>5. loading' \in BOOLEAN /\ error' \in BOOLEAN /\ mine' \subseteq Load
  BY <1>1 DEF Overview!StartLoad, OvInv, ViewTypes
<1>6. overview' \in {Overview!Null} \cup Sound
  BY DEF Overview!Mount, Overview!Tick, Overview!onRefresh, OvInv, ViewTypes
<1>7. recentLogs' \in 0..events
  BY DEF Overview!Mount, Overview!Tick, Overview!onRefresh, OvInv, ViewTypes, WorldTypes
<1>8. selectedNode' \in Overview!Node
  BY DEF Overview!Mount, Overview!Tick, Overview!onRefresh, OvInv, ViewTypes, Overview!Node
<1>9. IntervalOfPage'
  <2>1. CASE Overview!Mount(l)
    <3>1. timers = 0
      BY <2>1 DEF Overview!Mount, OvInv, IntervalOfPage
    <3>2. timers' = timers + 1
      BY <2>1 DEF Overview!Mount
    <3>3. timers' = 1
      BY <3>1, <3>2
    <3>4. mounted' = TRUE
      BY <2>1 DEF Overview!Mount
    <3> QED BY <3>3, <3>4 DEF IntervalOfPage
  <2>2. CASE UNCHANGED << mounted, timers >>
    BY <2>2 DEF OvInv, IntervalOfPage
  <2> QED BY <2>1, <2>2 DEF Overview!Tick, Overview!onRefresh
<1> QED BY <1>2, <1>3, <1>4, <1>5, <1>6, <1>7, <1>8, <1>9 DEF OvInv, ViewTypes

(***************************************************************************)
(* The steps of the control plane, and the end of a load.                  *)
(***************************************************************************)
LEMMA SettleSteps ==
  ASSUME WorldBounds, OvInv, NEW l \in Load, Overview!Settle(l) PROVE OvInv'
<1>a. LoadTypes /\ RouteTypes /\ WorldTypes /\ ViewTypes /\ IntervalOfPage
  BY DEF OvInv
<1>1. CASE Overview!LoadSettles(l)
  <2>1. UNCHANGED << server, entries, agents, oidc, events, api, changes, route,
                     mounted, error, selectedNode, timers >>
    BY <1>1 DEF Overview!LoadSettles, Overview!world
  <2>2. LoadTypes'
    BY <1>a, <1>1, <2>1, LoadSteps
  <2>3. RouteTypes' /\ WorldTypes' /\ IntervalOfPage'
    BY <1>a, <2>1 DEF RouteTypes, WorldTypes, IntervalOfPage
  <2>4. overview' \in {Overview!Null} \cup Sound
    BY <1>a, <1>1, LoadCases, SummarySound
       DEF Overview!LoadSettles, Overview!ResultOf, ViewTypes
  <2>5. recentLogs' \in 0..events
    <3>1. 0 \in 0..events
      BY <1>a DEF WorldTypes
    <3> QED BY <1>a, <1>1, <3>1, LoadCases DEF Overview!LoadSettles, Overview!ResultOf, ViewTypes
  <2>6. loading' \in BOOLEAN /\ mine' \subseteq Load
    BY <1>a, <1>1 DEF Overview!LoadSettles, ViewTypes
  <2>7. ViewTypes'
    BY <1>a, <2>1, <2>4, <2>5, <2>6 DEF ViewTypes
  <2> QED BY <2>2, <2>3, <2>7 DEF OvInv
<1>b. ASSUME UNCHANGED << server, entries, agents, oidc, events, api, changes,
                          mounted, overview, recentLogs, loading, error,
                          selectedNode, timers, mine >>,
             LoadTypes', RouteTypes'
      PROVE  OvInv'
  BY <1>a, <1>b DEF OvInv, WorldTypes, ViewTypes, IntervalOfPage
<1>2. CASE Overview!ServeOverview(l)
  <2> DEFINE got == route[l]
  <2>1. UNCHANGED << server, entries, agents, oidc, events, api, changes,
                     mounted, overview, recentLogs, loading, error,
                     selectedNode, timers, mine >>
    BY <1>2 DEF Overview!ServeOverview, Overview!world, Overview!view
  <2>2. got \in Reads
    BY <1>a DEF RouteTypes
  <2>3. CASE Len(got) < 3
    <3>1. /\ UNCHANGED fetch
          /\ route' = [route EXCEPT ![l] = Append(got,
                        << Overview!ReadHealth, Overview!ReadEntries,
                           Overview!ReadAgents >>[Len(got) + 1])]
      BY <1>2, <2>3 DEF Overview!ServeOverview
    <3>2. LoadTypes'
      BY <1>a, <2>1, <3>1 DEF LoadTypes
    <3>3. RouteTypes'
      BY <1>a, <2>2, <2>3, <3>1, ReadStep DEF RouteTypes
    <3> QED BY <1>b, <2>1, <3>2, <3>3
  <2>4. CASE ~ (Len(got) < 3)
    <3> DEFINE b == Overview!Summary(got[1], got[2], got[3], oidc)
    <3>1. /\ Overview!Api!Answer(<< l, "overview" >>, b)
          /\ route' = [route EXCEPT ![l] = Overview!NotRead]
      BY <1>2, <2>4 DEF Overview!ServeOverview
    <3>2. got[1] \in BOOLEAN /\ got[2] \in Nat /\ got[3] \in Nat
      <4>1. DOMAIN got = 1..3
        BY <2>2, <2>4 DEF Reads
      <4> QED BY <2>2, <4>1 DEF Reads
    <3>3. b \in Sound
      BY <1>a, <3>2, SummarySound DEF WorldTypes
    <3> HIDE DEF b
    <3>4. LoadTypes'
      BY <1>a, <2>1, <3>1, <3>3, LoadSteps
    <3>5. Overview!NotRead \in Reads
      BY DEF Overview!NotRead, Reads
    <3>6. RouteTypes'
      BY <1>a, <3>1, <3>5 DEF RouteTypes
    <3> QED BY <1>b, <2>1, <3>4, <3>6
  <2> QED BY <2>3, <2>4
<1>3. CASE Overview!ServeLogs(l)
  <2>1. UNCHANGED << server, entries, agents, oidc, events, api, changes,
                     mounted, overview, recentLogs, loading, error,
                     selectedNode, timers, mine >>
        /\ UNCHANGED route
    BY <1>3 DEF Overview!ServeLogs, Overview!world, Overview!view
  <2>2. events \in 0..events
    BY <1>a DEF WorldTypes
  <2>3. LoadTypes'
    BY <1>a, <1>3, <2>1, <2>2, LoadSteps DEF Overview!ServeLogs
  <2>4. RouteTypes'
    BY <1>a, <2>1 DEF RouteTypes
  <2> QED BY <1>b, <2>1, <2>3, <2>4
<1>4. ASSUME NEW p \in Overview!Part, Overview!Unreachable(l, p) PROVE OvInv'
  <2>1. UNCHANGED << server, entries, agents, oidc, events, api, changes,
                     mounted, overview, recentLogs, loading, error,
                     selectedNode, timers, mine >>
    BY <1>4 DEF Overview!Unreachable, Overview!world, Overview!view
  <2>2. LoadTypes'
    BY <1>a, <1>4, <2>1, LoadSteps DEF Overview!Unreachable
  <2>3. Overview!NotRead \in Reads
    BY DEF Overview!NotRead, Reads
  <2>4. RouteTypes'
    BY <1>a, <1>4, <2>3 DEF RouteTypes, Overview!Unreachable
  <2> QED BY <1>b, <2>1, <2>2, <2>4
<1> QED BY <1>1, <1>2, <1>3, <1>4 DEF Overview!Settle

LEMMA OvNext ==
  ASSUME WorldBounds, OvInv, [Overview!Next]_(Overview!vars) PROVE OvInv'
<1>a. LoadTypes /\ RouteTypes /\ WorldTypes /\ ViewTypes /\ IntervalOfPage
  BY DEF OvInv
<1>1. CASE Overview!WorldChanges
  <2>1. UNCHANGED << fetch, route, mounted, overview, recentLogs, loading, error,
                     selectedNode, timers, mine >>
    BY <1>1 DEF Overview!WorldChanges, Overview!view
  <2>2. events' = events \/ events' = events + 1
    BY <1>1 DEF Overview!WorldChanges
  <2>3. /\ events' \in Nat
        /\ \A n \in 0..events : n \in 0..events'
    BY <1>a, <2>2 DEF WorldTypes
  <2>4. LoadTypes'
    <3>1. ASSUME NEW l \in Load
          PROVE  fetch[<< l, "logs" >>] \in Overview!Api!CallState({"logs"}, 0..events')
      <4>1. fetch[<< l, "logs" >>] \in Overview!Api!CallState({"logs"}, 0..events)
        BY <1>a DEF LoadTypes
      <4> QED BY <2>3, <4>1 DEF Overview!Api!CallState
    <3> QED BY <1>a, <2>1, <3>1 DEF LoadTypes
  <2>5. changes' \in 0..MaxChanges
    <3>1. changes < MaxChanges /\ changes' = changes + 1
      BY <1>1 DEF Overview!WorldChanges
    <3> QED BY <1>a, <3>1 DEF WorldTypes, WorldBounds
  <2>6. server' \in {"up", "crashed", "down"} /\ entries' \in Count /\ agents' \in Count
    BY <1>a, <1>1 DEF WorldTypes, Overview!WorldChanges
  <2>7. oidc' \in BOOLEAN /\ api' \in BOOLEAN
    BY <1>a, <1>1 DEF WorldTypes, Overview!WorldChanges
  <2>8. WorldTypes'
    BY <2>3, <2>5, <2>6, <2>7 DEF WorldTypes
  <2>9. ViewTypes'
    BY <1>a, <2>1, <2>3 DEF ViewTypes
  <2>10. RouteTypes' /\ IntervalOfPage'
    BY <1>a, <2>1 DEF RouteTypes, IntervalOfPage
  <2> QED BY <2>4, <2>8, <2>9, <2>10 DEF OvInv
<1>2. CASE Overview!Unmount
  <2>1. UNCHANGED << server, entries, agents, oidc, events, api, changes, fetch,
                     route, overview, recentLogs, loading, error, selectedNode >>
    BY <1>2 DEF Overview!Unmount, Overview!world, Overview!view
  <2>2. mounted /\ mounted' = FALSE /\ timers' = timers - 1 /\ mine' = {}
    BY <1>2 DEF Overview!Unmount
  <2>3. timers = 1
    BY <1>a, <2>2 DEF IntervalOfPage
  <2>4. IntervalOfPage'
    <3>1. timers' = timers - 1
      BY <2>2
    <3>2. timers' = 0
      BY <2>3, <3>1
    <3> QED BY <2>2, <3>2 DEF IntervalOfPage
  <2>5. LoadTypes' /\ RouteTypes' /\ WorldTypes'
    BY <1>a, <2>1 DEF LoadTypes, RouteTypes, WorldTypes
  <2>6. ViewTypes'
    BY <1>a, <2>1, <2>2 DEF ViewTypes
  <2> QED BY <2>4, <2>5, <2>6 DEF OvInv
<1>3. ASSUME NEW l \in Load,
             Overview!Mount(l) \/ Overview!Tick(l) \/ Overview!onRefresh(l)
      PROVE  OvInv'
  BY <1>3, PageSteps
<1>4. ASSUME NEW l \in Load, Overview!Settle(l) PROVE OvInv'
  BY <1>4, SettleSteps
<1>5. ASSUME NEW n \in Clicked, Overview!SelectNode(n) PROVE OvInv'
  <2>1. UNCHANGED << server, entries, agents, oidc, events, api, changes, fetch,
                     route, mounted, overview, recentLogs, loading, error, timers,
                     mine >>
    BY <1>5 DEF Overview!SelectNode, Overview!world
  <2>2. selectedNode' \in Overview!Node
    BY <1>5 DEF Overview!SelectNode, Overview!Node, WorldBounds
  <2>3. LoadTypes' /\ RouteTypes' /\ WorldTypes' /\ IntervalOfPage'
    BY <1>a, <2>1 DEF LoadTypes, RouteTypes, WorldTypes, IntervalOfPage
  <2>4. ViewTypes'
    BY <1>a, <2>1, <2>2 DEF ViewTypes
  <2> QED BY <2>3, <2>4 DEF OvInv
<1>6. CASE UNCHANGED Overview!vars
  <2>1. UNCHANGED << server, entries, agents, oidc, events, api, changes, fetch,
                     route, mounted, overview, recentLogs, loading, error,
                     selectedNode, timers, mine >>
    BY <1>6 DEF Overview!vars, Overview!world, Overview!view
  <2>2. LoadTypes' /\ RouteTypes' /\ WorldTypes' /\ IntervalOfPage'
    BY <1>a, <2>1 DEF LoadTypes, RouteTypes, WorldTypes, IntervalOfPage
  <2>3. ViewTypes'
    BY <1>a, <2>1 DEF ViewTypes
  <2> QED BY <2>2, <2>3 DEF OvInv
<1> QED BY <1>1, <1>2, <1>3, <1>4, <1>5, <1>6 DEF Overview!Next

(***************************************************************************)
(* The overview page's types, one interval while it is mounted, however    *)
(* often it is left and entered, and cards that add up whichever of its    *)
(* overlapping loads they come from, for any number of loads.              *)
(***************************************************************************)
THEOREM OverviewInvariant ==
  ASSUME WorldBounds PROVE Overview!Spec => []Overview!OverviewInv
<1>1. OvInv => Overview!OverviewInv
  <2> SUFFICES ASSUME OvInv PROVE Overview!OverviewInv
    OBVIOUS
  <2>a. LoadTypes /\ RouteTypes /\ WorldTypes /\ ViewTypes /\ IntervalOfPage
    BY DEF OvInv
  <2>1. Overview!OneInterval
    BY <2>a DEF IntervalOfPage, Overview!OneInterval
  <2>2. Overview!CardsAddUp
    BY <2>a DEF ViewTypes, Overview!CardsAddUp, Overview!Card, Sound
  <2>3. { oidc, api, mounted, loading, error } \subseteq BOOLEAN
    <3>1. oidc \in BOOLEAN /\ api \in BOOLEAN
      BY <2>a DEF WorldTypes
    <3>2. loading \in BOOLEAN /\ error \in BOOLEAN
      BY <2>a DEF ViewTypes
    <3>3. mounted \in BOOLEAN
      BY <2>a DEF IntervalOfPage
    <3> QED BY <3>1, <3>2, <3>3, Zenon
  <2>4. Sound \subseteq Overview!OverviewSummary
    BY DEF Sound
  <2>5. ASSUME NEW l \in Load
        PROVE  /\ fetch[<< l, "overview" >>]
                    \in Overview!Api!CallState({"overview"}, Overview!OverviewSummary)
               /\ fetch[<< l, "logs" >>] \in Overview!Api!CallState({"logs"}, 0..events)
               /\ Len(route[l]) <= 3
    <3>1. fetch[<< l, "overview" >>] \in Overview!Api!CallState({"overview"}, Sound)
      BY <2>a DEF LoadTypes
    <3>2. fetch[<< l, "overview" >>]
            \in Overview!Api!CallState({"overview"}, Overview!OverviewSummary)
      BY <2>4, <3>1 DEF Overview!Api!CallState
    <3>3. Len(route[l]) <= 3
      BY <2>a DEF RouteTypes, Reads
    <3> QED BY <2>a, <3>2, <3>3 DEF LoadTypes
  <2>6. timers \in Nat
    BY <2>a DEF IntervalOfPage
  <2>7. DOMAIN fetch = Load \X Overview!Part
    BY <2>a DEF LoadTypes
  <2>8. /\ server \in {"up", "crashed", "down"}
        /\ entries \in Count /\ agents \in Count
        /\ events \in Nat /\ changes \in 0..MaxChanges
    BY <2>a DEF WorldTypes
  <2>9. /\ overview \in {Overview!Null} \cup Overview!OverviewSummary
        /\ recentLogs \in 0..events
        /\ selectedNode \in Overview!Node
        /\ mine \subseteq Load
    BY <2>a, <2>4 DEF ViewTypes
  <2>10. Overview!TypeOK
    BY <2>3, <2>5, <2>6, <2>7, <2>8, <2>9 DEF Overview!TypeOK
  <2> QED BY <2>1, <2>2, <2>10 DEF Overview!OverviewInv
<1>2. Overview!Init => OvInv
  BY OvInit
<1>3. OvInv /\ [Overview!Next]_(Overview!vars) => OvInv'
  BY OvNext
<1> QED BY <1>1, <1>2, <1>3, PTL DEF Overview!Spec

=============================================================================
