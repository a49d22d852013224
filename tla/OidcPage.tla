------------------------------ MODULE OidcPage ------------------------------
(***************************************************************************)
(* The console's OIDC page, app/oidc/page.tsx, with the routes it reads:   *)
(* backend app/api/oidc.py over services/oidc_service.py, and bundles.py.  *)
(*                                                                         *)
(* loadOIDC awaits three calls with one Promise.all and no catch of their  *)
(* own: the first failure rejects the whole run while the other calls are  *)
(* still in flight, and their answers are dropped.                         *)
(***************************************************************************)
EXTENDS Naturals, FiniteSets

CONSTANTS
  Load,          \* runs of loadOIDC in flight at once (a bound)
  Kid,           \* the key ids on display
  MaxRuns,       \* bound on the runs of loadOIDC
  MaxTimers      \* bound on the copies made within two seconds

ASSUME OidcAssumption ==
  /\ IsFiniteSet(Load) /\ Load # {}
  /\ "bundle" \notin Kid /\ "none" \notin Kid
  /\ MaxRuns \in Nat \ {0} /\ MaxTimers \in Nat

VARIABLES
  \* The control plane.
  fetch,         \* three calls for each load
  oidcRequests,  \* oidc_requests_counter, summed over its labels
  \* The page.
  discoveryDoc, jwks, bundle, loading, copiedKey,
  awaiting,      \* the loads whose Promise.all has not settled
  timers,        \* setTimeouts of copyText that have not fired
  runs,          \* history: runs of loadOIDC so far
  run            \* history: run[l], which one load l is

Part == {"discovery", "jwks", "bundle"}
Api  == INSTANCE ApiClient WITH Request <- Load \X Part

docs    == << discoveryDoc, jwks, bundle >>
vars    == << fetch, oidcRequests, docs, loading, copiedKey, awaiting, timers, runs, run >>

Null == [run |-> 0, keys |-> {}]

(***************************************************************************)
(* A document: the run it was fetched by and, of a key set, its keys.      *)
(***************************************************************************)
Document == [run : 1..MaxRuns, keys : SUBSET Kid]

-----------------------------------------------------------------------------
(* The routes.                                                             *)

Respond(l, p, keys) == Api!Answer(<< l, p >>, [run |-> run[l], keys |-> keys])

(***************************************************************************)
(* get_oidc_discovery and get_jwks: route and service each increment the   *)
(* counter, under one label or under two.  The provider may publish no key *)
(* at all; one that does not answer 200 within its three seconds is        *)
(* replaced by a built-in document, with a key.                            *)
(***************************************************************************)
ServeOidc(l, p) ==
  /\ p \in {"discovery", "jwks"}
  /\ \E keys \in IF p = "jwks" THEN { {}, Kid } ELSE { {} } : Respond(l, p, keys)
  /\ oidcRequests' = oidcRequests + 2
  /\ UNCHANGED << docs, loading, copiedKey, awaiting, timers, runs, run >>

(***************************************************************************)
(* get_trust_bundle.                                                       *)
(***************************************************************************)
ServeBundle(l) ==
  /\ Respond(l, "bundle", {})
  /\ UNCHANGED << oidcRequests, docs, loading, copiedKey, awaiting, timers, runs, run >>

Unreachable(l, p) ==
  /\ Api!Throw(<< l, p >>)
  /\ UNCHANGED << oidcRequests, docs, loading, copiedKey, awaiting, timers, runs, run >>

-----------------------------------------------------------------------------
(* loadOIDC: the mount effect and the refresh button.                      *)

At(l, p) == fetch[<< l, p >>].at

loadOIDC(l) ==
  /\ \A p \in Part : At(l, p) = "idle"
  /\ runs < MaxRuns
  /\ runs' = runs + 1
  /\ run' = [run EXCEPT ![l] = runs + 1]
  /\ fetch' = [r \in Load \X Part |->
                 IF r[1] = l THEN [at |-> "sent", query |-> r[2]] ELSE fetch[r]]
  /\ awaiting' = awaiting \cup {l}
  /\ loading' = TRUE
  /\ UNCHANGED << oidcRequests, docs, copiedKey, timers >>

Settle(l) ==
  /\ awaiting' = awaiting \ {l}
  /\ loading' = FALSE
  /\ UNCHANGED << fetch, oidcRequests, copiedKey, timers, runs, run >>

Resolves_Piecewise(l) ==
  /\ l \in awaiting
  /\ \E p \in Part : At(l, p) = "ok"
  /\ discoveryDoc' = IF At(l, "discovery") = "ok" THEN fetch[<< l, "discovery" >>].body
                     ELSE discoveryDoc
  /\ jwks'   = IF At(l, "jwks") = "ok" THEN fetch[<< l, "jwks" >>].body ELSE jwks
  /\ bundle' = IF At(l, "bundle") = "ok" THEN fetch[<< l, "bundle" >>].body ELSE bundle
  /\ Settle(l)

(***************************************************************************)
(* All three calls have answered.                                          *)
(***************************************************************************)
Resolves(l) ==
  /\ l \in awaiting
  /\ \A p \in Part : At(l, p) = "ok"
  /\ discoveryDoc' = fetch[<< l, "discovery" >>].body
  /\ jwks'         = fetch[<< l, "jwks" >>].body
  /\ bundle'       = fetch[<< l, "bundle" >>].body
  /\ Settle(l)

Rejects_Clears(l) ==
  /\ l \in awaiting
  /\ \E p \in Part : At(l, p) = "threw"
  /\ discoveryDoc' = Null /\ jwks' = Null /\ bundle' = Null
  /\ Settle(l)

Rejects_KeepsLoading(l) ==
  /\ l \in awaiting
  /\ \E p \in Part : At(l, p) = "threw"
  /\ awaiting' = awaiting \ {l}
  /\ UNCHANGED << fetch, oidcRequests, docs, loading, copiedKey, timers, runs, run >>

(***************************************************************************)
(* One of them has failed: logged to the browser's console, nothing shown. *)
(***************************************************************************)
Rejects(l) ==
  /\ l \in awaiting
  /\ \E p \in Part : At(l, p) = "threw"
  /\ UNCHANGED docs
  /\ Settle(l)

(***************************************************************************)
(* The calls of a settled run have all ended.                              *)
(***************************************************************************)
Drain(l) ==
  /\ l \notin awaiting
  /\ \A p \in Part : At(l, p) \in {"ok", "threw"}
  /\ fetch' = [r \in Load \X Part |-> IF r[1] = l THEN Api!Idle ELSE fetch[r]]
  /\ UNCHANGED << oidcRequests, docs, loading, copiedKey, awaiting, timers, runs, run >>

-----------------------------------------------------------------------------
(* copyText: the tick next to what was copied.                             *)

(***************************************************************************)
(* The copy buttons: a row for each key, and the bundle's, which is there  *)
(* even before the bundle.                                                 *)
(***************************************************************************)
Copyable == jwks.keys \cup {"bundle"}

copyText(id) ==
  /\ id \in Copyable
  /\ timers < MaxTimers
  /\ copiedKey' = id
  /\ timers' = timers + 1
  /\ UNCHANGED << fetch, oidcRequests, docs, loading, awaiting, runs, run >>

(***************************************************************************)
(* Two seconds after some copy: whatever tick is showing goes.             *)
(***************************************************************************)
Timeout ==
  /\ timers > 0
  /\ timers' = timers - 1
  /\ copiedKey' = "none"
  /\ UNCHANGED << fetch, oidcRequests, docs, loading, awaiting, runs, run >>

(***************************************************************************)
(* The discovery box.                                                      *)
(***************************************************************************)
DiscoveryView ==
  IF discoveryDoc # Null THEN "document" ELSE "Loading discovery document..."

-----------------------------------------------------------------------------
Init ==
  /\ \E l \in Load :
       /\ fetch = [r \in Load \X Part |->
                     IF r[1] = l THEN [at |-> "sent", query |-> r[2]] ELSE Api!Idle]
       /\ awaiting = {l}
       /\ run = [x \in Load |-> IF x = l THEN 1 ELSE 0]
  /\ runs = 1
  /\ oidcRequests = 0
  /\ discoveryDoc = Null /\ jwks = Null /\ bundle = Null
  /\ loading = TRUE /\ copiedKey = "none" /\ timers = 0

Served(l, p) == ServeOidc(l, p) \/ (p = "bundle" /\ ServeBundle(l)) \/ Unreachable(l, p)
Continue(l)  == Resolves(l) \/ Rejects(l) \/ Drain(l)

Next ==
  \/ \E l \in Load : loadOIDC(l) \/ Continue(l) \/ \E p \in Part : Served(l, p)
  \/ \E id \in Kid \cup {"bundle"} : copyText(id)
  \/ Timeout

(***************************************************************************)
(* Calls settle, continuations and timers run.                             *)
(***************************************************************************)
Fairness ==
  /\ WF_vars(Timeout)
  /\ \A l \in Load : WF_vars(Continue(l)) /\ \A p \in Part : WF_vars(Served(l, p))

Spec == Init /\ [][Next]_vars /\ Fairness

-----------------------------------------------------------------------------
TypeOK ==
  /\ DOMAIN fetch = Load \X Part
  /\ \A r \in Load \X Part : fetch[r] \in Api!CallState({r[2]}, Document)
  /\ { discoveryDoc, jwks, bundle } \subseteq {Null} \cup Document
  /\ oidcRequests \in 0 .. 4 * runs
  /\ loading \in BOOLEAN /\ copiedKey \in Kid \cup {"bundle", "none"}
  /\ awaiting \subseteq Load /\ timers \in 0..MaxTimers
  /\ runs \in 1..MaxRuns /\ run \in [Load -> 0..MaxRuns]

(***************************************************************************)
(* The discovery document, the keys and the bundle on display were fetched *)
(* by one and the same run of loadOIDC, or none is: overlapping and        *)
(* partly failed runs never mix.                                           *)
(***************************************************************************)
DocumentsFromOneRun == discoveryDoc.run = jwks.run /\ jwks.run = bundle.run

(***************************************************************************)
(* The flags have owners: a run that has not settled while loading, a      *)
(* timer that will fire while a tick is shown.                             *)
(***************************************************************************)
FlagsHaveOwners ==
  /\ loading => awaiting # {}
  /\ copiedKey # "none" => timers > 0

(***************************************************************************)
(* The invariant of the page: types, and flags with owners.                *)
(***************************************************************************)
OidcInv == TypeOK /\ FlagsHaveOwners

(***************************************************************************)
(* Loading and the tick end, whatever fails and however often one copies.  *)
(***************************************************************************)
FlagsClear == (loading ~> ~loading) /\ (copiedKey # "none" ~> copiedKey = "none")

(***************************************************************************)
(* What is on display stays: no failed or late run takes the page back to  *)
(* "Loading discovery document...".                                        *)
(***************************************************************************)
DocumentsStay ==
  [][DiscoveryView = "document" => DiscoveryView' = "document"]_vars

=============================================================================
