------------------------- MODULE SpireServiceProofs -------------------------
(***************************************************************************)
(* Proofs about SpireService, for any set of requests, of registrations    *)
(* and of initial entries, and about the SPIRE server's other client, the  *)
(* script of module Bootstrap, for any bounds.                             *)
(***************************************************************************)
EXTENDS SpireService, SequenceTheorems, FiniteSetTheorems, TLAPS

(***************************************************************************)
(* A handler owns a subprocess from the moment it waits, keeps the request *)
(* it started with, and owns exactly one event of the trail once it has    *)
(* got past the command.                                                   *)
(***************************************************************************)
Audits(r) == pc[r] = "recording" \/ (pc[r] = "replied" /\ cli[r] # "none")

HandlerInv ==
  \A r \in Req :
    /\ pc[r] = "idle" => cli[r] = "none" /\ request[r] = None
    /\ pc[r] \in { "waiting", "recording" } => cli[r] # "none"
    /\ cli[r] # "none" => request[r] \in Request

TrailInv ==
  \A r \in Req :
    IF Audits(r) THEN \E i \in 1 .. Len(trail) : Audited(r) = {i}
                 ELSE Audited(r) = {}

(***************************************************************************)
(* The trail says "SUCCESS" of a create or a delete only when its command  *)
(* exited with code 0: a timeout passes code 1 on, whatever the command    *)
(* did or will still do.                                                   *)
(***************************************************************************)
ExitInv ==
  \A i \in 1 .. Len(trail) :
    /\ trail[i].status = "SUCCESS"
    /\ request[trail[i].req].op \in { "create", "delete" }
    => cli[trail[i].req] = "exit0"

(***************************************************************************)
(* The ids SPIRE has given out, those of deleted entries included.  Every  *)
(* registered entry has one, and so has every entry deleted with code 0:   *)
(* that keeps it from being registered again.                              *)
(***************************************************************************)
Used ==
  { e.id : e \in Initial } \cup { c \in Req : cli[c] \in { "exit0", "exit1" } }

EffectInv ==
  /\ Registered \subseteq Used
  /\ \A r \in Req :
       cli[r] = "exit0" =>
         /\ request[r].op = "create" => Created(r)
         /\ request[r].op = "delete" =>
              request[r].id \in Used /\ request[r].id \notin Registered

(***************************************************************************)
(* A command that printed an id or a token has done its work, whatever its *)
(* exit code.                                                              *)
(***************************************************************************)
PrintedInv ==
  \A r \in printed :
    /\ cli[r] \in { "exit0", "exit1" }
    /\ request[r].op = "create" => Created(r)
    /\ request[r].op = "token" => r \in minted

(***************************************************************************)
(* What a handler replies with, it has from a command that is over: the    *)
(* status from the exit code, the id and the token from the output.        *)
(***************************************************************************)
ReplyInv ==
  /\ \A r \in Req : pc[r] \in { "idle", "waiting" } => reply[r].status = "none"
  /\ \A r \in Replied("success") : cli[r] = "exit0" /\ request[r].op = "create"
  /\ \A r \in Replied("success") \cup Replied("simulated") :
       reply[r].id # Fabricated =>
         reply[r].id = r /\ r \in printed /\ request[r].op = "create"
  /\ \A r \in Replied("token") :
       reply[r].genuine => r \in printed /\ request[r].op = "token"

Inv ==
  /\ TypeOK /\ HandlerInv /\ TrailInv /\ ExitInv
  /\ EffectInv /\ PrintedInv /\ ReplyInv

-----------------------------------------------------------------------------
(* What the operators of the model do to the trail.                        *)

Event == [req : Req, status : { "SUCCESS", "FAILED", "ATTEMPTED" }]

(***************************************************************************)
(* An event of r in front of the trail: every other event moves one place  *)
(* down and nothing else changes.                                          *)
(***************************************************************************)
LEMMA AuditStep ==
  ASSUME trail \in Seq(Event), NEW r \in Req,
         NEW s \in { "SUCCESS", "FAILED", "ATTEMPTED" }, audit(r, s)
  PROVE  /\ trail' \in Seq(Event)
         /\ Len(trail') = Len(trail) + 1
         /\ trail'[1] = [req |-> r, status |-> s]
         /\ \A i \in 2 .. Len(trail') :
              /\ i - 1 \in 1 .. Len(trail)
              /\ trail'[i] = trail[i - 1]
<1> DEFINE e == [req |-> r, status |-> s]
<1>1. e \in Event
  BY DEF Event
<1>2. << e >> \in Seq(Event) /\ Len(<< e >>) = 1 /\ << e >>[1] = e
  BY <1>1
<1>3. Len(trail) \in Nat
  BY LenProperties
<1>4. /\ trail' = << e >> \o trail
      /\ << e >> \o trail \in Seq(Event)
      /\ Len(<< e >> \o trail) = 1 + Len(trail)
      /\ \A i \in 1 .. 1 + Len(trail) :
           (<< e >> \o trail)[i] = IF i <= 1 THEN << e >>[i] ELSE trail[i - 1]
  BY <1>2, ConcatProperties DEF audit
<1> HIDE DEF e
<1>5. trail'[1] = e
  BY <1>2, <1>3, <1>4
<1>6. \A i \in 2 .. Len(trail') :
        i - 1 \in 1 .. Len(trail) /\ trail'[i] = trail[i - 1]
  BY <1>3, <1>4
<1> QED BY <1>3, <1>4, <1>5, <1>6 DEF e

(***************************************************************************)
(* So a handler that has no event yet gets exactly one, and every other    *)
(* keeps the number it has.                                                *)
(***************************************************************************)
LEMMA AuditOwners ==
  ASSUME trail \in Seq(Event), NEW r \in Req,
         NEW s \in { "SUCCESS", "FAILED", "ATTEMPTED" }, audit(r, s)
  PROVE  /\ Audited(r) = {} => Audited(r)' = {1} /\ 1 \in 1 .. Len(trail')
         /\ \A o \in Req \ {r} :
              /\ Audited(o) = {} => Audited(o)' = {}
              /\ \A i \in 1 .. Len(trail) :
                   Audited(o) = {i} =>
                     Audited(o)' = {i + 1} /\ i + 1 \in 1 .. Len(trail')
<1>1. /\ trail' \in Seq(Event)
      /\ Len(trail') = Len(trail) + 1
      /\ trail'[1] = [req |-> r, status |-> s]
      /\ \A i \in 2 .. Len(trail') :
           i - 1 \in 1 .. Len(trail) /\ trail'[i] = trail[i - 1]
  BY AuditStep
<1>2. Len(trail) \in Nat
  BY LenProperties
<1>3. trail'[1].req = r
  BY <1>1
<1>4. \A o \in Req, i \in 1 .. Len(trail') :
        i \in Audited(o)' <=> IF i = 1 THEN o = r ELSE i - 1 \in Audited(o)
  BY <1>1, <1>2, <1>3 DEF Audited
<1>5. \A o \in Req : Audited(o)' \subseteq 1 .. Len(trail')
                     /\ Audited(o) \subseteq 1 .. Len(trail)
  BY DEF Audited
<1> HIDE DEF Audited
<1>6. ASSUME Audited(r) = {} PROVE Audited(r)' = {1}
  <2>1. \A i \in 1 .. Len(trail') : i \in Audited(r)' <=> i = 1
    BY <1>4, <1>6
  <2> QED BY <2>1, <1>1, <1>2, <1>5
<1>7. ASSUME NEW o \in Req \ {r}, Audited(o) = {} PROVE Audited(o)' = {}
  BY <1>4, <1>5, <1>7
<1>8. ASSUME NEW o \in Req \ {r}, NEW i \in 1 .. Len(trail), Audited(o) = {i}
      PROVE  Audited(o)' = {i + 1} /\ i + 1 \in 1 .. Len(trail')
  <2>1. i + 1 \in 1 .. Len(trail') /\ i # 0
    BY <1>1, <1>2
  <2>2. \A j \in 1 .. Len(trail') : j \in Audited(o)' <=> j = i + 1
    BY <1>2, <1>4, <1>8, <2>1
  <2> QED BY <2>1, <2>2, <1>5
<1> QED BY <1>1, <1>2, <1>6, <1>7, <1>8

(***************************************************************************)
(* What a handler does when its command is over for it, whichever of the   *)
(* three operations it is in: one audit event, and "SUCCESS" of a create   *)
(* or a delete only with code 0.                                           *)
(***************************************************************************)
LEMMA GoesOnStep ==
  ASSUME TypeOK, NEW r \in Req, NEW code \in { 0, 1 }, NEW found \in BOOLEAN,
         goes_on(r, code, found)
  PROVE  /\ \E s \in { "SUCCESS", "FAILED", "ATTEMPTED" } :
              /\ audit(r, s)
              /\ s = "SUCCESS" /\ request[r].op \in { "create", "delete" } =>
                   code = 0
         /\ reply' \in [Req -> Reply]
         /\ pc' = [pc EXCEPT ![r] = "recording"]
         /\ UNCHANGED << datastore, minted, request, cli, printed, counted >>
<1>1. CASE create_entry(r, code, found)
  <2>1. [status |-> IF code = 0 THEN "success" ELSE "simulated",
         id |-> IF found THEN r ELSE Fabricated] \in Reply
    BY DEF Reply
  <2> QED BY <1>1, <2>1 DEF goes_on, create_entry, TypeOK
<1>2. CASE delete_entry(r, code)
  BY <1>2 DEF goes_on, delete_entry, TypeOK, Reply, Say
<1>3. CASE generate_join_token(r, found)
  BY <1>3 DEF goes_on, generate_join_token, TypeOK, Reply
<1> QED BY <1>1, <1>2, <1>3 DEF goes_on

(***************************************************************************)
(* The code and the output a handler goes on with.                         *)
(***************************************************************************)
LEMMA OverStep ==
  ASSUME NEW r \in Req, exec_returns(r) \/ exec_times_out(r)
  PROVE  \E code \in { 0, 1 }, found \in BOOLEAN :
           /\ pc[r] = "waiting" /\ goes_on(r, code, found)
           /\ code = 0 => cli[r] = "exit0"
           /\ found => r \in printed
<1>1. CASE exec_returns(r)
  <2> DEFINE c == IF cli[r] = "exit0" THEN 0 ELSE 1
  <2>1. c \in { 0, 1 } /\ (c = 0 => cli[r] = "exit0")
    OBVIOUS
  <2>2. pc[r] = "waiting" /\ goes_on(r, c, r \in printed)
    BY <1>1 DEF exec_returns
  <2> HIDE DEF c
  <2>3. CASE r \in printed
    <3>1. (r \in printed) = TRUE
      BY <2>3
    <3>2. goes_on(r, c, TRUE)
      BY <2>2, <3>1, Zenon
    <3> USE <2>1
    <3> WITNESS c \in { 0, 1 }, TRUE \in BOOLEAN
    <3> QED BY <2>1, <2>2, <2>3, <3>2
  <2>4. CASE r \notin printed
    <3>1. (r \in printed) = FALSE
      BY <2>4
    <3>2. goes_on(r, c, FALSE)
      BY <2>2, <3>1, Zenon
    <3> USE <2>1
    <3> WITNESS c \in { 0, 1 }, FALSE \in BOOLEAN
    <3> QED BY <2>1, <2>2, <3>2
  <2> QED BY <2>3, <2>4
<1>2. CASE exec_times_out(r)
  <2>1. pc[r] = "waiting" /\ goes_on(r, 1, FALSE)
    BY <1>2, Zenon DEF exec_times_out
  <2>2. 1 = 0 => cli[r] = "exit0"
    OBVIOUS
  <2> WITNESS 1 \in { 0, 1 }, FALSE \in BOOLEAN
  <2> QED BY <2>1, <2>2, Zenon
<1> QED BY <1>1, <1>2

-----------------------------------------------------------------------------
(* Type correctness, and the handlers.                                     *)

LEMMA TypeInit == Init => TypeOK
BY EmptySeq, InitialAssumption DEF Init, TypeOK, None, Say, Reply

LEMMA TypeNext == TypeOK /\ [Next]_vars => TypeOK'
<1> SUFFICES ASSUME TypeOK, [Next]_vars PROVE TypeOK'
  OBVIOUS
<1>1. ASSUME NEW r \in Req, NEW q \in Request, reject(r, q) PROVE TypeOK'
  BY <1>1 DEF TypeOK, reject, Reply, Say
<1>2. ASSUME NEW r \in Req, NEW q \in Request, exec_command(r, q) PROVE TypeOK'
  BY <1>2 DEF TypeOK, exec_command
<1>3. ASSUME NEW r \in Req, spire_applies(r) PROVE TypeOK'
  <2>1. cli' \in [Req -> { "none", "running", "exit0", "exit1" }]
    BY <1>3 DEF TypeOK, spire_applies
  <2>2. ASSUME request[r].op = "create" PROVE request[r].identity \in Identity
    <3> DEFINE q == request[r]
    <3>1. q \in Request \cup {None}
      BY <1>3 DEF TypeOK
    <3>2. q \in [op : {"create"}, identity : Identity, valid : BOOLEAN]
      <4> HIDE DEF q
      <4>1. q # None
        BY <2>2 DEF None, q
      <4>2. q \notin [op : {"delete"}, id : Id \cup {Fabricated}, valid : {TRUE}]
        BY <2>2 DEF q
      <4>3. q \notin [op : {"token"}, valid : BOOLEAN]
        BY <2>2 DEF q
      <4> QED BY <3>1, <4>1, <4>2, <4>3 DEF Request
    <3> QED BY <3>2
  <2>3. datastore' \subseteq Entry
    BY <1>3, <2>2 DEF TypeOK, spire_applies, Entry, Id
  <2>4. minted' \subseteq Req
    BY <1>3 DEF TypeOK, spire_applies
  <2> QED BY <1>3, <2>1, <2>3, <2>4 DEF TypeOK, spire_applies
<1>4. ASSUME NEW r \in Req, spire_refuses(r) PROVE TypeOK'
  BY <1>4 DEF TypeOK, spire_refuses
<1>5. ASSUME NEW r \in Req, NEW code \in { 0, 1 }, NEW found \in BOOLEAN,
             goes_on(r, code, found) PROVE TypeOK'
  <2>1. trail' \in Seq(Event)
    BY <1>5, GoesOnStep, AuditStep DEF TypeOK, Event
  <2> QED BY <1>5, <2>1, GoesOnStep DEF TypeOK, Event
<1>6. ASSUME NEW r \in Req, record_returns(r) PROVE TypeOK'
  BY <1>6 DEF TypeOK, record_returns
<1>7. ASSUME NEW r \in Req, record_raises(r) PROVE TypeOK'
  BY <1>7 DEF TypeOK, record_raises, Reply, Say
<1>8. CASE UNCHANGED vars
  BY <1>8 DEF TypeOK, vars
<1> QED
  BY <1>1, <1>2, <1>3, <1>4, <1>5, <1>6, <1>7, <1>8, OverStep
  DEF Next

LEMMA HandlerNext == TypeOK /\ HandlerInv /\ [Next]_vars => HandlerInv'
<1> SUFFICES ASSUME TypeOK, HandlerInv, [Next]_vars PROVE HandlerInv'
  OBVIOUS
<1>1. ASSUME NEW r \in Req, NEW q \in Request, reject(r, q) PROVE HandlerInv'
  BY <1>1 DEF TypeOK, HandlerInv, reject
<1>2. ASSUME NEW r \in Req, NEW q \in Request, exec_command(r, q)
      PROVE  HandlerInv'
  BY <1>2 DEF TypeOK, HandlerInv, exec_command
<1>3. ASSUME NEW r \in Req, spire_applies(r) PROVE HandlerInv'
  BY <1>3 DEF TypeOK, HandlerInv, spire_applies
<1>4. ASSUME NEW r \in Req, spire_refuses(r) PROVE HandlerInv'
  BY <1>4 DEF TypeOK, HandlerInv, spire_refuses
<1>5. ASSUME NEW r \in Req, NEW code \in { 0, 1 }, NEW found \in BOOLEAN,
             pc[r] = "waiting", goes_on(r, code, found)
      PROVE  HandlerInv'
  BY <1>5, GoesOnStep DEF TypeOK, HandlerInv
<1>6. ASSUME NEW r \in Req, record_returns(r) PROVE HandlerInv'
  BY <1>6 DEF TypeOK, HandlerInv, record_returns
<1>7. ASSUME NEW r \in Req, record_raises(r) PROVE HandlerInv'
  BY <1>7 DEF TypeOK, HandlerInv, record_raises
<1>8. CASE UNCHANGED vars
  BY <1>8 DEF HandlerInv, vars
<1> QED
  BY <1>1, <1>2, <1>3, <1>4, <1>5, <1>6, <1>7, <1>8, OverStep
  DEF Next

-----------------------------------------------------------------------------
(* One event per command, and what it says.                                *)

LEMMA TrailNext == TypeOK /\ HandlerInv /\ TrailInv /\ [Next]_vars => TrailInv'
<1> SUFFICES ASSUME TypeOK, HandlerInv, TrailInv, [Next]_vars PROVE TrailInv'
  OBVIOUS
<1>1. ASSUME trail' = trail, \A r \in Req : Audits(r)' <=> Audits(r)
      PROVE  TrailInv'
  BY <1>1 DEF TrailInv, Audited
<1>2. ASSUME NEW r \in Req, NEW q \in Request, reject(r, q) PROVE TrailInv'
  BY <1>1, <1>2 DEF TypeOK, HandlerInv, Audits, reject
<1>3. ASSUME NEW r \in Req, NEW q \in Request, exec_command(r, q) PROVE TrailInv'
  BY <1>1, <1>3 DEF TypeOK, HandlerInv, Audits, exec_command
<1>4. ASSUME NEW r \in Req, spire_applies(r) PROVE TrailInv'
  BY <1>1, <1>4 DEF TypeOK, HandlerInv, Audits, spire_applies
<1>5. ASSUME NEW r \in Req, spire_refuses(r) PROVE TrailInv'
  BY <1>1, <1>5 DEF TypeOK, HandlerInv, Audits, spire_refuses
<1>6. ASSUME NEW r \in Req, NEW code \in { 0, 1 }, NEW found \in BOOLEAN,
             pc[r] = "waiting", goes_on(r, code, found)
      PROVE  TrailInv'
  <2>1. PICK s \in { "SUCCESS", "FAILED", "ATTEMPTED" } : audit(r, s)
    BY <1>6, GoesOnStep
  <2>2. /\ Audited(r) = {} => Audited(r)' = {1} /\ 1 \in 1 .. Len(trail')
        /\ \A o \in Req \ {r} :
             /\ Audited(o) = {} => Audited(o)' = {}
             /\ \A i \in 1 .. Len(trail) :
                  Audited(o) = {i} =>
                    Audited(o)' = {i + 1} /\ i + 1 \in 1 .. Len(trail')
    BY <2>1, AuditOwners DEF TypeOK, Event
  <2>3. Audits(r)' /\ ~ Audits(r) /\ \A o \in Req \ {r} : Audits(o)' <=> Audits(o)
    BY <1>6, GoesOnStep DEF TypeOK, Audits
  <2> QED BY <2>2, <2>3 DEF TrailInv
<1>7. ASSUME NEW r \in Req, record_returns(r) PROVE TrailInv'
  BY <1>1, <1>7 DEF TypeOK, HandlerInv, Audits, record_returns
<1>8. ASSUME NEW r \in Req, record_raises(r) PROVE TrailInv'
  BY <1>1, <1>8 DEF TypeOK, HandlerInv, Audits, record_raises
<1>9. CASE UNCHANGED vars
  BY <1>1, <1>9 DEF Audits, vars
<1> QED
  BY <1>2, <1>3, <1>4, <1>5, <1>6, <1>7, <1>8, <1>9, OverStep
  DEF Next

(***************************************************************************)
(* A handler that has no event yet is not named in the trail.              *)
(***************************************************************************)
LEMMA NoEventYet ==
  ASSUME TypeOK, TrailInv, NEW r \in Req, ~ Audits(r)
  PROVE  \A i \in 1 .. Len(trail) : trail[i].req # r
BY DEF TrailInv, Audited

LEMMA ExitNext ==
  TypeOK /\ HandlerInv /\ TrailInv /\ ExitInv /\ [Next]_vars => ExitInv'
<1> SUFFICES ASSUME TypeOK, HandlerInv, TrailInv, ExitInv, [Next]_vars
             PROVE  ExitInv'
  OBVIOUS
<1>1. \A i \in 1 .. Len(trail) : trail[i].req \in Req
  <2>1. \A i \in 1 .. Len(trail) : trail[i] \in Event
    BY ElementOfSeq DEF TypeOK, Event
  <2> QED BY <2>1 DEF Event
<1>2. ASSUME NEW r \in Req, NEW q \in Request, reject(r, q) PROVE ExitInv'
  BY <1>1, <1>2, NoEventYet DEF TypeOK, HandlerInv, ExitInv, Audits, reject
<1>3. ASSUME NEW r \in Req, NEW q \in Request, exec_command(r, q) PROVE ExitInv'
  BY <1>1, <1>3, NoEventYet DEF TypeOK, HandlerInv, ExitInv, Audits, exec_command
<1>4. ASSUME NEW r \in Req, spire_applies(r) PROVE ExitInv'
  BY <1>1, <1>4 DEF TypeOK, ExitInv, spire_applies
<1>5. ASSUME NEW r \in Req, spire_refuses(r) PROVE ExitInv'
  BY <1>1, <1>5 DEF TypeOK, ExitInv, spire_refuses
<1>6. ASSUME NEW r \in Req, NEW code \in { 0, 1 }, NEW found \in BOOLEAN,
             code = 0 => cli[r] = "exit0", goes_on(r, code, found)
      PROVE  ExitInv'
  <2>1. PICK s \in { "SUCCESS", "FAILED", "ATTEMPTED" } :
          /\ audit(r, s)
          /\ s = "SUCCESS" /\ request[r].op \in { "create", "delete" } => code = 0
    BY <1>6, GoesOnStep
  <2>2. /\ trail'[1] = [req |-> r, status |-> s]
        /\ \A i \in 2 .. Len(trail') :
             i - 1 \in 1 .. Len(trail) /\ trail'[i] = trail[i - 1]
        /\ Len(trail') \in Nat
    BY <2>1, AuditStep, LenProperties DEF TypeOK, Event
  <2>3. trail'[1].req = r /\ trail'[1].status = s
    BY <2>2
  <2>4. UNCHANGED << request, cli >>
    BY <1>6, GoesOnStep
  <2>5. SUFFICES ASSUME NEW i \in 1 .. Len(trail'),
                        trail'[i].status = "SUCCESS",
                        request[trail'[i].req].op \in { "create", "delete" }
                 PROVE  cli[trail'[i].req] = "exit0"
    BY <2>4 DEF ExitInv
  <2>6. CASE i = 1
    BY <1>6, <2>1, <2>3, <2>5, <2>6
  <2>7. CASE i # 1
    <3>1. i \in 2 .. Len(trail')
      BY <2>2, <2>7
    <3> QED BY <2>2, <2>5, <3>1 DEF ExitInv
  <2> QED BY <2>6, <2>7
<1>7. ASSUME NEW r \in Req, record_returns(r) PROVE ExitInv'
  BY <1>7 DEF ExitInv, record_returns
<1>8. ASSUME NEW r \in Req, record_raises(r) PROVE ExitInv'
  BY <1>8 DEF ExitInv, record_raises
<1>9. CASE UNCHANGED vars
  BY <1>9 DEF ExitInv, vars
<1> QED
  BY <1>2, <1>3, <1>4, <1>5, <1>6, <1>7, <1>8, <1>9, OverStep
  DEF Next

-----------------------------------------------------------------------------
(* What a command that exited with code 0 did to the datastore.            *)

(***************************************************************************)
(* A command that may still run has used no id of its own, so the entry it *)
(* would create cannot be one that was deleted.                            *)
(***************************************************************************)
LEMMA UsedStep ==
  ASSUME TypeOK, NEW r \in Req, cli[r] = "running",
         NEW exit \in { "exit0", "exit1" }, cli' = [cli EXCEPT ![r] = exit]
  PROVE  r \notin Used /\ Used' = Used \cup {r}
<1>1. r \notin Used
  BY InitialAssumption DEF Used
<1>2. Used' = Used \cup {r}
  BY DEF Used, TypeOK
<1> QED BY <1>1, <1>2

LEMMA EffectNext ==
  TypeOK /\ HandlerInv /\ EffectInv /\ [Next]_vars => EffectInv'
<1> SUFFICES ASSUME TypeOK, HandlerInv, EffectInv, [Next]_vars PROVE EffectInv'
  OBVIOUS
<1> USE DEF Created
<1>1. ASSUME NEW r \in Req, NEW q \in Request,
             reject(r, q) \/ exec_command(r, q)
      PROVE  EffectInv'
  <2>1. cli[r] = "none" /\ request[r] = None /\ pc[r] = "idle"
    BY <1>1 DEF HandlerInv, reject, exec_command
  <2>2. UNCHANGED datastore /\ request' = [request EXCEPT ![r] = q]
        /\ \E s \in { "none", "running" } : cli' = [cli EXCEPT ![r] = s]
    BY <1>1, <2>1 DEF TypeOK, reject, exec_command
  <2>3. Used' = Used /\ Registered' = Registered
    BY <2>1, <2>2 DEF Used, Registered, TypeOK
  <2>4. \A d \in Req : request[d].op = "delete" => d # r
    BY <2>1 DEF None
  <2> QED BY <2>1, <2>2, <2>3, <2>4 DEF EffectInv, TypeOK
<1>2. ASSUME NEW r \in Req, spire_applies(r) PROVE EffectInv'
  <2>1. cli[r] = "running" /\ UNCHANGED request
        /\ \E exit \in { "exit0", "exit1" } : cli' = [cli EXCEPT ![r] = exit]
    BY <1>2 DEF spire_applies
  <2>2. r \notin Used /\ Used' = Used \cup {r}
    BY <1>2, <2>1, UsedStep
  <2>3. CASE request[r].op = "create"
    <3>1. PICK e : e.id = r /\ datastore' = datastore \cup {e}
      <4> DEFINE new == [id |-> r, identity |-> request[r].identity]
      <4>1. new.id = r /\ datastore' = datastore \cup {new}
        BY <1>2, <2>3 DEF spire_applies
      <4> QED BY <4>1
    <3>2. Registered' = Registered \cup {r}
      BY <3>1 DEF Registered
    <3> QED BY <2>1, <2>2, <2>3, <3>2 DEF EffectInv, TypeOK
  <2>4. CASE request[r].op = "delete"
    <3>1. /\ Registered' = Registered \ {request[r].id}
          /\ request[r].id \in Registered
      BY <1>2, <2>4 DEF spire_applies, Registered
    <3> QED BY <2>1, <2>2, <2>4, <3>1 DEF EffectInv, TypeOK
  <2>5. CASE request[r].op = "token"
    <3>1. Registered' = Registered
      BY <1>2, <2>5 DEF spire_applies, Registered
    <3> QED BY <2>1, <2>2, <2>5, <3>1 DEF EffectInv, TypeOK
  <2> QED BY <1>2, <2>3, <2>4, <2>5 DEF spire_applies
<1>3. ASSUME NEW r \in Req, spire_refuses(r) PROVE EffectInv'
  <2>1. Used' = Used \cup {r}
    BY <1>3, UsedStep DEF spire_refuses
  <2> QED BY <1>3, <2>1 DEF EffectInv, TypeOK, spire_refuses, Registered
<1>4. ASSUME UNCHANGED << datastore, request, cli >> PROVE EffectInv'
  BY <1>4 DEF EffectInv, Used, Registered
<1>5. ASSUME NEW r \in Req, NEW code \in { 0, 1 }, NEW found \in BOOLEAN,
             goes_on(r, code, found)
      PROVE  EffectInv'
  BY <1>4, <1>5, GoesOnStep
<1>6. ASSUME NEW r \in Req, record_returns(r) \/ record_raises(r)
      PROVE  EffectInv'
  BY <1>4, <1>6 DEF record_returns, record_raises
<1>7. CASE UNCHANGED vars
  BY <1>4, <1>7 DEF vars
<1> QED
  BY <1>1, <1>2, <1>3, <1>5, <1>6, <1>7, OverStep
  DEF Next

LEMMA PrintedNext ==
  TypeOK /\ HandlerInv /\ PrintedInv /\ [Next]_vars => PrintedInv'
<1> SUFFICES ASSUME TypeOK, HandlerInv, PrintedInv, [Next]_vars PROVE PrintedInv'
  OBVIOUS
<1>1. ASSUME NEW r \in Req, NEW q \in Request,
             reject(r, q) \/ exec_command(r, q)
      PROVE  PrintedInv'
  <2>1. cli[r] = "none" /\ request[r] = None /\ r \notin printed
    BY <1>1 DEF HandlerInv, PrintedInv, reject, exec_command
  <2>2. UNCHANGED << datastore, minted, printed >> /\ request' = [request EXCEPT ![r] = q]
        /\ \E s \in { "none", "running" } : cli' = [cli EXCEPT ![r] = s]
    BY <1>1, <2>1 DEF TypeOK, reject, exec_command
  <2>3. \A d \in Req : request[d].op = "delete" => d # r
    BY <2>1 DEF None
  <2>4. Registered' = Registered
    BY <2>2 DEF Registered
  <2>5. \A o \in Req : Created(o) => Created(o)'
    BY <2>2, <2>3, <2>4 DEF Created, TypeOK
  <2>6. \A o \in printed : cli'[o] = cli[o] /\ request'[o] = request[o] /\ o \in Req
    BY <2>1, <2>2 DEF TypeOK
  <2> QED BY <2>2, <2>5, <2>6 DEF PrintedInv
<1>2. ASSUME NEW r \in Req, spire_applies(r) PROVE PrintedInv'
  <2>1. /\ cli[r] = "running" /\ UNCHANGED request
        /\ \E exit \in { "exit0", "exit1" } : cli' = [cli EXCEPT ![r] = exit]
        /\ printed' \subseteq printed \cup {r} /\ minted \subseteq minted'
    BY <1>2 DEF spire_applies
  <2>2. \A o \in Req : Created(o) => Created(o)'
    <3>1. CASE request[r].op = "delete"
      <4>1. Registered' = Registered \ {request[r].id}
        BY <1>2, <3>1 DEF spire_applies, Registered
      <4> QED BY <2>1, <3>1, <4>1 DEF Created
    <3>2. CASE request[r].op # "delete"
      <4>1. datastore \subseteq datastore'
        BY <1>2, <3>2 DEF spire_applies
      <4>2. Registered \subseteq Registered'
        BY <4>1 DEF Registered
      <4> QED BY <2>1, <4>2 DEF Created
    <3> QED BY <3>1, <3>2
  <2>3. /\ request[r].op = "create" => Created(r)'
        /\ request[r].op = "token" => r \in minted'
    <3>1. CASE request[r].op = "create"
      <4> DEFINE new == [id |-> r, identity |-> request[r].identity]
      <4>1. new.id = r /\ new \in datastore'
        BY <1>2, <3>1 DEF spire_applies
      <4> HIDE DEF new
      <4>2. r \in Registered'
        BY <4>1 DEF Registered
      <4> QED BY <3>1, <4>2 DEF Created
    <3>2. CASE request[r].op # "create"
      BY <1>2, <3>2 DEF spire_applies
    <3> QED BY <3>1, <3>2
  <2>4. \A o \in printed : o # r /\ o \in Req
    BY <2>1 DEF PrintedInv, TypeOK
  <2>5. cli'[r] \in { "exit0", "exit1" } /\ \A o \in Req \ {r} : cli'[o] = cli[o]
    BY <2>1 DEF TypeOK
  <2> QED BY <2>1, <2>2, <2>3, <2>4, <2>5 DEF PrintedInv
<1>3. ASSUME NEW r \in Req, spire_refuses(r) PROVE PrintedInv'
  BY <1>3 DEF PrintedInv, TypeOK, spire_refuses, Registered, Created
<1>4. ASSUME UNCHANGED << datastore, minted, request, cli, printed >> PROVE PrintedInv'
  BY <1>4 DEF PrintedInv, Registered, Created
<1>5. ASSUME NEW r \in Req, NEW code \in { 0, 1 }, NEW found \in BOOLEAN,
             goes_on(r, code, found)
      PROVE  PrintedInv'
  BY <1>4, <1>5, GoesOnStep
<1>6. ASSUME NEW r \in Req, record_returns(r) \/ record_raises(r)
      PROVE  PrintedInv'
  BY <1>4, <1>6 DEF record_returns, record_raises
<1>7. CASE UNCHANGED vars
  BY <1>4, <1>7 DEF vars
<1> QED
  BY <1>1, <1>2, <1>3, <1>5, <1>6, <1>7, OverStep
  DEF Next

(***************************************************************************)
(* What a reply of r rests on.                                             *)
(***************************************************************************)
Grounded(r) ==
  /\ pc[r] \in { "idle", "waiting" } => reply[r].status = "none"
  /\ reply[r].status = "success" => cli[r] = "exit0" /\ request[r].op = "create"
  /\ reply[r].status \in { "success", "simulated" } /\ reply[r].id # Fabricated =>
       reply[r].id = r /\ r \in printed /\ request[r].op = "create"
  /\ reply[r].status = "token" /\ reply[r].genuine =>
       r \in printed /\ request[r].op = "token"

LEMMA ReplyNext ==
  TypeOK /\ HandlerInv /\ ReplyInv /\ [Next]_vars => ReplyInv'
<1> SUFFICES ASSUME TypeOK, HandlerInv, ReplyInv, [Next]_vars PROVE ReplyInv'
  OBVIOUS
<1>a. \A r \in Req : Grounded(r)
  BY DEF ReplyInv, Replied, Grounded
<1>b. SUFFICES ASSUME NEW o \in Req PROVE Grounded(o)'
  BY DEF ReplyInv, Replied, Grounded
<1>c. Grounded(o)
  BY <1>a
<1>1. ASSUME NEW r \in Req, NEW q \in Request, reject(r, q) PROVE Grounded(o)'
  BY <1>1, <1>c DEF TypeOK, reject, Say, Grounded
<1>2. ASSUME NEW r \in Req, NEW q \in Request, exec_command(r, q) PROVE Grounded(o)'
  BY <1>2, <1>c DEF TypeOK, exec_command, Grounded
<1>3. ASSUME NEW r \in Req, spire_applies(r) PROVE Grounded(o)'
  <2>1. /\ cli[r] = "running" /\ UNCHANGED << request, pc, reply >>
        /\ \E exit \in { "exit0", "exit1" } : cli' = [cli EXCEPT ![r] = exit]
        /\ printed \subseteq printed'
    BY <1>3 DEF spire_applies
  <2> QED BY <2>1, <1>c DEF TypeOK, Grounded
<1>4. ASSUME NEW r \in Req, spire_refuses(r) PROVE Grounded(o)'
  BY <1>4, <1>c DEF TypeOK, spire_refuses, Grounded
<1>5. ASSUME NEW r \in Req, NEW code \in { 0, 1 }, NEW found \in BOOLEAN,
             code = 0 => cli[r] = "exit0", found => r \in printed,
             goes_on(r, code, found)
      PROVE  Grounded(o)'
  <2>1. /\ UNCHANGED << request, cli, printed >>
        /\ pc' = [pc EXCEPT ![r] = "recording"]
    BY <1>5 DEF goes_on
  <2>2. CASE o # r
    <3>1. reply'[o] = reply[o]
      BY <1>5, <2>2 DEF goes_on, create_entry, delete_entry, generate_join_token, TypeOK
    <3> QED BY <1>c, <2>1, <2>2, <3>1 DEF TypeOK, Grounded
  <2>3. CASE o = r /\ create_entry(r, code, found)
    <3>1. /\ reply'[r].status = IF code = 0 THEN "success" ELSE "simulated"
          /\ reply'[r].id = IF found THEN r ELSE Fabricated
          /\ request[r].op = "create"
      BY <2>3 DEF create_entry, TypeOK
    <3> QED BY <1>5, <2>1, <2>3, <3>1 DEF TypeOK, Grounded
  <2>4. CASE o = r /\ delete_entry(r, code)
    <3>1. reply'[r].status = "deleted"
      BY <2>4 DEF delete_entry, TypeOK, Say
    <3> QED BY <2>1, <2>4, <3>1 DEF TypeOK, Grounded
  <2>5. CASE o = r /\ generate_join_token(r, found)
    <3>1. reply'[r].status = "token" /\ reply'[r].genuine = found /\ request[r].op = "token"
      BY <2>5 DEF generate_join_token, TypeOK
    <3> QED BY <1>5, <2>1, <2>5, <3>1 DEF TypeOK, Grounded
  <2> QED BY <1>5, <2>2, <2>3, <2>4, <2>5 DEF goes_on
<1>6. ASSUME NEW r \in Req, record_returns(r) PROVE Grounded(o)'
  BY <1>6, <1>c DEF TypeOK, record_returns, Grounded
<1>7. ASSUME NEW r \in Req, record_raises(r) PROVE Grounded(o)'
  BY <1>7, <1>c DEF TypeOK, record_raises, Say, Grounded
<1>8. CASE UNCHANGED vars
  BY <1>8, <1>c DEF vars, Grounded
<1> QED
  BY <1>1, <1>2, <1>3, <1>4, <1>5, <1>6, <1>7, <1>8, OverStep DEF Next

-----------------------------------------------------------------------------
(* The theorems.                                                           *)

LEMMA InvInit == Init => Inv
<1> SUFFICES ASSUME Init PROVE Inv
  OBVIOUS
<1>1. TypeOK
  BY TypeInit
<1>2. HandlerInv /\ \A r \in Req : ~ Audits(r)
  BY DEF Init, HandlerInv, Audits
<1>3. TrailInv /\ ExitInv
  BY <1>2, EmptySeq DEF Init, TrailInv, ExitInv, Audited
<1>4. EffectInv
  BY DEF Init, EffectInv, Registered, Used
<1>5. PrintedInv /\ ReplyInv
  BY DEF Init, PrintedInv, ReplyInv, Replied, Say
<1> QED BY <1>1, <1>2, <1>3, <1>4, <1>5 DEF Inv

LEMMA InvNext == Inv /\ [Next]_vars => Inv'
BY TypeNext, HandlerNext, TrailNext, ExitNext, EffectNext, PrintedNext, ReplyNext DEF Inv

(***************************************************************************)
(* Types, and the truth of the replies: whatever the exit code and the     *)
(* output of a command say of each other, and whenever it runs, a create   *)
(* that is called a success, or names an id not made up, has created that  *)
(* entry, and a token that is not a mock is one SPIRE minted.              *)
(***************************************************************************)
THEOREM RepliesTellTheTruth == Spec => []SpireInv
<1>1. Inv => SpireInv
  <2> SUFFICES ASSUME Inv PROVE RepliesAreReal
    BY DEF Inv, SpireInv
  <2>1. \A r \in Replied("success") : Created(r)
    BY DEF Inv, ReplyInv, EffectInv, Replied
  <2>2. ASSUME NEW r \in Replied("success") \cup Replied("simulated"),
               reply[r].id # Fabricated
        PROVE  reply[r].id = r /\ Created(r)
    BY <2>2 DEF Inv, ReplyInv, PrintedInv
  <2>3. ASSUME NEW r \in Replied("token"), reply[r].genuine PROVE r \in minted
    BY <2>3 DEF Inv, ReplyInv, PrintedInv
  <2> QED BY <2>1, <2>2, <2>3 DEF RepliesAreReal
<1>2. Spec => []Inv
  BY InvInit, InvNext, PTL DEF Spec
<1> QED BY <1>1, <1>2, PTL

(***************************************************************************)
(* A create or delete the audit trail calls a success is one in SPIRE's    *)
(* datastore, for any number of concurrent requests and whenever the       *)
(* commands a timeout left running take effect.                            *)
(***************************************************************************)
THEOREM AuditTellsTheTruth == Spec => []SuccessIsReal
<1>1. Inv => SuccessIsReal
  <2> SUFFICES ASSUME Inv, NEW r \in Succeeded
               PROVE  /\ request[r].op = "create" => Created(r)
                      /\ request[r].op = "delete" =>
                           request[r].id \notin Registered
    BY DEF SuccessIsReal
  <2>1. r \in Req /\ \E i \in 1 .. Len(trail) :
          trail[i].req = r /\ trail[i].status = "SUCCESS"
    BY DEF Succeeded, Audited
  <2>2. request[r].op \in { "create", "delete" } => cli[r] = "exit0"
    BY <2>1 DEF Inv, ExitInv
  <2> QED BY <2>1, <2>2 DEF Inv, EffectInv
<1>2. Spec => []Inv
  BY InvInit, InvNext, PTL DEF Spec
<1> QED BY <1>1, <1>2, PTL

(***************************************************************************)
(* A handler that is over leaves exactly one audit event if it ran a       *)
(* command and none if it rejected the request, however the command and    *)
(* record_event ended.                                                     *)
(***************************************************************************)
THEOREM NoCommandUnaudited == Spec => []OneAuditPerCommand
<1>1. Inv => OneAuditPerCommand
  <2> SUFFICES ASSUME Inv, NEW r \in Req, pc[r] = "replied"
               PROVE  Cardinality(Audited(r)) = IF cli[r] = "none" THEN 0 ELSE 1
    BY DEF OneAuditPerCommand
  <2>1. CASE cli[r] = "none"
    <3>1. Audited(r) = {}
      BY <2>1 DEF Inv, TrailInv, Audits
    <3> QED BY <2>1, <3>1, FS_EmptySet
  <2>2. CASE cli[r] # "none"
    <3>1. \E i : Audited(r) = {i}
      BY <2>2 DEF Inv, TrailInv, Audits
    <3> QED BY <2>2, <3>1, FS_Singleton
  <2> QED BY <2>1, <2>2
<1>2. Spec => []Inv
  BY InvInit, InvNext, PTL DEF Spec
<1> QED BY <1>1, <1>2, PTL

-----------------------------------------------------------------------------
(* The service as a client of the event service.                           *)

CONSTANTS
  SeedEvents,    \* what the event service's log holds at the start
  MaxLogs        \* and how much it can hold

SeedsFit ==
  SeedEvents \in Seq(STRING) /\ MaxLogs \in Nat /\ Len(SeedEvents) <= MaxLogs

(***************************************************************************)
(* The requests whose handlers have called record_event, the latest first, *)
(* and what a reader of the log sees of them.                              *)
(***************************************************************************)
Callers == [i \in 1 .. Len(trail) |-> trail[i].req]

Visible(s) == SubSeq(s, 1, IF Len(s) <= MaxLogs THEN Len(s) ELSE MaxLogs)

Log == INSTANCE AuditTrail WITH
         Event <- Req, trail <- Callers, window <- Visible(Callers \o SeedEvents)

(***************************************************************************)
(* An event in front of the trail is a caller in front of the callers.     *)
(***************************************************************************)
LEMMA CallersStep ==
  ASSUME trail \in Seq(Event), NEW r \in Req,
         NEW s \in { "SUCCESS", "FAILED", "ATTEMPTED" }, audit(r, s)
  PROVE  Callers' = << r >> \o Callers
<1>1. /\ trail' \in Seq(Event)
      /\ Len(trail') = Len(trail) + 1
      /\ trail'[1] = [req |-> r, status |-> s]
      /\ \A i \in 2 .. Len(trail') :
           i - 1 \in 1 .. Len(trail) /\ trail'[i] = trail[i - 1]
  BY AuditStep
<1>2. trail'[1].req = r
  BY <1>1
<1>3. \A q \in Seq(Event) : Len(q) \in Nat /\ \A i \in 1 .. Len(q) : q[i] \in Event
  BY LenProperties, ElementOfSeq
<1>4. Len(trail) \in Nat /\ \A i \in 1 .. Len(trail) : trail[i].req \in Req
  BY <1>3 DEF Event
<1>5. /\ Callers \in Seq(Req) /\ Len(Callers) = Len(trail)
      /\ \A i \in 1 .. Len(trail) : Callers[i] = trail[i].req
  BY <1>4 DEF Callers
<1>6. \A i \in 1 .. Len(trail') : trail'[i].req \in Req
  BY <1>1, <1>3 DEF Event
<1>7. /\ Callers' \in Seq(Req) /\ Len(Callers') = Len(trail) + 1
      /\ \A i \in 1 .. Len(trail') : Callers'[i] = trail'[i].req
  BY <1>1, <1>4, <1>6 DEF Callers
<1>8. << r >> \in Seq(Req) /\ Len(<< r >>) = 1 /\ << r >>[1] = r
  OBVIOUS
<1>9. /\ << r >> \o Callers \in Seq(Req)
      /\ Len(<< r >> \o Callers) = 1 + Len(Callers)
      /\ \A i \in 1 .. 1 + Len(Callers) :
           (<< r >> \o Callers)[i] = IF i <= 1 THEN << r >>[i] ELSE Callers[i - 1]
  BY <1>5, <1>8, ConcatProperties
<1>10. \A i \in 1 .. Len(trail) + 1 : Callers'[i] = (<< r >> \o Callers)[i]
  <2> SUFFICES ASSUME NEW i \in 1 .. Len(trail) + 1
               PROVE  Callers'[i] = (<< r >> \o Callers)[i]
    OBVIOUS
  <2>1. CASE i = 1
    <3>1. Callers'[1] = r
      BY <1>2, <1>1, <1>4, <1>7
    <3>2. (<< r >> \o Callers)[1] = r
      BY <1>4, <1>5, <1>8, <1>9
    <3> QED BY <2>1, <3>1, <3>2
  <2>2. CASE i \in 2 .. Len(trail')
    <3>1. Callers'[i] = trail[i - 1].req /\ i - 1 \in 1 .. Len(trail)
      BY <1>1, <1>7, <2>2
    <3>2. (<< r >> \o Callers)[i] = Callers[i - 1]
      BY <1>4, <1>5, <1>9, <2>2
    <3> QED BY <1>5, <3>1, <3>2
  <2>3. i = 1 \/ i \in 2 .. Len(trail')
    <3>1. Len(trail') = Len(trail) + 1
      BY <1>1
    <3> QED BY <1>4, <3>1
  <2> QED BY <2>1, <2>2, <2>3
<1> QED BY <1>4, <1>5, <1>7, <1>9, <1>10, SeqEqual

(***************************************************************************)
(* The service uses the event service as AuditTrail allows: every request  *)
(* calls record_event at most once, so the log that readers see is a       *)
(* window of distinct events of distinct requests, however the commands,   *)
(* the timeouts and the ends of record_event interleave.                   *)
(***************************************************************************)
THEOREM TrailIsAnAuditTrail == SeedsFit /\ Spec => Log!Spec
<1>1. SeedsFit /\ Init => Log!Init
  <2> SUFFICES ASSUME SeedsFit, Init PROVE Log!Init
    OBVIOUS
  <2>1. Callers = << >>
    BY DEF Init, Callers
  <2>2. SeedEvents \in Seq(STRING) /\ Len(SeedEvents) \in Nat
    BY LenProperties DEF SeedsFit
  <2>3. << >> \o SeedEvents = SeedEvents
    BY <2>2, ConcatEmptySeq
  <2>4. Visible(SeedEvents) = SubSeq(SeedEvents, 1, Len(SeedEvents))
    BY DEF Visible, SeedsFit
  <2>5. SubSeq(SeedEvents, 1, Len(SeedEvents)) = SeedEvents
    BY <2>2, SubSeqFull
  <2> QED BY <2>1, <2>3, <2>4, <2>5 DEF Log!Init
<1>2. Inv /\ [Next]_vars => [Log!Next]_<< Callers, Visible(Callers \o SeedEvents) >>
  <2> SUFFICES ASSUME Inv, [Next]_vars
               PROVE  Log!Next \/ UNCHANGED << Callers, Visible(Callers \o SeedEvents) >>
    OBVIOUS
  <2>1. ASSUME trail' = trail
        PROVE  UNCHANGED << Callers, Visible(Callers \o SeedEvents) >>
    BY <2>1 DEF Callers, Visible
  <2>2. ASSUME NEW r \in Req, NEW code \in { 0, 1 }, NEW found \in BOOLEAN,
             pc[r] = "waiting", goes_on(r, code, found)
        PROVE  Log!Record(r)
    <3>1. PICK s \in { "SUCCESS", "FAILED", "ATTEMPTED" } : audit(r, s)
      BY <2>2, GoesOnStep DEF Inv, TypeOK
    <3>2. Callers' = << r >> \o Callers
      BY <3>1, CallersStep DEF Inv, TypeOK, Event
    <3>3. \A i \in 1 .. Len(trail) : trail[i].req # r
      BY <2>2, NoEventYet DEF Inv, Audits
    <3>4. \A i \in 1 .. Len(Callers) : Callers[i] # r
      <4>1. Len(trail) \in Nat
        BY LenProperties DEF Inv, TypeOK
      <4>2. Len(Callers) = Len(trail)
        BY <4>1 DEF Callers
      <4> QED BY <3>3, <4>2 DEF Callers
    <3> QED BY <3>2, <3>4 DEF Log!Record, Log!Prefix, Visible
  <2>3. CASE trail' = trail
    BY <2>1, <2>3
  <2>4. CASE trail' # trail
    <3>1. \E r \in Req : exec_returns(r) \/ exec_times_out(r)
      BY <2>4 DEF Next, vars, reject, exec_command, spire_applies, spire_refuses,
                  record_returns, record_raises
    <3>2. \E r \in Req : \E code \in { 0, 1 }, found \in BOOLEAN :
            pc[r] = "waiting" /\ goes_on(r, code, found)
      BY <3>1, OverStep
    <3> QED BY <2>2, <3>2 DEF Log!Next
  <2> QED BY <2>3, <2>4
<1>3. Spec => []Inv
  BY InvInit, InvNext, PTL DEF Spec
<1> QED BY <1>1, <1>2, <1>3, PTL DEF Spec, Log!Spec

-----------------------------------------------------------------------------
(* The bootstrap script, the other client of the SPIRE server's commands.  *)

CONSTANTS MaxRetries, AgentRetries, MaxScripts, MaxFlaps

VARIABLES
  healthy, agent, entries, svids, workload, lastRequest, flaps,
  line,          \* where the script is: the pc of Bootstrap
  retries, existing, scripts

Boot == INSTANCE Bootstrap WITH pc <- line

(***************************************************************************)
(* Only an attested agent holds SVIDs, of registered workloads, and a      *)
(* workload has its identity only from such an agent.  SVIDs run out, but  *)
(* the script never takes the attestation or a registration back.          *)
(***************************************************************************)
Identities ==
  /\ svids # {} => agent = "attested"
  /\ \A w \in Boot!Workload :
       workload[w] = "ready" => agent = "attested" /\ w \in entries

(***************************************************************************)
(* What the script has behind it at each of its lines.                     *)
(***************************************************************************)
Labels ==
  /\ line = "client-worker" => "backend-api" \in entries
  /\ line \in { "restart", "wait_backend", "complete" } => entries = Boot!Workload
  /\ line = "wait_backend" => retries < MaxRetries
  /\ line = "complete" => agent = "attested"

BootInv == Boot!TypeOK /\ Identities /\ Labels

(***************************************************************************)
(* What Bootstrap assumes of its constants.                                *)
(***************************************************************************)
Bounds ==
  /\ MaxRetries \in Nat \ {0} /\ AgentRetries \in Nat \ {0}
  /\ MaxScripts \in Nat /\ MaxFlaps \in Nat

LEMMA BootInit == Bounds /\ Boot!Init => BootInv
<1> SUFFICES ASSUME Bounds, Boot!Init PROVE BootInv
  OBVIOUS
<1>1. Boot!TypeOK
  <2>1. retries \in 0..(MaxRetries + AgentRetries)
        /\ flaps \in 0..MaxFlaps /\ scripts \in 0..MaxScripts
    BY DEF Bounds, Boot!Init
  <2> QED BY <2>1 DEF Boot!Init, Boot!TypeOK
<1>2. Identities /\ Labels
  BY DEF Boot!Init, Identities, Labels
<1> QED BY <1>1, <1>2 DEF BootInv

(***************************************************************************)
(* A step of the script alone keeps what is known of the containers.       *)
(***************************************************************************)
LEMMA ScriptAlone ==
  ASSUME Bounds, BootInv, UNCHANGED << Boot!containers, scripts >>,
         line' \in { "none", "wait_server", "agent", "token", "wait_agent",
                      "entries", "restart", "wait_backend", "complete",
                      "exit_1" } \cup Boot!Workload,
         retries' \in 0..(MaxRetries + AgentRetries),
         existing' \subseteq entries, Labels'
  PROVE  BootInv'
BY DEF BootInv, Boot!TypeOK, Boot!containers, Identities

LEMMA ScriptInv ==
  ASSUME Bounds, BootInv, Boot!ScriptStep PROVE BootInv'
<1> USE DEF Boot!Goto, Boot!Fresh, Boot!Exit
<1>a. /\ retries \in 0..(MaxRetries + AgentRetries) /\ existing \subseteq entries
      /\ MaxRetries \in Nat \ {0} /\ AgentRetries \in Nat
      /\ entries \subseteq Boot!Workload
  BY DEF BootInv, Boot!TypeOK, Bounds
<1>b. Labels
  BY DEF BootInv
<1>1. CASE Boot!WaitServer
  <2>1. /\ line' \in { "wait_server", "exit_1", "agent" } /\ UNCHANGED existing
    BY <1>1 DEF Boot!WaitServer
  <2>2. retries' = retries \/ (retries < MaxRetries /\ retries' = retries + 1)
    BY <1>1 DEF Boot!WaitServer
  <2>3. UNCHANGED << Boot!containers, scripts >>
    BY <1>1 DEF Boot!WaitServer
  <2>4. Labels'
    BY <2>1, <2>3 DEF Labels
  <2>5. retries' \in 0..(MaxRetries + AgentRetries)
    BY <1>a, <2>2
  <2> QED BY <1>a, <2>1, <2>3, <2>4, <2>5, ScriptAlone
<1>2. CASE Boot!FindAgent
  <2>1. /\ line' \in { "entries", "token" } /\ UNCHANGED existing
    BY <1>2 DEF Boot!FindAgent
  <2>2. retries' = 0
    BY <1>2 DEF Boot!FindAgent
  <2>3. UNCHANGED << Boot!containers, scripts >>
    BY <1>2 DEF Boot!FindAgent
  <2>4. Labels'
    BY <2>1, <2>3 DEF Labels
  <2>5. retries' \in 0..(MaxRetries + AgentRetries)
    BY <1>a, <2>2
  <2> QED BY <1>a, <2>1, <2>3, <2>4, <2>5, ScriptAlone
<1>3. CASE Boot!LaunchAgent
  <2>1. /\ line' \in { "wait_agent", "exit_1" } /\ UNCHANGED << existing, scripts >>
        /\ agent' \in { agent, "started" } /\ (agent = "attested" => agent' = agent)
        /\ svids' = {} \/ (svids' = svids /\ agent' = agent)
    BY <1>3 DEF Boot!LaunchAgent, Boot!StartAgent
  <2>2. retries' = 0 \/ retries' = retries
    BY <1>3 DEF Boot!LaunchAgent
  <2>3. UNCHANGED << healthy, entries, workload, lastRequest, flaps >>
    BY <1>3 DEF Boot!LaunchAgent
  <2>4. Labels'
    BY <2>1, <2>3 DEF Labels
  <2>5. retries' \in 0..(MaxRetries + AgentRetries)
    BY <1>a, <2>2
  <2>6. Boot!TypeOK'
    BY <2>1, <2>3, <2>5 DEF BootInv, Boot!TypeOK
  <2>7. Identities'
    BY <2>1, <2>3 DEF BootInv, Identities
  <2> QED BY <2>4, <2>6, <2>7 DEF BootInv
<1>4. CASE Boot!WaitAgent
  <2>1. /\ line' \in { "wait_agent", "entries" } /\ UNCHANGED existing
    BY <1>4 DEF Boot!WaitAgent
  <2>2. retries' = retries \/ (retries < AgentRetries /\ retries' = retries + 1)
    BY <1>4 DEF Boot!WaitAgent
  <2>3. UNCHANGED << Boot!containers, scripts >>
    BY <1>4 DEF Boot!WaitAgent
  <2>4. Labels'
    BY <2>1, <2>3 DEF Labels
  <2>5. retries' \in 0..(MaxRetries + AgentRetries)
    BY <1>a, <2>2
  <2> QED BY <1>a, <2>1, <2>3, <2>4, <2>5, ScriptAlone
<1>5. CASE Boot!ShowEntries
  <2>1. /\ line' = "backend-api" /\ existing' \subseteq entries /\ UNCHANGED retries
    BY <1>5 DEF Boot!ShowEntries
  <2>2. UNCHANGED << Boot!containers, scripts >>
    BY <1>5 DEF Boot!ShowEntries
  <2>3. Labels'
    BY <2>1, <2>2 DEF Labels
  <2>4. line' \in Boot!Workload
    BY <2>1, <2>2 DEF Boot!Workload
  <2> QED BY <1>a, <2>1, <2>2, <2>3, <2>4, ScriptAlone
<1>6. ASSUME NEW w \in Boot!Workload, Boot!Register(w) PROVE BootInv'
  <2>1. \/ /\ entries' = entries \cup {w}
           /\ line' = IF w = "backend-api" THEN "client-worker" ELSE "restart"
        \/ entries' = entries /\ line' = "exit_1"
    BY <1>6, <1>a DEF Boot!Register
  <2>2. /\ line = w
        /\ UNCHANGED << healthy, agent, svids, workload, lastRequest, flaps, retries,
                        existing, scripts >>
    BY <1>6 DEF Boot!Register
  <2>3. w \in { "backend-api", "client-worker" }
    BY DEF Boot!Workload
  <2>4. Labels'
    <3>1. CASE w = "backend-api"
      BY <2>1, <3>1 DEF Labels
    <3>2. CASE w = "client-worker"
      <4>1. line' \in { "restart", "exit_1" }
        BY <2>1, <3>2
      <4>2. "backend-api" \in entries
        BY <1>b, <2>2, <3>2 DEF Labels
      <4>3. line' = "restart" => entries' = Boot!Workload
        BY <1>a, <2>1, <3>2, <4>2 DEF Boot!Workload
      <4> QED BY <4>1, <4>3 DEF Labels
    <3> QED BY <2>3, <3>1, <3>2
  <2>5. Boot!TypeOK'
    BY <2>1, <2>2, <2>3 DEF BootInv, Boot!TypeOK, Boot!Workload
  <2>6. Identities'
    BY <2>1, <2>2 DEF BootInv, Identities
  <2> QED BY <2>4, <2>5, <2>6 DEF BootInv
<1>7. CASE Boot!Restart
  <2>1. /\ line = "restart"
        /\ line' \in { "wait_backend", "exit_1" }
        /\ \E up \in SUBSET Boot!Workload :
             workload' = [w \in Boot!Workload |-> IF w \in up THEN "trying" ELSE workload[w]]
    BY <1>7 DEF Boot!Restart
  <2>2. retries' = 0 \/ retries' = retries
    BY <1>7 DEF Boot!Restart
  <2>3. UNCHANGED << healthy, agent, entries, svids, lastRequest, flaps, existing, scripts >>
    BY <1>7 DEF Boot!Restart
  <2>4. ASSUME line' = "wait_backend" PROVE retries' < MaxRetries
    <3>1. retries' = 0
      BY <1>7, <2>4 DEF Boot!Restart
    <3> QED BY <1>a, <3>1
  <2>5. Labels'
    BY <1>b, <2>1, <2>3, <2>4 DEF Labels
  <2>6. retries' \in 0..(MaxRetries + AgentRetries)
    BY <1>a, <2>2
  <2>7. Boot!TypeOK'
    BY <2>1, <2>3, <2>6 DEF BootInv, Boot!TypeOK
  <2>8. Identities'
    BY <2>1, <2>3 DEF BootInv, Identities
  <2> QED BY <2>5, <2>7, <2>8 DEF BootInv
<1>8. CASE Boot!WaitBackend
  <2>1. /\ line = "wait_backend" /\ UNCHANGED existing
        /\ \/ line' = "complete" /\ workload["backend-api"] = "ready"
           \/ line' \in { "exit_1", "wait_backend" }
    BY <1>8 DEF Boot!WaitBackend, Boot!Listening
  <2>2. retries' = retries + 1
    BY <1>8 DEF Boot!WaitBackend
  <2>3. UNCHANGED << Boot!containers, scripts >>
    BY <1>8 DEF Boot!WaitBackend, Boot!Listening
  <2>4. line' = "complete" => agent = "attested"
    BY <2>1, <2>3 DEF BootInv, Identities, Boot!Workload, Labels
  <2>5. entries = Boot!Workload
    BY <1>b, <2>1 DEF Labels
  <2>6. retries < MaxRetries
    BY <1>b, <2>1 DEF Labels
  <2>7. retries' \in 0..(MaxRetries + AgentRetries)
    BY <1>a, <2>2, <2>6
  <2>8. ASSUME line' = "wait_backend" PROVE retries' < MaxRetries
    <3>1. retries + 1 # MaxRetries
      BY <1>8, <2>8 DEF Boot!WaitBackend
    <3> QED BY <1>a, <2>2, <2>6, <3>1
  <2>9. Labels'
    BY <2>1, <2>3, <2>4, <2>5, <2>8 DEF Labels, Boot!containers
  <2> QED BY <1>a, <2>1, <2>3, <2>7, <2>9, ScriptAlone
<1> QED BY <1>1, <1>2, <1>3, <1>4, <1>5, <1>6, <1>7, <1>8 DEF Boot!ScriptStep

LEMMA BootNext ==
  ASSUME Bounds, BootInv, [Boot!Next]_(Boot!vars) PROVE BootInv'
<1>a. Boot!TypeOK /\ Identities /\ Labels
  BY DEF BootInv
<1>b. /\ scripts \in 0..MaxScripts /\ flaps \in 0..MaxFlaps
      /\ MaxScripts \in Nat /\ MaxFlaps \in Nat
      /\ MaxRetries \in Nat /\ AgentRetries \in Nat
  BY DEF BootInv, Boot!TypeOK, Bounds
<1>1. CASE Boot!ScriptStep
  BY <1>1, ScriptInv
<1>2. CASE Boot!Start
  <2>1. line' = "wait_server"
    BY <1>2 DEF Boot!Start, Boot!Fresh
  <2>2. retries' = 0 /\ scripts < MaxScripts /\ scripts' = scripts + 1
    BY <1>2 DEF Boot!Start, Boot!Fresh
  <2>3. UNCHANGED << Boot!containers, existing >>
    BY <1>2 DEF Boot!Start, Boot!Fresh
  <2>4. scripts' \in 0..MaxScripts /\ retries' \in 0..(MaxRetries + AgentRetries)
    BY <1>b, <2>2
  <2>5. Boot!TypeOK'
    BY <1>a, <2>1, <2>3, <2>4 DEF Boot!TypeOK, Boot!containers
  <2>6. Identities' /\ Labels'
    BY <1>a, <2>1, <2>3 DEF Identities, Labels, Boot!containers
  <2> QED BY <2>5, <2>6 DEF BootInv
<1>3. CASE Boot!Flap
  <2>1. healthy' = ~ healthy
    BY <1>3 DEF Boot!Flap
  <2>2. flaps < MaxFlaps /\ flaps' = flaps + 1
    BY <1>3 DEF Boot!Flap, Boot!script
  <2>3. UNCHANGED << agent, entries, svids, workload, lastRequest, line, retries,
                     existing, scripts >>
    BY <1>3 DEF Boot!Flap, Boot!script
  <2>4. flaps' \in 0..MaxFlaps
    BY <1>b, <2>2
  <2>5. healthy' \in BOOLEAN
    BY <2>1
  <2>6. Boot!TypeOK'
    BY <1>a, <2>1, <2>3, <2>4, <2>5, Zenon DEF Boot!TypeOK
  <2>7. Identities' /\ Labels'
    BY <1>a, <2>1, <2>3 DEF Identities, Labels
  <2> QED BY <2>6, <2>7 DEF BootInv
<1>4. CASE Boot!Attest
  <2>1. agent' = "attested"
    BY <1>4 DEF Boot!Attest, Boot!script
  <2>2. UNCHANGED << healthy, entries, svids, workload, lastRequest, flaps, line, retries,
                     existing, scripts >>
    BY <1>4 DEF Boot!Attest, Boot!script
  <2> QED BY <1>a, <2>1, <2>2 DEF BootInv, Boot!TypeOK, Identities, Labels
<1>5. CASE Boot!ExecuteRequest
  <2>1. lastRequest' \in { "ok", "failed" }
    BY <1>5 DEF Boot!ExecuteRequest, Boot!script
  <2>2. UNCHANGED << healthy, agent, entries, svids, workload, flaps, line, retries,
                     existing, scripts >>
    BY <1>5 DEF Boot!ExecuteRequest, Boot!script
  <2> QED BY <1>a, <2>1, <2>2 DEF BootInv, Boot!TypeOK, Identities, Labels
<1>6. ASSUME NEW w \in Boot!Workload, Boot!TryIdentity(w) \/ Boot!Wake(w) PROVE BootInv'
  <2>1. PICK at \in { "trying", "sleeping", "ready" } :
          /\ workload' = [workload EXCEPT ![w] = at]
          /\ at = "ready" => w \in svids
    BY <1>6 DEF Boot!TryIdentity, Boot!Wake, Boot!SetWorkload
  <2>2. UNCHANGED << healthy, agent, entries, svids, lastRequest, flaps, line,
                     retries, existing, scripts >>
    BY <1>6 DEF Boot!TryIdentity, Boot!Wake, Boot!SetWorkload, Boot!script
  <2>3. Boot!TypeOK'
    BY <1>a, <2>1, <2>2 DEF Boot!TypeOK
  <2>4. Identities' /\ Labels'
    BY <1>a, <2>1, <2>2 DEF Boot!TypeOK, Identities, Labels
  <2> QED BY <2>3, <2>4 DEF BootInv
<1>7. ASSUME Boot!Sync \/ (\E w \in Boot!Workload : Boot!Expire(w)) PROVE BootInv'
  <2>1. /\ svids' \subseteq entries
        /\ svids' # {} => agent = "attested"
    BY <1>a, <1>7 DEF Boot!Sync, Boot!Expire, Boot!TypeOK, Identities
  <2>2. UNCHANGED << healthy, agent, entries, workload, lastRequest, flaps, line,
                     retries, existing, scripts >>
    BY <1>7 DEF Boot!Sync, Boot!Expire, Boot!script
  <2> QED BY <1>a, <2>1, <2>2 DEF BootInv, Boot!TypeOK, Identities, Labels
<1>8. CASE UNCHANGED Boot!vars
  <2>1. UNCHANGED << healthy, agent, entries, svids, workload, lastRequest, flaps, line,
                     retries, existing, scripts >>
    BY <1>8 DEF Boot!vars, Boot!containers, Boot!script
  <2> QED BY <1>a, <2>1 DEF BootInv, Boot!TypeOK, Identities, Labels
<1> QED BY <1>1, <1>2, <1>3, <1>4, <1>5, <1>6, <1>7, <1>8 DEF Boot!Next

(***************************************************************************)
(* The types of Bootstrap, and the truth of the script's last message, for *)
(* any number of runs of the script, of attempts, and of times the server  *)
(* comes and goes: the backend listens only once it has its identity.      *)
(***************************************************************************)
THEOREM BootstrapTellsTheTruth ==
  ASSUME Bounds PROVE Boot!Spec => []Boot!BootstrapInv
<1>1. BootInv => Boot!BootstrapInv
  BY DEF BootInv, Labels, Boot!BootstrapInv, Boot!CompleteMeansWorking
<1>2. Boot!Init => BootInv
  BY BootInit
<1>3. BootInv /\ [Boot!Next]_(Boot!vars) => BootInv'
  BY BootNext
<1> QED BY <1>1, <1>2, <1>3, PTL DEF Boot!Spec

-----------------------------------------------------------------------------
(* That the script ends rests on a measure which each of its steps lowers. *)

(***************************************************************************)
(* The lines the script has before it.                                     *)
(***************************************************************************)
LinesLeft ==
  CASE line = "wait_server"   -> 9
    [] line = "agent"         -> 8
    [] line = "token"         -> 7
    [] line = "wait_agent"    -> 6
    [] line = "entries"       -> 5
    [] line = "backend-api"   -> 4
    [] line = "client-worker" -> 3
    [] line = "restart"       -> 2
    [] line = "wait_backend"  -> 1
    [] OTHER                  -> 0

(***************************************************************************)
(* The attempts its waits have before them.                                *)
(***************************************************************************)
TriesLeft ==
  CASE line = "wait_server"            -> 2 * MaxRetries + AgentRetries - retries
    [] line \in { "agent", "token" }   -> MaxRetries + AgentRetries
    [] line = "wait_agent"             -> MaxRetries + AgentRetries - retries
    [] line \in { "entries", "restart" } \cup Boot!Workload -> MaxRetries
    [] line = "wait_backend"           -> MaxRetries - retries
    [] OTHER                           -> 0

Remaining == LinesLeft + TriesLeft

(***************************************************************************)
(* The counter RETRY_COUNT does not run past the bound of the wait.        *)
(***************************************************************************)
Counts ==
  /\ line = "wait_server" => retries <= MaxRetries
  /\ line = "wait_agent" => retries <= AgentRetries

LEMMA CountsNext ==
  ASSUME Bounds, BootInv, Counts, [Boot!Next]_(Boot!vars) PROVE Counts'
<1> USE DEF Boot!Goto, Boot!Fresh, Boot!Exit
<1>a. retries \in Nat /\ MaxRetries \in Nat /\ AgentRetries \in Nat
  BY DEF BootInv, Boot!TypeOK, Bounds
<1>1. CASE Boot!ScriptStep
  <2>1. CASE Boot!WaitServer
    <3>1. line' # "wait_agent"
      BY <2>1 DEF Boot!WaitServer
    <3>2. \/ retries < MaxRetries /\ retries' = retries + 1
          \/ line' # "wait_server"
      BY <2>1 DEF Boot!WaitServer
    <3> QED BY <1>a, <3>1, <3>2 DEF Counts
  <2>2. CASE Boot!LaunchAgent
    BY <1>a, <2>2 DEF Boot!LaunchAgent, Counts
  <2>3. CASE Boot!WaitAgent
    <3>1. line' # "wait_server"
      BY <2>3 DEF Boot!WaitAgent
    <3>2. \/ retries < AgentRetries /\ retries' = retries + 1
          \/ line' # "wait_agent"
      BY <2>3 DEF Boot!WaitAgent
    <3> QED BY <1>a, <3>1, <3>2 DEF Counts
  <2>4. CASE Boot!FindAgent \/ Boot!ShowEntries \/ Boot!Restart \/ Boot!WaitBackend
    BY <2>4 DEF Boot!FindAgent, Boot!ShowEntries, Boot!Restart, Boot!WaitBackend, Counts
  <2>5. ASSUME NEW w \in Boot!Workload, Boot!Register(w) PROVE Counts'
    BY <2>5 DEF Boot!Register, Counts
  <2> QED BY <1>1, <2>1, <2>2, <2>3, <2>4, <2>5 DEF Boot!ScriptStep
<1>2. CASE Boot!Start
  BY <1>a, <1>2 DEF Boot!Start, Counts
<1>3. CASE UNCHANGED Boot!script
  BY <1>3 DEF Boot!script, Counts
<1>4. Boot!ScriptStep \/ Boot!Start \/ UNCHANGED Boot!script
  BY DEF Boot!Next, Boot!vars, Boot!Flap, Boot!Attest, Boot!Sync, Boot!Expire,
         Boot!ExecuteRequest, Boot!TryIdentity, Boot!Wake, Boot!SetWorkload
<1> QED BY <1>1, <1>2, <1>3, <1>4

LEMMA ScriptAdvances ==
  ASSUME Bounds, BootInv, Counts, Boot!ScriptStep PROVE Remaining' < Remaining
<1> USE DEF Boot!Goto, Boot!Fresh, Boot!Exit
<1> DEFINE M == MaxRetries
           A == AgentRetries
<1>a. retries \in Nat /\ M \in Nat \ {0} /\ A \in Nat \ {0}
  BY DEF BootInv, Boot!TypeOK, Bounds
<1>b. line' = "exit_1" => Remaining' = 0
  BY DEF Remaining, LinesLeft, TriesLeft, Boot!Workload
<1>1. CASE Boot!WaitServer
  <2>0. line = "wait_server" /\ retries <= M
    BY <1>1 DEF Boot!WaitServer, Counts
  <2>1. Remaining = 9 + (2 * M + A - retries)
    BY <2>0 DEF Remaining, LinesLeft, TriesLeft, Boot!Workload
  <2>2. \/ line' = "wait_server" /\ retries' = retries + 1
        \/ line' = "exit_1"
        \/ line' = "agent"
    BY <1>1 DEF Boot!WaitServer
  <2>3. line' = "wait_server" => Remaining' = 9 + (2 * M + A - retries')
    BY DEF Remaining, LinesLeft, TriesLeft, Boot!Workload
  <2>4. line' = "agent" => Remaining' = 8 + (M + A)
    BY DEF Remaining, LinesLeft, TriesLeft, Boot!Workload
  <2>5. retries' = retries + 1
          => 9 + (2 * M + A - retries') < 9 + (2 * M + A - retries)
    BY <1>a
  <2>6. 0 < 9 + (2 * M + A - retries) /\ 8 + (M + A) < 9 + (2 * M + A - retries)
    BY <1>a, <2>0
  <2> QED BY <1>b, <2>1, <2>2, <2>3, <2>4, <2>5, <2>6
<1>2. CASE Boot!FindAgent
  <2>1. line = "agent" /\ line' \in { "entries", "token" }
    BY <1>2 DEF Boot!FindAgent
  <2>2. Remaining = 8 + (M + A)
    BY <2>1 DEF Remaining, LinesLeft, TriesLeft, Boot!Workload
  <2>3. line' = "entries" => Remaining' = 5 + M
    BY DEF Remaining, LinesLeft, TriesLeft, Boot!Workload
  <2>4. line' = "token" => Remaining' = 7 + (M + A)
    BY DEF Remaining, LinesLeft, TriesLeft, Boot!Workload
  <2>5. 5 + M < 8 + (M + A) /\ 7 + (M + A) < 8 + (M + A)
    BY <1>a
  <2> QED BY <2>1, <2>2, <2>3, <2>4, <2>5
<1>3. CASE Boot!LaunchAgent
  <2>1. /\ line = "token"
        /\ line' = "exit_1" \/ (line' = "wait_agent" /\ retries' = 0)
    BY <1>3 DEF Boot!LaunchAgent
  <2>2. Remaining = 7 + (M + A)
    BY <2>1 DEF Remaining, LinesLeft, TriesLeft, Boot!Workload
  <2>3. line' = "wait_agent" => Remaining' = 6 + (M + A - retries')
    BY DEF Remaining, LinesLeft, TriesLeft, Boot!Workload
  <2>4. 0 < 7 + (M + A) /\ 6 + (M + A - 0) < 7 + (M + A)
    BY <1>a
  <2> QED BY <1>b, <2>1, <2>2, <2>3, <2>4
<1>4. CASE Boot!WaitAgent
  <2>1. /\ line = "wait_agent" /\ retries <= A
        /\ line' = "entries" \/ (line' = "wait_agent" /\ retries' = retries + 1)
    BY <1>4 DEF Boot!WaitAgent, Counts
  <2>2. Remaining = 6 + (M + A - retries)
    BY <2>1 DEF Remaining, LinesLeft, TriesLeft, Boot!Workload
  <2>3. line' = "wait_agent" => Remaining' = 6 + (M + A - retries')
    BY DEF Remaining, LinesLeft, TriesLeft, Boot!Workload
  <2>4. line' = "entries" => Remaining' = 5 + M
    BY DEF Remaining, LinesLeft, TriesLeft, Boot!Workload
  <2>5. /\ 5 + M < 6 + (M + A - retries)
        /\ 6 + (M + A - (retries + 1)) < 6 + (M + A - retries)
    BY <1>a, <2>1
  <2> QED BY <2>1, <2>2, <2>3, <2>4, <2>5
<1>5. CASE Boot!ShowEntries
  <2>1. line = "entries" /\ line' = "backend-api"
    BY <1>5 DEF Boot!ShowEntries
  <2>2. Remaining = 5 + M /\ Remaining' = 4 + M
    BY <2>1 DEF Remaining, LinesLeft, TriesLeft, Boot!Workload
  <2> QED BY <1>a, <2>2
<1>6. ASSUME NEW w \in Boot!Workload, Boot!Register(w) PROVE Remaining' < Remaining
  <2>1. /\ line = w
        /\ \/ line' = "exit_1"
           \/ line' = IF w = "backend-api" THEN "client-worker" ELSE "restart"
    BY <1>6 DEF Boot!Register
  <2>2. CASE line = "backend-api"
    <3>1. Remaining = 4 + M
      BY <2>2 DEF Remaining, LinesLeft, TriesLeft, Boot!Workload
    <3>2. line' = "client-worker" => Remaining' = 3 + M
      BY DEF Remaining, LinesLeft, TriesLeft, Boot!Workload
    <3>3. 0 < 4 + M /\ 3 + M < 4 + M
      BY <1>a
    <3> QED BY <1>b, <2>1, <2>2, <3>1, <3>2, <3>3
  <2>3. CASE line = "client-worker"
    <3>1. Remaining = 3 + M
      BY <2>3 DEF Remaining, LinesLeft, TriesLeft, Boot!Workload
    <3>2. line' = "restart" => Remaining' = 2 + M
      BY DEF Remaining, LinesLeft, TriesLeft, Boot!Workload
    <3>3. 0 < 3 + M /\ 2 + M < 3 + M
      BY <1>a
    <3> QED BY <1>b, <2>1, <2>3, <3>1, <3>2, <3>3
  <2> QED BY <2>1, <2>2, <2>3 DEF Boot!Workload
<1>7. CASE Boot!Restart
  <2>1. /\ line = "restart"
        /\ line' = "exit_1" \/ (line' = "wait_backend" /\ retries' = 0)
    BY <1>7 DEF Boot!Restart
  <2>2. Remaining = 2 + M
    BY <2>1 DEF Remaining, LinesLeft, TriesLeft, Boot!Workload
  <2>3. line' = "wait_backend" => Remaining' = 1 + (M - retries')
    BY DEF Remaining, LinesLeft, TriesLeft, Boot!Workload
  <2>4. 0 < 2 + M /\ 1 + (M - 0) < 2 + M
    BY <1>a
  <2> QED BY <1>b, <2>1, <2>2, <2>3, <2>4
<1>8. CASE Boot!WaitBackend
  <2>1. /\ line = "wait_backend" /\ retries' = retries + 1
        /\ line' \in { "complete", "exit_1", "wait_backend" }
    BY <1>8 DEF Boot!WaitBackend
  <2>2. retries < M
    BY <2>1 DEF BootInv, Labels
  <2>3. Remaining = 1 + (M - retries)
    BY <2>1 DEF Remaining, LinesLeft, TriesLeft, Boot!Workload
  <2>4. line' = "wait_backend" => Remaining' = 1 + (M - retries')
    BY DEF Remaining, LinesLeft, TriesLeft, Boot!Workload
  <2>5. line' = "complete" => Remaining' = 0
    BY DEF Remaining, LinesLeft, TriesLeft, Boot!Workload
  <2>6. 0 < 1 + (M - retries) /\ 1 + (M - (retries + 1)) < 1 + (M - retries)
    BY <1>a, <2>2
  <2> QED BY <1>b, <2>1, <2>3, <2>4, <2>5, <2>6
<1> QED BY <1>1, <1>2, <1>3, <1>4, <1>5, <1>6, <1>7, <1>8 DEF Boot!ScriptStep

(***************************************************************************)
(* The script always goes forward: what is left to it is a number bounded  *)
(* by its attempts and lines, each of its steps lowers it, and nothing     *)
(* else but a new start changes it.  Hence a run has that many steps at    *)
(* most, whatever the containers do.                                       *)
(***************************************************************************)
THEOREM ScriptGoesForward ==
  ASSUME Bounds
  PROVE  Boot!Spec =>
           /\ [](Remaining \in 0..(2 * MaxRetries + AgentRetries + 9))
           /\ [][/\ Boot!ScriptStep => Remaining' < Remaining
                 /\ ~ Boot!ScriptStep /\ ~ Boot!Start => Remaining' = Remaining
                ]_(Boot!vars)
<1>1. BootInv /\ Counts => Remaining \in 0..(2 * MaxRetries + AgentRetries + 9)
  <2> SUFFICES ASSUME BootInv, Counts
               PROVE  Remaining \in 0..(2 * MaxRetries + AgentRetries + 9)
    OBVIOUS
  <2>a. MaxRetries \in Nat /\ AgentRetries \in Nat /\ MaxRetries # 0
    BY DEF Bounds
  <2>b. retries \in Nat /\ (line = "wait_backend" => retries < MaxRetries)
    BY DEF BootInv, Boot!TypeOK, Bounds, Labels
  <2>1. LinesLeft \in 0..9
    BY DEF LinesLeft
  <2>2. TriesLeft \in 0..(2 * MaxRetries + AgentRetries)
    BY <2>a, <2>b DEF TriesLeft, Counts
  <2> QED BY <2>a, <2>1, <2>2 DEF Remaining
<1>2. Boot!Init => BootInv /\ Counts
  BY BootInit DEF Boot!Init, Counts
<1>3. BootInv /\ Counts /\ [Boot!Next]_(Boot!vars) => BootInv' /\ Counts'
  BY BootNext, CountsNext
<1>4. BootInv /\ Counts /\ [Boot!Next]_(Boot!vars)
      => [ /\ Boot!ScriptStep => Remaining' < Remaining
           /\ ~ Boot!ScriptStep /\ ~ Boot!Start => Remaining' = Remaining
         ]_(Boot!vars)
  <2>1. BootInv /\ Counts /\ Boot!ScriptStep => Remaining' < Remaining
    BY ScriptAdvances
  <2>2. Boot!Next /\ ~ Boot!ScriptStep /\ ~ Boot!Start => UNCHANGED << line, retries >>
    BY DEF Boot!Next, Boot!Flap, Boot!Attest, Boot!Sync, Boot!Expire,
           Boot!ExecuteRequest, Boot!TryIdentity, Boot!Wake, Boot!SetWorkload, Boot!script
  <2>3. UNCHANGED << line, retries >> => Remaining' = Remaining
    BY DEF Remaining, LinesLeft, TriesLeft
  <2> QED BY <2>1, <2>2, <2>3
<1> QED BY <1>1, <1>2, <1>3, <1>4, PTL DEF Boot!Spec

=============================================================================
