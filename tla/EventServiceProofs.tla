------------------------- MODULE EventServiceProofs -------------------------
(***************************************************************************)
(* Proofs about EventService, for any finite sets of calls and connections *)
(* and any log size, and about Telemetry, for any number of handlers.      *)
(***************************************************************************)
EXTENDS EventService, SequenceTheorems, FiniteSetTheorems, TLAPS

(***************************************************************************)
(* Trimming the log after an insertion at the front keeps the newest       *)
(* max_logs events: Evict works one element at a time, Prefix all at once. *)
(***************************************************************************)
LEMMA EvictKeepsPrefix ==
  ASSUME NEW S, NEW s \in Seq(S), NEW e \in S
  PROVE  /\ Evict(<< e >> \o Prefix(s, MaxLogs)) = Prefix(<< e >> \o s, MaxLogs)
         /\ Prefix(s, MaxLogs) \in Seq(S)
         /\ Len(Prefix(s, MaxLogs)) <= MaxLogs
<1> USE LogAssumption
<1> DEFINE n == IF Len(s) <= MaxLogs THEN Len(s) ELSE MaxLogs
           p == Prefix(s, MaxLogs)
           l == << e >> \o p
           r == << e >> \o s
<1>1. n \in Nat /\ n <= Len(s) /\ n <= MaxLogs
  BY LenProperties
<1>2. p \in Seq(S) /\ Len(p) = n /\ \A i \in 1 .. n : p[i] = s[i]
  BY <1>1, SubSeqProperties DEF Prefix
<1>3. /\ l \in Seq(S) /\ Len(l) = n + 1
      /\ \A i \in 1 .. n + 1 : l[i] = IF i = 1 THEN e ELSE s[i - 1]
  BY <1>1, <1>2, ConcatProperties
<1>4. /\ r \in Seq(S) /\ Len(r) = Len(s) + 1
      /\ \A i \in 1 .. Len(s) + 1 : r[i] = IF i = 1 THEN e ELSE s[i - 1]
  BY <1>1, ConcatProperties, LenProperties
<1>5. CASE Len(s) < MaxLogs
  <2>1. Evict(l) = l /\ Prefix(r, MaxLogs) = SubSeq(r, 1, Len(r))
    BY <1>1, <1>3, <1>4, <1>5, LenProperties DEF Evict, Prefix
  <2>2. SubSeq(r, 1, Len(r)) = r
    BY <1>4, SubSeqFull
  <2>3. p = s
    BY <1>5, SubSeqFull, LenProperties DEF Prefix
  <2> QED BY <1>1, <1>2, <2>1, <2>2, <2>3
<1>6. CASE Len(s) >= MaxLogs
  <2>1. n = MaxLogs
    BY <1>6, LenProperties
  <2>2. Evict(l) = SubSeq(l, 1, MaxLogs) /\ Prefix(r, MaxLogs) = SubSeq(r, 1, MaxLogs)
    BY <1>3, <1>4, <1>6, <2>1, LenProperties DEF Evict, Prefix
  <2>3. /\ SubSeq(l, 1, MaxLogs) \in Seq(S)
        /\ Len(SubSeq(l, 1, MaxLogs)) = MaxLogs
        /\ \A i \in 1 .. MaxLogs : SubSeq(l, 1, MaxLogs)[i] = l[i]
    BY <1>3, <2>1, SubSeqProperties
  <2>4. /\ SubSeq(r, 1, MaxLogs) \in Seq(S)
        /\ Len(SubSeq(r, 1, MaxLogs)) = MaxLogs
        /\ \A i \in 1 .. MaxLogs : SubSeq(r, 1, MaxLogs)[i] = r[i]
    BY <1>4, <1>6, SubSeqProperties, LenProperties
  <2>5. SubSeq(l, 1, MaxLogs) = SubSeq(r, 1, MaxLogs)
    <3>1. \A i \in 1 .. MaxLogs : l[i] = r[i]
      BY <1>3, <1>4, <1>6, <2>1, LenProperties
    <3> QED BY <2>3, <2>4, <3>1, SeqEqual
  <2> QED BY <1>1, <1>2, <2>2, <2>5
<1> QED BY <1>5, <1>6, LenProperties

-----------------------------------------------------------------------------
(* Type correctness and the log.                                           *)

(***************************************************************************)
(* The log's length bound is not inductive by itself: it follows from the  *)
(* log being a prefix of the recorded history.                             *)
(***************************************************************************)
LogInv == TypeOK /\ LogIsRecentHistory

(***************************************************************************)
(* What recording an event does to the types of the log and its history.   *)
(***************************************************************************)
LEMMA LogEventStep ==
  ASSUME LogInv, NEW t \in Call, log_event(t)
  PROVE  /\ logs' \in Seq(Call \cup Seed)
         /\ Len(logs') <= MaxLogs
         /\ recorded' \in Seq(Call)
         /\ Len(recorded') = Len(recorded) + 1
         /\ before' \in [Call -> SUBSET Call]
         /\ LogIsRecentHistory'
<1> USE LogAssumption DEF LogInv
<1> DEFINE E   == Call \cup Seed
           all == recorded \o SeedEvents
<1>1. /\ recorded \in Seq(Call) /\ recorded \in Seq(E)
      /\ SeedEvents \in Seq(E)
      /\ << t >> \in Seq(Call) /\ << t >> \in Seq(E)
  BY SeqMonotonic DEF TypeOK
<1>2. all \in Seq(E)
  BY <1>1, ConcatProperties
<1>3. recorded' \in Seq(Call) /\ Len(recorded') = Len(recorded) + 1
  BY <1>1, ConcatProperties DEF log_event
<1>4. recorded' \o SeedEvents = << t >> \o all
  BY <1>1, ConcatAssociative DEF log_event
<1>5. logs' = Prefix(<< t >> \o all, MaxLogs)
  <2> HIDE DEF all, E
  <2>1. t \in E /\ all \in Seq(E)
    BY <1>2 DEF E
  <2>2. Evict(<< t >> \o Prefix(all, MaxLogs)) = Prefix(<< t >> \o all, MaxLogs)
    BY <2>1, EvictKeepsPrefix
  <2> QED BY <2>2 DEF log_event, LogIsRecentHistory, all
<1>6. << t >> \o all \in Seq(E)
  BY <1>1, <1>2, ConcatProperties
<1>7. logs' \in Seq(E) /\ Len(logs') <= MaxLogs
  BY <1>5, <1>6, EvictKeepsPrefix
<1>8. LogIsRecentHistory'
  BY <1>4, <1>5 DEF LogIsRecentHistory
<1>9. before' \in [Call -> SUBSET Call]
  BY DEF log_event, TypeOK, Finished
<1> QED BY <1>3, <1>7, <1>8, <1>9

(***************************************************************************)
(* Writing a frame, or catching the failure, keeps the loop's types.       *)
(***************************************************************************)
LEMMA VisitType ==
  ASSUME TypeOK, NEW t \in Call, NEW c \in Conn,
         NEW ahead \in SUBSET Conn, NEW failed \in SUBSET Conn,
         Visit(t, c, ahead, failed)
  PROVE  /\ at' \in [Call -> SUBSET Conn]
         /\ rest' \in [Call -> SUBSET Conn]
         /\ dead' \in [Call -> SUBSET Conn]
         /\ frames' \in [Conn -> Seq(Call)]
<1>1. at' \in [Call -> SUBSET Conn] /\ rest' \in [Call -> SUBSET Conn]
  BY DEF Visit, TypeOK
<1>2. dead' \in [Call -> SUBSET Conn]
  BY DEF Visit, TypeOK
<1>3. Append(frames[c], t) \in Seq(Call)
  BY AppendProperties DEF TypeOK
<1>4. frames' \in [Conn -> Seq(Call)]
  BY <1>3 DEF Visit, TypeOK
<1> QED BY <1>1, <1>2, <1>4

LEMMA LogInvInit == Init => LogInv
<1> SUFFICES ASSUME Init PROVE LogInv
  OBVIOUS
<1> USE LogAssumption
<1>1. SeedEvents \in Seq(Call \cup Seed)
  BY SeqMonotonic
<1>2. recorded \o SeedEvents = SeedEvents
  BY ConcatEmptySeq DEF Init
<1>3. LogIsRecentHistory
  BY <1>2, SubSeqFull, LenProperties DEF Init, LogIsRecentHistory, Prefix
<1>4. TypeOK
  BY <1>1, EmptySeq DEF Init, TypeOK, CallState, EndpointState
<1> QED BY <1>3, <1>4 DEF LogInv

LEMMA LogInvNext == LogInv /\ [Next]_vars => LogInv'
<1> SUFFICES ASSUME LogInv, [Next]_vars PROVE LogInv'
  OBVIOUS
<1> USE DEF LogInv, CallState, EndpointState
<1> TypeOK
  OBVIOUS
<1>1. ASSUME NEW t \in Call, record_event_unheard(t) PROVE LogInv'
  BY <1>1, LogEventStep DEF record_event_unheard, loop, wire, TypeOK
<1>2. ASSUME NEW t \in Call, record_event(t) PROVE LogInv'
  <2>1. PICK c \in active : Visit(t, c, active \ {c}, {})
    BY <1>2 DEF record_event
  <2>2. c \in Conn /\ active \ {c} \in SUBSET Conn /\ {} \in SUBSET Conn
    BY DEF TypeOK
  <2>3. audience' \in [Call -> SUBSET Conn] /\ call' \in [Call -> CallState]
    BY <1>2 DEF record_event, TypeOK
  <2>4. log_event(t) /\ UNCHANGED << active, counter, wire, churned >>
    BY <1>2 DEF record_event
  <2>5. /\ at' \in [Call -> SUBSET Conn] /\ rest' \in [Call -> SUBSET Conn]
        /\ dead' \in [Call -> SUBSET Conn] /\ frames' \in [Conn -> Seq(Call)]
    BY <2>1, <2>2, VisitType
  <2> QED BY <2>3, <2>4, <2>5, LogEventStep DEF wire, TypeOK
<1>3. ASSUME NEW t \in Call, broadcast_send(t) PROVE LogInv'
  <2>1. PICK failed \in Caught(t), c \in rest[t] :
          Visit(t, c, rest[t] \ {c}, failed)
    BY <1>3 DEF broadcast_send
  <2>2. c \in Conn /\ rest[t] \ {c} \in SUBSET Conn /\ failed \in SUBSET Conn
    BY DEF TypeOK, Caught
  <2>3. UNCHANGED << service, call, audience, wire, history >>
    BY <1>3 DEF broadcast_send
  <2>4. /\ at' \in [Call -> SUBSET Conn] /\ rest' \in [Call -> SUBSET Conn]
        /\ dead' \in [Call -> SUBSET Conn] /\ frames' \in [Conn -> Seq(Call)]
    BY <2>1, <2>2, VisitType
  <2> QED BY <2>3, <2>4 DEF service, wire, history, TypeOK, LogIsRecentHistory
<1>4. ASSUME NEW t \in Call, broadcast_raise(t) PROVE LogInv'
  BY <1>4 DEF broadcast_raise, service, wire, history, TypeOK, LogIsRecentHistory
<1>5. ASSUME NEW t \in Call, broadcast_end(t) PROVE LogInv'
  <2>1. PICK failed \in Caught(t) :
          /\ dead' = [dead EXCEPT ![t] = failed]
          /\ Discard(failed, Suspended \ {t})
    BY <1>5 DEF broadcast_end
  <2>2. failed \in SUBSET Conn
    BY DEF TypeOK, Caught
  <2>3. /\ dead' \in [Call -> SUBSET Conn] /\ rest' \in [Call -> SUBSET Conn]
        /\ active' \in SUBSET Conn /\ churned' \in SUBSET Call
    BY <2>1, <2>2 DEF TypeOK, Discard, Suspended
  <2> QED BY <1>5, <2>3 DEF broadcast_end, wire, TypeOK, LogIsRecentHistory
<1>6. ASSUME NEW c \in Conn, connect(c) PROVE LogInv'
  BY <1>6 DEF connect, Add, Suspended, TypeOK, LogIsRecentHistory
<1>7. ASSUME NEW c \in Conn, accept_fails(c) PROVE LogInv'
  BY <1>7 DEF accept_fails, service, loop, history, TypeOK, LogIsRecentHistory
<1>8. ASSUME NEW c \in Conn, disconnect(c) PROVE LogInv'
  BY <1>8 DEF disconnect, Discard, Suspended, TypeOK, LogIsRecentHistory
<1>9. ASSUME NEW c \in Conn, PeerLeaves(c) PROVE LogInv'
  BY <1>9 DEF PeerLeaves, service, loop, history, TypeOK, LogIsRecentHistory
<1>10. CASE UNCHANGED vars
  BY <1>10 DEF vars, service, loop, wire, history, TypeOK, LogIsRecentHistory
<1> QED
  BY <1>1, <1>2, <1>3, <1>4, <1>5, <1>6, <1>7, <1>8, <1>9, <1>10 DEF Next

(***************************************************************************)
(* Every reachable state is well typed; the log of event_service never     *)
(* outgrows max_logs.                                                      *)
(***************************************************************************)
THEOREM TypeCorrect == Spec => []TypeOK
<1>1. Spec => []LogInv
  BY LogInvInit, LogInvNext, PTL DEF Spec
<1> QED BY <1>1, PTL DEF LogInv

(***************************************************************************)
(* The log is the newest max_logs of everything recorded, whatever the     *)
(* interleaving of record_event calls and however their broadcasts end.    *)
(***************************************************************************)
THEOREM LogCorrect == Spec => []LogIsRecentHistory
<1>1. Spec => []LogInv
  BY LogInvInit, LogInvNext, PTL DEF Spec
<1> QED BY <1>1, PTL DEF LogInv

-----------------------------------------------------------------------------
(* Calls, the loops they are suspended in, and the frames they write.      *)

(***************************************************************************)
(* A call is suspended in a send exactly while its caller waits; only      *)
(* calls that have begun are in the log's history or on a socket; a call   *)
(* noted as finished stays finished.                                       *)
(***************************************************************************)
CallInv ==
  /\ \A t \in Call : call[t] = "sending" <=> at[t] # {}
  /\ \A i \in 1 .. Len(recorded) : call[recorded[i]] # "idle"
  /\ \A c \in Conn : \A i \in 1 .. Len(frames[c]) : call[frames[c][i]] # "idle"
  /\ \A t \in Call : before[t] \subseteq Finished

(***************************************************************************)
(* The frames a step writes: at most one, to one connection, by a call     *)
(* that has not finished and is suspended in that send afterwards.         *)
(***************************************************************************)
Writes(t, c) ==
  /\ call[t] \in { "idle", "sending" }
  /\ call' = [call EXCEPT ![t] = "sending"]
  /\ at'   = [at EXCEPT ![t] = {c}]
  /\ \/ frames' = [frames EXCEPT ![c] = Append(frames[c], t)]
     \/ frames' = frames

LEMMA FramesStep ==
  ASSUME LogInv, CallInv, [Next]_vars
  PROVE  \/ \E t \in Call, c \in Conn : Writes(t, c)
         \/ /\ frames' = frames
            /\ \/ call' = call /\ at' = at
               \/ \E t \in Call :
                    /\ \/ call' = [call EXCEPT ![t] = "returned"]
                       \/ call' = [call EXCEPT ![t] = "raised"]
                    /\ at' = [at EXCEPT ![t] = {}]
                    /\ call[t] \in { "idle", "sending" }
<1> USE DEF LogInv
<1>1. ASSUME NEW t \in Call, record_event_unheard(t)
      PROVE  /\ frames' = frames
             /\ call' = [call EXCEPT ![t] = "returned"]
             /\ at' = [at EXCEPT ![t] = {}]
             /\ call[t] = "idle"
  <2>1. at[t] = {} /\ at \in [Call -> SUBSET Conn]
    BY <1>1 DEF record_event_unheard, CallInv, TypeOK
  <2>2. at = [at EXCEPT ![t] = {}]
    BY <2>1
  <2> QED BY <1>1, <2>2 DEF record_event_unheard, loop
<1>2. ASSUME NEW t \in Call, record_event(t)
      PROVE  \E c \in Conn : Writes(t, c)
  BY <1>2 DEF record_event, Visit, Writes, TypeOK
<1>3. ASSUME NEW t \in Call, broadcast_send(t)
      PROVE  \E c \in Conn : Writes(t, c)
  <2>1. PICK failed \in Caught(t), c \in rest[t] :
          Visit(t, c, rest[t] \ {c}, failed)
    BY <1>3 DEF broadcast_send
  <2>2. c \in Conn
    BY DEF TypeOK
  <2>3. call[t] = "sending" /\ call' = call
    BY <1>3 DEF broadcast_send, CallInv
  <2>4. call' = [call EXCEPT ![t] = "sending"]
    BY <2>3 DEF TypeOK
  <2> QED BY <2>1, <2>2, <2>3, <2>4 DEF Visit, Writes
<1>4. ASSUME NEW t \in Call, broadcast_raise(t)
      PROVE  /\ frames' = frames
             /\ call' = [call EXCEPT ![t] = "raised"]
             /\ at' = [at EXCEPT ![t] = {}]
             /\ call[t] = "sending"
  BY <1>4 DEF broadcast_raise, CallInv
<1>5. ASSUME NEW t \in Call, broadcast_end(t)
      PROVE  /\ frames' = frames
             /\ call' = [call EXCEPT ![t] = "returned"]
             /\ at' = [at EXCEPT ![t] = {}]
             /\ call[t] = "sending"
  BY <1>5 DEF broadcast_end, CallInv
<1>6. ASSUME NEW c \in Conn,
             connect(c) \/ accept_fails(c) \/ disconnect(c) \/ PeerLeaves(c)
      PROVE  frames' = frames /\ call' = call /\ at' = at
  BY <1>6 DEF connect, accept_fails, disconnect, PeerLeaves, loop
<1>7. CASE UNCHANGED vars
  BY <1>7 DEF vars, loop
<1> QED BY <1>1, <1>2, <1>3, <1>4, <1>5, <1>6, <1>7 DEF Next

(***************************************************************************)
(* What a step does to the history variables.                              *)
(***************************************************************************)
LEMMA HistoryStep ==
  ASSUME LogInv, [Next]_vars
  PROVE  \/ recorded' = recorded /\ before' = before
         \/ \E t \in Call :
              /\ call[t] = "idle" /\ call'[t] # "idle"
              /\ recorded' = << t >> \o recorded
              /\ before' = [before EXCEPT ![t] = Finished]
<1> USE DEF LogInv
<1>1. ASSUME NEW t \in Call, record_event_unheard(t) \/ record_event(t)
      PROVE  /\ call[t] = "idle" /\ call'[t] # "idle"
             /\ recorded' = << t >> \o recorded
             /\ before' = [before EXCEPT ![t] = Finished]
  BY <1>1 DEF record_event_unheard, record_event, log_event, TypeOK
<1>2. ASSUME NEW t \in Call,
             broadcast_send(t) \/ broadcast_raise(t) \/ broadcast_end(t)
      PROVE  recorded' = recorded /\ before' = before
  BY <1>2 DEF broadcast_send, broadcast_raise, broadcast_end, history
<1>3. ASSUME NEW c \in Conn,
             connect(c) \/ accept_fails(c) \/ disconnect(c) \/ PeerLeaves(c)
      PROVE  recorded' = recorded /\ before' = before
  BY <1>3 DEF connect, accept_fails, disconnect, PeerLeaves, history
<1>4. CASE UNCHANGED vars
  BY <1>4 DEF vars, history
<1> QED BY <1>1, <1>2, <1>3, <1>4 DEF Next

LEMMA CallInvInit == Init => CallInv
BY DEF Init, CallInv, Finished

LEMMA CallInvNext == LogInv /\ CallInv /\ [Next]_vars => CallInv'
<1> SUFFICES ASSUME LogInv, CallInv, [Next]_vars PROVE CallInv'
  OBVIOUS
<1> USE DEF LogInv
<1>1. \A u \in Call : call[u] # "idle" => call'[u] # "idle"
  BY FramesStep DEF Writes, TypeOK
<1>2. Finished \subseteq Finished'
  BY FramesStep DEF Writes, Finished, TypeOK
<1>3. \A u \in Call : call'[u] = "sending" <=> at'[u] # {}
  <2> TAKE u \in Call
  <2>a. call[u] = "sending" <=> at[u] # {}
    BY DEF CallInv
  <2>b. call \in [Call -> CallState] /\ at \in [Call -> SUBSET Conn]
    BY DEF TypeOK
  <2>1. ASSUME NEW t \in Call, NEW c \in Conn, Writes(t, c)
        PROVE  call'[u] = "sending" <=> at'[u] # {}
    BY <2>1, <2>a, <2>b DEF Writes
  <2>2. ASSUME NEW t \in Call, at' = [at EXCEPT ![t] = {}],
               \/ call' = [call EXCEPT ![t] = "returned"]
               \/ call' = [call EXCEPT ![t] = "raised"]
        PROVE  call'[u] = "sending" <=> at'[u] # {}
    BY <2>2, <2>a, <2>b
  <2>3. CASE call' = call /\ at' = at
    BY <2>3, <2>a
  <2> QED BY <2>1, <2>2, <2>3, FramesStep
<1>4. \A i \in 1 .. Len(recorded') : call'[recorded'[i]] # "idle"
  <2>1. CASE recorded' = recorded
    BY <1>1, <2>1, ElementOfSeq DEF CallInv, TypeOK
  <2>2. ASSUME NEW t \in Call, call'[t] # "idle", recorded' = << t >> \o recorded
        PROVE  \A i \in 1 .. Len(recorded') : call'[recorded'[i]] # "idle"
    <3>1. /\ Len(recorded') = Len(recorded) + 1
          /\ \A i \in 1 .. Len(recorded') :
               recorded'[i] = IF i = 1 THEN t ELSE recorded[i - 1]
      BY <2>2, ConcatProperties DEF TypeOK
    <3> QED BY <1>1, <2>2, <3>1, ElementOfSeq DEF CallInv, TypeOK
  <2> QED BY <2>1, <2>2, HistoryStep
<1>5. \A c \in Conn : \A i \in 1 .. Len(frames'[c]) : call'[frames'[c][i]] # "idle"
  <2>1. CASE frames' = frames
    BY <1>1, <2>1, ElementOfSeq DEF CallInv, TypeOK
  <2>2. ASSUME NEW t \in Call, NEW c \in Conn, Writes(t, c),
               frames' = [frames EXCEPT ![c] = Append(frames[c], t)]
        PROVE  \A d \in Conn : \A i \in 1 .. Len(frames'[d]) :
                 call'[frames'[d][i]] # "idle"
    <3>1. call'[t] # "idle"
      BY <2>2 DEF Writes, TypeOK
    <3>2. TAKE d \in Conn
    <3>3. TAKE i \in 1 .. Len(frames'[d])
    <3>4. CASE d # c
      BY <1>1, <2>2, <3>4, ElementOfSeq DEF CallInv, TypeOK
    <3>5. CASE d = c
      <4>1. /\ frames[c] \in Seq(Call)
            /\ frames'[c] = Append(frames[c], t)
        BY <2>2 DEF TypeOK
      <4>2. i <= Len(frames[c]) => frames'[c][i] = frames[c][i]
        BY <3>5, <4>1, AppendProperties
      <4>3. i > Len(frames[c]) => frames'[c][i] = t
        BY <3>5, <4>1, AppendProperties
      <4> QED BY <1>1, <3>1, <3>5, <4>1, <4>2, <4>3, LenProperties, ElementOfSeq DEF CallInv
    <3> QED BY <3>4, <3>5
  <2> QED BY <2>1, <2>2, FramesStep DEF Writes
<1>6. \A u \in Call : before'[u] \subseteq Finished'
  BY <1>2, HistoryStep DEF CallInv, TypeOK
<1> QED BY <1>3, <1>4, <1>5, <1>6 DEF CallInv

LEMMA CallInvariant == Spec => [](LogInv /\ CallInv)
<1>1. Init => LogInv /\ CallInv
  BY LogInvInit, CallInvInit
<1>2. LogInv /\ CallInv /\ [Next]_vars => LogInv' /\ CallInv'
  BY LogInvNext, CallInvNext
<1> QED BY <1>1, <1>2, PTL DEF Spec

-----------------------------------------------------------------------------
(* Refinement.                                                             *)

(***************************************************************************)
(* event_service implements the abstract audit trail: a step of the        *)
(* service records one new event or leaves trail and window alone.         *)
(***************************************************************************)
THEOREM Refinement == Spec => ImplementsAuditTrail
<1>1. Init => AuditTrail!Init
  BY DEF Init, AuditTrail!Init
<1>2. LogInv /\ LogInv' /\ CallInv /\ [Next]_vars
        => [AuditTrail!Next]_<< recorded, logs >>
  <2> SUFFICES ASSUME LogInv, LogInv', CallInv, [Next]_vars
               PROVE  AuditTrail!Next \/ UNCHANGED << recorded, logs >>
    OBVIOUS
  <2>1. CASE recorded' = recorded
    BY <2>1 DEF LogInv, LogIsRecentHistory
  <2>2. ASSUME NEW t \in Call, call[t] = "idle", recorded' = << t >> \o recorded
        PROVE  AuditTrail!Record(t)
    <3>1. \A i \in 1 .. Len(recorded) : recorded[i] # t
      BY <2>2 DEF CallInv
    <3>2. logs' = AuditTrail!Prefix(recorded' \o SeedEvents, MaxLogs)
      BY DEF LogInv, LogIsRecentHistory, Prefix, AuditTrail!Prefix
    <3> QED BY <2>2, <3>1, <3>2 DEF AuditTrail!Record
  <2> QED BY <2>1, <2>2, HistoryStep DEF AuditTrail!Next
<1> QED BY <1>1, <1>2, CallInvariant, PTL
        DEF Spec, ImplementsAuditTrail, AuditTrail!Spec

-----------------------------------------------------------------------------
(* The order of events on a socket.                                        *)

LEMMA InOrderNext == LogInv /\ CallInv /\ InOrder /\ [Next]_vars => InOrder'
<1> SUFFICES ASSUME LogInv, CallInv, InOrder, [Next]_vars,
                    NEW d \in Conn,
                    NEW i \in 1 .. Len(frames'[d]), NEW j \in 1 .. Len(frames'[d]),
                    i < j
             PROVE  frames'[d][j] \notin before'[frames'[d][i]]
  BY DEF InOrder
<1> USE DEF LogInv
<1>1. frames[d] \in Seq(Call) /\ Len(frames[d]) \in Nat
  BY LenProperties DEF TypeOK
<1>2. \A k \in 1 .. Len(frames[d]) :
        /\ frames[d][k] \in Call
        /\ before'[frames[d][k]] = before[frames[d][k]]
  <2> TAKE k \in 1 .. Len(frames[d])
  <2>1. frames[d][k] \in Call
    BY <1>1, ElementOfSeq
  <2>2. call[frames[d][k]] # "idle"
    BY DEF CallInv
  <2> QED BY <2>1, <2>2, HistoryStep DEF TypeOK
<1>3. CASE frames'[d] = frames[d]
  BY <1>2, <1>3 DEF InOrder
<1>4. ASSUME NEW t \in Call, t \notin Finished, frames'[d] = Append(frames[d], t)
      PROVE  frames'[d][j] \notin before'[frames'[d][i]]
  <2>1. /\ Len(frames'[d]) = Len(frames[d]) + 1
        /\ \A k \in 1 .. Len(frames[d]) : frames'[d][k] = frames[d][k]
        /\ frames'[d][Len(frames[d]) + 1] = t
    BY <1>1, <1>4, AppendProperties
  <2>2. i \in 1 .. Len(frames[d]) /\ frames'[d][i] = frames[d][i]
    BY <1>1, <2>1
  <2>3. CASE j \in 1 .. Len(frames[d])
    BY <1>2, <2>1, <2>2, <2>3 DEF InOrder
  <2>4. CASE j = Len(frames[d]) + 1
    BY <1>2, <1>4, <2>1, <2>2, <2>4 DEF CallInv
  <2> QED BY <1>1, <2>1, <2>3, <2>4
<1>5. \/ frames'[d] = frames[d]
      \/ \E t \in Call : t \notin Finished /\ frames'[d] = Append(frames[d], t)
  <2>1. ASSUME NEW t \in Call, NEW c \in Conn, Writes(t, c)
        PROVE  \/ frames'[d] = frames[d]
               \/ t \notin Finished /\ frames'[d] = Append(frames[d], t)
    <3>1. t \notin Finished
      BY <2>1 DEF Writes, Finished
    <3>2. frames'[d] = frames[d] \/ frames'[d] = Append(frames[d], t)
      BY <2>1 DEF Writes, TypeOK
    <3> QED BY <3>1, <3>2
  <2> QED BY <2>1, FramesStep
<1> QED BY <1>3, <1>4, <1>5

(***************************************************************************)
(* A subscriber never sees the event of a finished call after the event of *)
(* a call that was recorded later.                                         *)
(***************************************************************************)
THEOREM OrderCorrect == Spec => []InOrder
<1>1. Init => InOrder
  BY DEF Init, InOrder
<1> QED BY <1>1, InOrderNext, CallInvariant, PTL DEF Spec

-----------------------------------------------------------------------------
(* Delivery.                                                               *)

Absent(t, s) == \A i \in 1 .. Len(s) : s[i] # t

(***************************************************************************)
(* What an undisturbed loop has achieved when it is suspended: the set is  *)
(* still the one it started on, and each member is either ahead of the     *)
(* iterator and without the event, or behind it and served.                *)
(***************************************************************************)
Served(t) == \A c \in audience[t] \ rest[t] : c \in dead[t] \/ Once(t, frames[c])

Steady(t) ==
  /\ active = audience[t]
  /\ rest[t] \subseteq audience[t]
  /\ \A c \in rest[t] : Absent(t, frames[c])

QuietInv ==
  \A t \in Call \ churned :
    /\ call[t] = "idle" => audience[t] = {} /\ rest[t] = {}
    /\ call[t] = "sending" => Steady(t) /\ Served(t)
    /\ call[t] = "returned" => rest[t] = {} /\ Served(t)

(***************************************************************************)
(* Appending a frame to a socket changes only what is known of its call.   *)
(***************************************************************************)
LEMMA AppendFrame ==
  ASSUME NEW s \in Seq(Call), NEW u \in Call
  PROVE  /\ Absent(u, s) => Once(u, Append(s, u))
         /\ \A t \in Call \ {u} : /\ Absent(t, s) => Absent(t, Append(s, u))
                                  /\ Once(t, s) => Once(t, Append(s, u))
<1> DEFINE a == Append(s, u)
<1>1. /\ Len(s) \in Nat /\ Len(a) = Len(s) + 1
      /\ \A i \in 1 .. Len(s) : a[i] = s[i]
      /\ a[Len(s) + 1] = u
  BY AppendProperties, LenProperties
<1> HIDE DEF a
<1>2. Absent(u, s) => Once(u, a)
  <2> SUFFICES ASSUME Absent(u, s) PROVE Once(u, a)
    OBVIOUS
  <2>1. \A j \in 1 .. Len(a) : a[j] = u => j = Len(s) + 1
    BY <1>1 DEF Absent
  <2> QED BY <1>1, <2>1 DEF Once
<1>3. ASSUME NEW t \in Call \ {u}, Absent(t, s) PROVE Absent(t, a)
  BY <1>1, <1>3 DEF Absent
<1>4. ASSUME NEW t \in Call \ {u}, Once(t, s) PROVE Once(t, a)
  <2>1. PICK i \in 1 .. Len(s) : s[i] = t /\ \A j \in 1 .. Len(s) : s[j] = t => j = i
    BY <1>4 DEF Once
  <2>2. \A j \in 1 .. Len(a) : a[j] = t => j = i
    BY <1>1, <2>1
  <2> QED BY <1>1, <2>1, <2>2 DEF Once
<1> QED BY <1>2, <1>3, <1>4 DEF a

(***************************************************************************)
(* A visit by another call leaves t's loop steady and t's members served.  *)
(***************************************************************************)
LEMMA VisitByOther ==
  ASSUME TypeOK, NEW u \in Call, NEW t \in Call \ {u}, NEW c \in Conn,
         NEW ahead, NEW failed, Visit(u, c, ahead, failed),
         audience'[t] = audience[t], active' = active
  PROVE  /\ rest'[t] = rest[t]
         /\ Steady(t) => Steady(t)'
         /\ Served(t) => Served(t)'
<1>1. rest'[t] = rest[t] /\ dead'[t] = dead[t]
  BY DEF Visit, TypeOK
<1>2. \A d \in Conn : /\ Absent(t, frames[d]) => Absent(t, frames'[d])
                      /\ Once(t, frames[d]) => Once(t, frames'[d])
  <2> TAKE d \in Conn
  <2>1. frames'[d] = frames[d] \/ frames'[d] = Append(frames[d], u)
    BY DEF Visit, TypeOK
  <2>2. frames[d] \in Seq(Call)
    BY DEF TypeOK
  <2> QED BY <2>1, <2>2, AppendFrame
<1>3. audience[t] \subseteq Conn /\ rest[t] \subseteq Conn
  BY DEF TypeOK
<1> QED BY <1>1, <1>2, <1>3 DEF Steady, Served

(***************************************************************************)
(* A visit by t itself serves the connection it takes from the iterator.   *)
(***************************************************************************)
LEMMA VisitBySelf ==
  ASSUME TypeOK, NEW t \in Call, NEW c \in Conn, NEW failed \in SUBSET Conn,
         NEW ahead \in SUBSET Conn, Visit(t, c, ahead \ {c}, failed),
         active' = audience'[t], ahead \subseteq audience'[t], c \in ahead,
         \A d \in ahead : Absent(t, frames[d]),
         \A d \in audience'[t] \ ahead : d \in failed \/ Once(t, frames[d]),
         audience'[t] \subseteq Conn
  PROVE  Steady(t)' /\ Served(t)'
<1>1. rest'[t] = ahead \ {c} /\ failed \subseteq dead'[t]
  BY DEF Visit, TypeOK
<1>2. \A d \in Conn \ {c} : frames'[d] = frames[d]
  BY DEF Visit, TypeOK
<1>3. c \in dead'[t] \/ frames'[c] = Append(frames[c], t)
  BY DEF Visit, TypeOK
<1>4. frames[c] \in Seq(Call)
  BY DEF TypeOK
<1>5. c \in dead'[t] \/ Once(t, frames'[c])
  BY <1>3, <1>4, AppendFrame
<1> QED BY <1>1, <1>2, <1>5 DEF Steady, Served

LEMMA QuietInvNext == LogInv /\ CallInv /\ QuietInv /\ [Next]_vars => QuietInv'
<1> SUFFICES ASSUME LogInv, CallInv, QuietInv, [Next]_vars,
                    NEW t \in Call, t \notin churned'
             PROVE  /\ call'[t] = "idle" => audience'[t] = {} /\ rest'[t] = {}
                    /\ call'[t] = "sending" => Steady(t)' /\ Served(t)'
                    /\ call'[t] = "returned" => rest'[t] = {} /\ Served(t)'
  BY DEF QuietInv
<1> DEFINE Goal == /\ call'[t] = "idle" => audience'[t] = {} /\ rest'[t] = {}
                   /\ call'[t] = "sending" => Steady(t)' /\ Served(t)'
                   /\ call'[t] = "returned" => rest'[t] = {} /\ Served(t)'
<1> TypeOK
  BY DEF LogInv
<1>a. ASSUME t \notin churned
      PROVE  /\ call[t] = "idle" => audience[t] = {} /\ rest[t] = {}
             /\ call[t] = "sending" => Steady(t) /\ Served(t)
             /\ call[t] = "returned" => rest[t] = {} /\ Served(t)
  BY <1>a DEF QuietInv
<1>b. call[t] = "sending" <=> t \in Suspended
  BY DEF CallInv, Suspended
<1>c. call[t] = "idle" => \A c \in Conn : Absent(t, frames[c])
  BY DEF CallInv, Absent
<1>1. ASSUME NEW u \in Call, record_event_unheard(u) PROVE Goal
  <2>1. UNCHANGED << active, loop, frames, churned >>
    BY <1>1 DEF record_event_unheard
  <2>2. Steady(t)' = Steady(t) /\ Served(t)' = Served(t)
    BY <2>1 DEF Steady, Served, loop
  <2>3. CASE u = t
    <3>1. call[t] = "idle" /\ call'[t] = "returned" /\ active = {}
      BY <1>1, <2>3 DEF record_event_unheard, TypeOK
    <3>2. audience'[t] = {} /\ rest'[t] = {}
      BY <1>a, <2>1, <3>1 DEF loop
    <3> QED BY <3>1, <3>2 DEF Served
  <2>4. CASE u # t
    <3>1. call'[t] = call[t]
      BY <1>1, <2>4 DEF record_event_unheard, TypeOK
    <3> QED BY <1>a, <2>1, <2>2, <3>1 DEF loop
  <2> QED BY <2>3, <2>4
<1>2. ASSUME NEW u \in Call, record_event(u) PROVE Goal
  <2>1. PICK c \in active : Visit(u, c, active \ {c}, {})
    BY <1>2 DEF record_event
  <2>2. c \in Conn /\ active \in SUBSET Conn /\ {} \in SUBSET Conn
    BY DEF TypeOK
  <2>3. active' = active /\ churned' = churned
    BY <1>2 DEF record_event
  <2>4. CASE u = t
    <3>1. audience'[t] = active /\ call'[t] = "sending" /\ call[t] = "idle"
      BY <1>2, <2>4 DEF record_event, TypeOK
    <3>2. Steady(t)' /\ Served(t)'
      BY <1>c, <2>1, <2>2, <2>3, <2>4, <3>1, VisitBySelf
    <3> QED BY <3>1, <3>2
  <2>5. CASE u # t
    <3>1. call'[t] = call[t] /\ audience'[t] = audience[t]
      BY <1>2, <2>5 DEF record_event, TypeOK
    <3>2. /\ rest'[t] = rest[t]
          /\ Steady(t) => Steady(t)'
          /\ Served(t) => Served(t)'
      BY <2>1, <2>2, <2>3, <2>5, <3>1, VisitByOther
    <3> QED BY <1>a, <2>3, <3>1, <3>2
  <2> QED BY <2>4, <2>5
<1>3. ASSUME NEW u \in Call, broadcast_send(u) PROVE Goal
  <2>1. PICK failed \in Caught(u), c \in rest[u] :
          Visit(u, c, rest[u] \ {c}, failed)
    BY <1>3 DEF broadcast_send
  <2>2. /\ c \in Conn /\ rest[u] \in SUBSET Conn /\ failed \in SUBSET Conn
        /\ dead[u] \subseteq failed
    BY DEF TypeOK, Caught
  <2>3. /\ active' = active /\ churned' = churned
        /\ call' = call /\ audience' = audience
    BY <1>3 DEF broadcast_send, service, history
  <2>4. CASE u = t
    <3>1. call[t] = "sending"
      BY <1>3, <2>4 DEF broadcast_send, CallInv
    <3>2. Steady(t) /\ Served(t) /\ audience[t] \subseteq Conn
      BY <1>a, <2>3, <3>1 DEF TypeOK
    <3>3. /\ active' = audience'[t] /\ rest[t] \subseteq audience'[t]
          /\ \A d \in rest[t] : Absent(t, frames[d])
          /\ \A d \in audience'[t] \ rest[t] : d \in failed \/ Once(t, frames[d])
      BY <2>2, <2>3, <2>4, <3>2 DEF Steady, Served
    <3>4. Steady(t)' /\ Served(t)'
      BY <2>1, <2>2, <2>3, <2>4, <3>2, <3>3, VisitBySelf
    <3> QED BY <2>3, <3>1, <3>4
  <2>5. CASE u # t
    <3>1. /\ rest'[t] = rest[t]
          /\ Steady(t) => Steady(t)'
          /\ Served(t) => Served(t)'
      BY <2>1, <2>2, <2>3, <2>5, VisitByOther
    <3> QED BY <1>a, <2>3, <3>1
  <2> QED BY <2>4, <2>5
<1>4. ASSUME NEW u \in Call, broadcast_raise(u) PROVE Goal
  <2>1. UNCHANGED << active, audience, dead, frames, churned >>
    BY <1>4 DEF broadcast_raise, service, history
  <2>2. CASE u = t
    BY <1>4, <2>2 DEF broadcast_raise, TypeOK
  <2>3. CASE u # t
    <3>1. call'[t] = call[t] /\ rest'[t] = rest[t]
      BY <1>4, <2>3 DEF broadcast_raise, TypeOK
    <3> QED BY <1>a, <2>1, <3>1 DEF Steady, Served
  <2> QED BY <2>2, <2>3
<1>5. ASSUME NEW u \in Call, broadcast_end(u) PROVE Goal
  <2>1. PICK failed \in Caught(u) :
          /\ dead' = [dead EXCEPT ![u] = failed]
          /\ Discard(failed, Suspended \ {u})
    BY <1>5 DEF broadcast_end
  <2>2. audience' = audience /\ frames' = frames /\ t \notin churned
    BY <1>5, <2>1 DEF broadcast_end, Discard
  <2>3. CASE u = t
    <3>1. call[t] = "sending" /\ call'[t] = "returned" /\ rest[t] = {}
      BY <1>5, <2>3 DEF broadcast_end, CallInv, TypeOK
    <3>2. rest'[t] = {} /\ dead[t] \subseteq dead'[t]
      BY <2>1, <2>3, <3>1 DEF Discard, Caught, TypeOK
    <3> QED BY <1>a, <2>2, <3>1, <3>2 DEF Served
  <2>4. CASE u # t
    <3>1. call'[t] = call[t] /\ dead'[t] = dead[t] /\ rest'[t] = rest[t] \ failed
      BY <1>5, <2>1, <2>4 DEF broadcast_end, Discard, TypeOK
    <3>2. CASE call[t] = "sending"
      <4>1. active \cap failed = {} /\ active' = active
        BY <1>b, <2>1, <2>4, <3>2 DEF Discard
      <4>2. Steady(t) /\ Served(t)
        BY <1>a, <2>2, <3>2
      <4>3. rest'[t] = rest[t]
        BY <3>1, <4>1, <4>2 DEF Steady
      <4> QED BY <2>2, <3>1, <3>2, <4>1, <4>2, <4>3 DEF Steady, Served
    <3>3. CASE call[t] # "sending"
      BY <1>a, <2>2, <3>1, <3>3 DEF Served
    <3> QED BY <3>2, <3>3
  <2> QED BY <2>3, <2>4
<1>6. ASSUME NEW c \in Conn, connect(c) PROVE Goal
  <2>1. call[t] # "sending" /\ t \notin churned
    BY <1>6, <1>b DEF connect, Add
  <2>2. /\ UNCHANGED << call, audience, dead, frames >>
        /\ rest'[t] = rest[t]
    BY <1>6, <1>b, <2>1 DEF connect, Add
  <2> QED BY <1>a, <2>1, <2>2 DEF Served
<1>7. ASSUME NEW c \in Conn, disconnect(c) PROVE Goal
  <2>1. /\ UNCHANGED << call, audience, dead, frames >>
        /\ rest'[t] = rest[t] \ {c} /\ t \notin churned
        /\ active' = active \ {c}
    BY <1>7 DEF disconnect, Discard
  <2>2. CASE call[t] = "sending"
    <3>1. active \cap {c} = {}
      BY <1>7, <1>b, <2>2 DEF disconnect, Discard
    <3>2. Steady(t) /\ Served(t)
      BY <1>a, <2>1, <2>2
    <3>3. rest'[t] = rest[t] /\ active' = active
      BY <2>1, <3>1, <3>2 DEF Steady
    <3> QED BY <2>1, <2>2, <3>2, <3>3 DEF Steady, Served
  <2>3. CASE call[t] # "sending"
    BY <1>a, <2>1, <2>3 DEF Served
  <2> QED BY <2>2, <2>3
<1>8. ASSUME NEW c \in Conn, accept_fails(c) \/ PeerLeaves(c) PROVE Goal
  <2>1. UNCHANGED << active, call, audience, rest, dead, frames, churned >>
    BY <1>8 DEF accept_fails, PeerLeaves, service, loop, history
  <2> QED BY <1>a, <2>1 DEF Steady, Served
<1>9. CASE UNCHANGED vars
  <2>1. UNCHANGED << active, call, audience, rest, dead, frames, churned >>
    BY <1>9 DEF vars, service, loop, history
  <2> QED BY <1>a, <2>1 DEF Steady, Served
<1> QED
  BY <1>1, <1>2, <1>3, <1>4, <1>5, <1>6, <1>7, <1>8, <1>9 DEF Next

(***************************************************************************)
(* What the iterator has left of an undisturbed loop has not been written  *)
(* to, whether or not sends have raised.                                   *)
(***************************************************************************)
Fresh(t) ==
  /\ \A c \in rest[t] : Absent(t, frames[c])
  /\ \A c \in Conn : NotTwice(t, frames[c])

FreshInv == \A t \in Call \ churned : Fresh(t)

LEMMA FreshAfterFrame ==
  ASSUME NEW s \in Seq(Call), NEW u \in Call
  PROVE  /\ Absent(u, s) => NotTwice(u, Append(s, u))
         /\ \A t \in Call \ {u} : /\ Absent(t, s) => Absent(t, Append(s, u))
                                  /\ NotTwice(t, s) => NotTwice(t, Append(s, u))
<1> DEFINE a == Append(s, u)
<1>1. /\ Len(s) \in Nat /\ Len(a) = Len(s) + 1
      /\ \A i \in 1 .. Len(s) : a[i] = s[i]
      /\ a[Len(s) + 1] = u
  BY AppendProperties, LenProperties
<1> HIDE DEF a
<1>2. Absent(u, s) => NotTwice(u, a)
  <2> SUFFICES ASSUME Absent(u, s) PROVE NotTwice(u, a)
    OBVIOUS
  <2>1. \A i \in 1 .. Len(a) : a[i] = u => i = Len(s) + 1
    BY <1>1 DEF Absent
  <2> QED BY <2>1 DEF NotTwice
<1>3. ASSUME NEW t \in Call \ {u}
      PROVE  /\ Absent(t, s) => Absent(t, a)
             /\ NotTwice(t, s) => NotTwice(t, a)
  <2>1. \A i \in 1 .. Len(a) : a[i] = t => i \in 1 .. Len(s) /\ s[i] = t
    BY <1>1, <1>3
  <2> QED BY <2>1 DEF Absent, NotTwice
<1> QED BY <1>2, <1>3 DEF a

(***************************************************************************)
(* A visit of a connection that has not got the event.                     *)
(***************************************************************************)
LEMMA FreshVisit ==
  ASSUME TypeOK, NEW u \in Call, NEW c \in Conn, NEW ahead \in SUBSET Conn,
         NEW failed, Visit(u, c, ahead \ {c}, failed),
         NEW t \in Call, t # u => Fresh(t),
         t = u => /\ c \in ahead
                  /\ \A d \in ahead : Absent(t, frames[d])
                  /\ \A d \in Conn : NotTwice(t, frames[d])
  PROVE  Fresh(t)'
<1>1. /\ rest \in [Call -> SUBSET Conn] /\ frames \in [Conn -> Seq(Call)]
      /\ rest' = [rest EXCEPT ![u] = ahead \ {c}]
      /\ frames' \in {frames, [frames EXCEPT ![c] = Append(frames[c], u)]}
  BY DEF TypeOK, Visit
<1>2. \A d \in Conn : d # c => frames'[d] = frames[d]
  BY <1>1
<1>3. frames'[c] \in {frames[c], Append(frames[c], u)} /\ frames[c] \in Seq(Call)
  BY <1>1
<1>4. CASE t = u
  <2>1. NotTwice(t, frames'[c])
    BY <1>3, <1>4, FreshAfterFrame
  <2>2. rest'[t] = ahead \ {c}
    BY <1>1, <1>4
  <2> QED BY <1>2, <1>4, <2>1, <2>2 DEF Fresh
<1>5. CASE t # u
  <2>1. \A d \in Conn : /\ Absent(t, frames[d]) => Absent(t, frames'[d])
                        /\ NotTwice(t, frames[d]) => NotTwice(t, frames'[d])
    BY <1>2, <1>3, <1>5, FreshAfterFrame
  <2>2. rest'[t] = rest[t] /\ rest[t] \subseteq Conn
    BY <1>1, <1>5
  <2> QED BY <1>5, <2>1, <2>2 DEF Fresh
<1> QED BY <1>4, <1>5

LEMMA FreshInvNext == LogInv /\ CallInv /\ FreshInv /\ [Next]_vars => FreshInv'
<1> SUFFICES ASSUME LogInv, CallInv, FreshInv, [Next]_vars,
                    NEW t \in Call, t \notin churned'
             PROVE  Fresh(t)'
  BY DEF FreshInv
<1> TypeOK
  BY DEF LogInv
<1>a. ASSUME frames' = frames, rest'[t] \subseteq rest[t], t \notin churned
      PROVE  Fresh(t)'
  BY <1>a DEF FreshInv, Fresh
<1>1. ASSUME NEW u \in Call, record_event_unheard(u) PROVE Fresh(t)'
  BY <1>1, <1>a DEF record_event_unheard, loop
<1>2. ASSUME NEW u \in Call, record_event(u) PROVE Fresh(t)'
  <2>1. PICK c \in active : Visit(u, c, active \ {c}, {})
    BY <1>2 DEF record_event
  <2>2. c \in Conn /\ active \in SUBSET Conn /\ t \notin churned
    BY <1>2 DEF record_event, TypeOK
  <2>3. \A d \in Conn : Absent(u, frames[d]) /\ NotTwice(u, frames[d])
    BY <1>2 DEF record_event, CallInv, Absent, NotTwice
  <2> QED BY <2>1, <2>2, <2>3, FreshVisit DEF FreshInv
<1>3. ASSUME NEW u \in Call, broadcast_send(u) PROVE Fresh(t)'
  <2>1. PICK failed \in Caught(u), c \in rest[u] :
          Visit(u, c, rest[u] \ {c}, failed)
    BY <1>3 DEF broadcast_send
  <2>2. c \in Conn /\ rest[u] \in SUBSET Conn /\ t \notin churned
    BY <1>3 DEF broadcast_send, history, TypeOK
  <2> QED BY <2>1, <2>2, FreshVisit DEF FreshInv, Fresh
<1>4. ASSUME NEW u \in Call, broadcast_raise(u) PROVE Fresh(t)'
  BY <1>4, <1>a DEF broadcast_raise, history, TypeOK
<1>5. ASSUME NEW u \in Call, broadcast_end(u) PROVE Fresh(t)'
  BY <1>5, <1>a DEF broadcast_end, Discard
<1>6. ASSUME NEW c \in Conn, connect(c) PROVE Fresh(t)'
  <2>1. t \notin Suspended /\ t \notin churned /\ frames' = frames
    BY <1>6 DEF connect, Add
  <2>2. rest'[t] = rest[t]
    BY <1>6, <2>1 DEF connect, Add
  <2> QED BY <1>a, <2>1, <2>2
<1>7. ASSUME NEW c \in Conn, disconnect(c) PROVE Fresh(t)'
  BY <1>7, <1>a DEF disconnect, Discard
<1>8. ASSUME NEW c \in Conn, accept_fails(c) \/ PeerLeaves(c) PROVE Fresh(t)'
  BY <1>8, <1>a DEF accept_fails, PeerLeaves, loop, history
<1>9. CASE UNCHANGED vars
  BY <1>9, <1>a DEF vars, loop, history
<1> QED
  BY <1>1, <1>2, <1>3, <1>4, <1>5, <1>6, <1>7, <1>8, <1>9 DEF Next

(***************************************************************************)
(* A broadcast that no other coroutine disturbed gives its event exactly   *)
(* once to every connection that was active, failed sends excepted, and    *)
(* twice to none: what is repeated needs a change of the set.              *)
(***************************************************************************)
THEOREM DeliveryCorrect == Spec => []QuietDelivery
<1>1. Init => QuietInv /\ FreshInv
  <2> SUFFICES ASSUME Init PROVE QuietInv /\ FreshInv
    OBVIOUS
  <2>1. QuietInv
    BY DEF Init, QuietInv
  <2>2. \A c \in Conn : Len(frames[c]) = 0
    BY DEF Init
  <2>3. FreshInv
    BY <2>2 DEF Init, FreshInv, Fresh, NotTwice
  <2> QED BY <2>1, <2>3
<1>2. Spec => [](QuietInv /\ FreshInv)
  BY <1>1, QuietInvNext, FreshInvNext, CallInvariant, PTL DEF Spec
<1>3. QuietInv /\ FreshInv => QuietDelivery
  BY DEF QuietInv, FreshInv, Fresh, QuietDelivery, Served
<1> QED BY <1>2, <1>3, PTL

-----------------------------------------------------------------------------
(* The metric.                                                             *)

(***************************************************************************)
(* A call that begins is in the log's history from then on.                *)
(***************************************************************************)
LEMMA LoggedStep ==
  ASSUME LogInv, CallInv, NEW t \in Call, log_event(t), call[t] = "idle"
  PROVE  t \notin Logged /\ Logged' = Logged \cup {t}
<1>1. t \notin Logged
  BY DEF Logged, CallInv
<1>2. /\ Len(recorded) \in Nat /\ Len(recorded') = Len(recorded) + 1
      /\ \A i \in 1 .. Len(recorded') :
           recorded'[i] = IF i = 1 THEN t ELSE recorded[i - 1]
  BY ConcatProperties, LenProperties DEF LogInv, TypeOK, log_event
<1>3. ASSUME NEW i \in 1 .. Len(recorded) PROVE recorded[i] \in Logged'
  <2>1. i + 1 \in 1 .. Len(recorded') /\ i + 1 # 1 /\ (i + 1) - 1 = i
    BY <1>2
  <2>2. recorded'[i + 1] = recorded[i]
    BY <1>2, <2>1
  <2> QED BY <2>1, <2>2 DEF Logged
<1>4. t \in Logged'
  <2>1. 1 \in 1 .. Len(recorded')
    BY <1>2
  <2> QED BY <1>2, <2>1 DEF Logged
<1>5. ASSUME NEW i \in 1 .. Len(recorded') PROVE recorded'[i] \in Logged \cup {t}
  <2>1. CASE i # 1
    <3>1. i - 1 \in 1 .. Len(recorded)
      BY <1>2, <2>1
    <3> QED BY <1>2, <2>1, <3>1 DEF Logged
  <2> QED BY <1>2, <2>1
<1>6. Logged' \subseteq Logged \cup {t}
  BY <1>5 DEF Logged
<1>7. Logged \subseteq Logged'
  BY <1>3 DEF Logged
<1> QED BY <1>1, <1>4, <1>6, <1>7

Returned == { t \in Call : call[t] = "returned" }

(***************************************************************************)
(* The metric is the number of calls that returned.  Every call that has   *)
(* begun is in the log's history, and only a call under which others       *)
(* changed the set raises: an undisturbed iterator finds the size of the   *)
(* set as it was.                                                          *)
(***************************************************************************)
CounterInv ==
  /\ counter = Cardinality(Returned)
  /\ \A t \in Call : call[t] # "idle" => t \in Logged
  /\ \A t \in Call \ churned : call[t] # "raised"

LEMMA ReturnedStep ==
  ASSUME LogInv, counter = Cardinality(Returned), NEW t \in Call, call[t] # "returned",
         call' = [call EXCEPT ![t] = "returned"], counter' = counter + 1
  PROVE  counter' = Cardinality(Returned')
<1>1. IsFiniteSet(Returned)
  BY FiniteAssumption, FS_Subset DEF Returned
<1>2. t \notin Returned /\ Returned' = Returned \cup {t}
  BY DEF Returned, LogInv, TypeOK
<1>3. Cardinality(Returned') = Cardinality(Returned) + 1
  BY <1>1, <1>2, FS_AddElement
<1> QED BY <1>3

LEMMA CounterInvNext ==
  LogInv /\ CallInv /\ QuietInv /\ CounterInv /\ [Next]_vars => CounterInv'
<1> SUFFICES ASSUME LogInv, CallInv, QuietInv, CounterInv, [Next]_vars
             PROVE  CounterInv'
  OBVIOUS
<1>a. call \in [Call -> CallState] /\ counter = Cardinality(Returned)
  BY DEF LogInv, TypeOK, CounterInv
<1>1. ASSUME NEW t \in Call, record_event_unheard(t) PROVE CounterInv'
  <2>1. Logged' = Logged \cup {t}
    BY <1>1, LoggedStep DEF record_event_unheard
  <2>2. /\ call[t] = "idle" /\ call' = [call EXCEPT ![t] = "returned"]
        /\ counter' = counter + 1 /\ churned' = churned
    BY <1>1 DEF record_event_unheard
  <2>3. counter' = Cardinality(Returned')
    BY <1>a, <2>2, ReturnedStep
  <2> QED BY <1>a, <2>1, <2>2, <2>3 DEF CounterInv
<1>2. ASSUME NEW t \in Call, record_event(t) PROVE CounterInv'
  <2>1. Logged' = Logged \cup {t}
    BY <1>2, LoggedStep DEF record_event
  <2>2. /\ call[t] = "idle" /\ call' = [call EXCEPT ![t] = "sending"]
        /\ counter' = counter /\ churned' = churned
    BY <1>2 DEF record_event
  <2>3. Returned' = Returned
    BY <1>a, <2>2 DEF Returned
  <2> QED BY <1>a, <2>1, <2>2, <2>3 DEF CounterInv
<1>3. ASSUME NEW t \in Call, broadcast_raise(t) PROVE CounterInv'
  <2>1. call[t] = "sending"
    BY <1>3 DEF broadcast_raise, CallInv
  <2>2. t \in churned
    <3>1. active # audience[t]
      BY <1>3 DEF broadcast_raise
    <3> QED BY <2>1, <3>1 DEF QuietInv, Steady
  <2>3. /\ call' = [call EXCEPT ![t] = "raised"]
        /\ UNCHANGED << counter, recorded, churned >>
    BY <1>3 DEF broadcast_raise, service, history
  <2>4. Returned' = Returned /\ Logged' = Logged
    BY <1>a, <2>1, <2>3 DEF Returned, Logged
  <2> QED BY <1>a, <2>1, <2>2, <2>3, <2>4 DEF CounterInv
<1>4. ASSUME NEW t \in Call, broadcast_end(t) PROVE CounterInv'
  <2>1. call[t] = "sending"
    BY <1>4 DEF broadcast_end, CallInv
  <2>2. /\ call' = [call EXCEPT ![t] = "returned"] /\ counter' = counter + 1
        /\ recorded' = recorded /\ churned \subseteq churned'
    BY <1>4 DEF broadcast_end, Discard
  <2>3. counter' = Cardinality(Returned')
    BY <1>a, <2>1, <2>2, ReturnedStep
  <2>4. Logged' = Logged
    BY <2>2 DEF Logged
  <2> QED BY <1>a, <2>1, <2>2, <2>3, <2>4 DEF CounterInv
<1>5. ASSUME UNCHANGED << counter, call, recorded >>, churned \subseteq churned'
      PROVE  CounterInv'
  BY <1>5 DEF CounterInv, Returned, Logged
<1>6. ASSUME NEW t \in Call, broadcast_send(t) PROVE CounterInv'
  BY <1>5, <1>6 DEF broadcast_send, service, history
<1>7. ASSUME NEW c \in Conn,
             connect(c) \/ accept_fails(c) \/ disconnect(c) \/ PeerLeaves(c)
      PROVE  CounterInv'
  BY <1>5, <1>7 DEF connect, accept_fails, disconnect, PeerLeaves, Add, Discard,
                    service, history
<1>8. CASE UNCHANGED vars
  BY <1>5, <1>8 DEF vars, service, history
<1> QED BY <1>1, <1>2, <1>3, <1>4, <1>6, <1>7, <1>8 DEF Next

(***************************************************************************)
(* The audit counter misses no event but those still being sent and those  *)
(* under whose broadcast others changed the set, however sends fail and    *)
(* calls interleave, and it counts none twice.                             *)
(***************************************************************************)
THEOREM CounterCorrect == Spec => []QuietEventsCounted
<1>1. Init => QuietInv /\ CounterInv
  <2> SUFFICES ASSUME Init PROVE QuietInv /\ CounterInv
    OBVIOUS
  <2>1. Returned = {}
    BY DEF Init, Returned
  <2>2. Cardinality(Returned) = 0
    BY <2>1, FS_EmptySet
  <2> QED BY <2>2 DEF Init, QuietInv, CounterInv
<1>2. Spec => [](LogInv /\ CallInv /\ CounterInv)
  BY <1>1, QuietInvNext, CounterInvNext, CallInvariant, PTL DEF Spec
<1>3. LogInv /\ CallInv /\ CounterInv => QuietEventsCounted
  <2> SUFFICES ASSUME LogInv, CallInv, CounterInv PROVE QuietEventsCounted
    OBVIOUS
  <2>1. \A t \in Logged : t \in Call /\ call[t] # "idle"
    BY ElementOfSeq DEF Logged, CallInv, LogInv, TypeOK
  <2>2. \A t \in Call : call[t] \in CallState
    BY DEF LogInv, TypeOK
  <2>3. /\ Logged \ (Sending \cup churned) \subseteq Returned
        /\ Returned \subseteq Logged \ Sending
    BY <2>1, <2>2 DEF CounterInv, Returned, Sending, CallState
  <2>4. IsFiniteSet(Returned) /\ IsFiniteSet(Logged \ Sending)
    <3>1. Returned \subseteq Call /\ Logged \ Sending \subseteq Call
      BY <2>1 DEF Returned
    <3> QED BY <3>1, FiniteAssumption, FS_Subset
  <2>5. /\ Cardinality(Logged \ (Sending \cup churned)) <= Cardinality(Returned)
        /\ Cardinality(Returned) <= Cardinality(Logged \ Sending)
    BY <2>3, <2>4, FS_Subset
  <2> QED BY <2>5 DEF CounterInv, QuietEventsCounted
<1> QED BY <1>2, <1>3, PTL

-----------------------------------------------------------------------------
(* The promise to every connection.                                        *)

(***************************************************************************)
(* What a loop still has to visit is active.                               *)
(***************************************************************************)
RestInv == \A t \in Call : rest[t] \subseteq active

LEMMA RestInvNext == LogInv /\ RestInv /\ [Next]_vars => RestInv'
<1> SUFFICES ASSUME LogInv, RestInv, [Next]_vars PROVE RestInv'
  OBVIOUS
<1> USE DEF LogInv
<1>1. ASSUME NEW t \in Call, record_event(t) PROVE RestInv'
  BY <1>1 DEF record_event, Visit, RestInv, TypeOK
<1>2. ASSUME NEW t \in Call, broadcast_send(t) PROVE RestInv'
  BY <1>2 DEF broadcast_send, Visit, service, RestInv, TypeOK
<1>3. ASSUME NEW t \in Call, record_event_unheard(t) \/ broadcast_raise(t) PROVE RestInv'
  BY <1>3 DEF record_event_unheard, broadcast_raise, service, loop, RestInv, TypeOK
<1>4. ASSUME NEW t \in Call, broadcast_end(t) PROVE RestInv'
  BY <1>4 DEF broadcast_end, Discard, RestInv
<1>5. ASSUME NEW c \in Conn, connect(c) PROVE RestInv'
  BY <1>5 DEF connect, Add, RestInv
<1>6. ASSUME NEW c \in Conn, disconnect(c) PROVE RestInv'
  BY <1>6 DEF disconnect, Discard, RestInv
<1>7. ASSUME NEW c \in Conn, accept_fails(c) \/ PeerLeaves(c) PROVE RestInv'
  BY <1>7 DEF accept_fails, PeerLeaves, service, loop, RestInv
<1>8. CASE UNCHANGED vars
  BY <1>8 DEF vars, service, loop, RestInv
<1> QED BY <1>1, <1>2, <1>3, <1>4, <1>5, <1>6, <1>7, <1>8 DEF Next

(***************************************************************************)
(* What the promise calls heard.                                           *)
(***************************************************************************)
Heard(c) == { t \in Sending : \E i \in 1 .. Len(frames[c]) : frames[c][i] = t }

LEMMA HeardStep ==
  ASSUME LogInv, CallInv, NEW t \in Call, NEW c \in Conn
  PROVE  /\ frames'[c] = frames[c] /\ Sending' = Sending => Heard(c)' = Heard(c)
         /\ frames'[c] = frames[c] /\ Sending' = Sending \ {t}
              => Heard(c)' = Heard(c) \ {t}
         /\ frames'[c] = frames[c] /\ Sending' = Sending \cup {t} /\ call[t] = "idle"
              => Heard(c)' = Heard(c)
         /\ frames'[c] = Append(frames[c], t) /\ Sending' = Sending \cup {t}
              => Heard(c)' = Heard(c) \cup {t}
<1>1. frames'[c] = frames[c] /\ Sending' = Sending => Heard(c)' = Heard(c)
  BY DEF Heard
<1>2. frames'[c] = frames[c] /\ Sending' = Sending \ {t} => Heard(c)' = Heard(c) \ {t}
  BY DEF Heard
<1>3. ASSUME frames'[c] = frames[c], Sending' = Sending \cup {t}, call[t] = "idle"
      PROVE  Heard(c)' = Heard(c)
  <2>1. \A i \in 1 .. Len(frames[c]) : frames[c][i] # t
    BY <1>3 DEF CallInv
  <2> QED BY <1>3, <2>1 DEF Heard
<1>4. ASSUME frames'[c] = Append(frames[c], t), Sending' = Sending \cup {t}
      PROVE  Heard(c)' = Heard(c) \cup {t}
  <2>1. /\ Len(frames'[c]) = Len(frames[c]) + 1 /\ Len(frames[c]) \in Nat
        /\ \A i \in 1 .. Len(frames[c]) : frames'[c][i] = frames[c][i]
        /\ frames'[c][Len(frames[c]) + 1] = t
    BY <1>4, AppendProperties, LenProperties DEF LogInv, TypeOK
  <2>2. ASSUME NEW x
        PROVE  (\E i \in 1 .. Len(frames'[c]) : frames'[c][i] = x)
                 <=> x = t \/ \E i \in 1 .. Len(frames[c]) : frames[c][i] = x
    BY <2>1
  <2> QED BY <1>4, <2>2 DEF Heard
<1> QED BY <1>1, <1>2, <1>3, <1>4

LEMMA StreamStep ==
  ASSUME LogInv, CallInv, RestInv, [Next]_vars, NEW c \in Conn
  PROVE  Stream(c)!Step
<1> DEFINE Quiet == UNCHANGED << Logged, Sending, Heard(c), frames[c] >>
<1> TypeOK
  BY DEF LogInv
<1>a. ASSUME recorded' = recorded PROVE Logged' = Logged
  BY <1>a DEF Logged
<1>b. ASSUME call' = call PROVE Sending' = Sending
  BY <1>b DEF Sending
<1>1. ASSUME NEW t \in Call, record_event_unheard(t) PROVE Stream(c)!Step
  <2>1. t \notin Logged /\ Logged' = Logged \cup {t}
    BY <1>1, LoggedStep DEF record_event_unheard
  <2>2. Sending' = Sending
    BY <1>1 DEF record_event_unheard, Sending, TypeOK
  <2>3. frames'[c] = frames[c] /\ active = {} /\ active' = {}
    BY <1>1 DEF record_event_unheard
  <2>4. Heard(c)' = Heard(c)
    BY <2>2, <2>3, HeardStep
  <2>5. Stream(c)!Record(t)
    BY <2>1, <2>2, <2>3, <2>4 DEF Stream!Record, Heard
  <2> QED BY <2>5 DEF Stream!Step, Stream!Next
<1>2. ASSUME NEW t \in Call, record_event(t) PROVE Stream(c)!Step
  <2>1. PICK d \in active : Visit(t, d, active \ {d}, {})
    BY <1>2 DEF record_event
  <2>2. t \notin Logged /\ Logged' = Logged \cup {t} /\ call[t] = "idle"
    BY <1>2, LoggedStep DEF record_event
  <2>3. Sending' = Sending \cup {t} /\ active' = active
    BY <1>2 DEF record_event, Sending, TypeOK
  <2>4. CASE frames'[c] = frames[c]
    <3>1. Heard(c)' = Heard(c)
      BY <2>2, <2>3, <2>4, HeardStep
    <3>2. Stream(c)!Record(t)
      BY <2>2, <2>3, <2>4, <3>1 DEF Stream!Record, Heard
    <3> QED BY <3>2 DEF Stream!Step, Stream!Next
  <2>5. CASE c \in active /\ frames'[c] = Append(frames[c], t)
    <3>1. Heard(c)' = Heard(c) \cup {t}
      BY <2>3, <2>5, HeardStep
    <3>2. Stream(c)!Frame(t)
      BY <2>5, <3>1 DEF Stream!Frame, Heard
    <3>3. Stream(c)!Record(t)
      BY <2>2, <2>3, <3>2 DEF Stream!Record
    <3> QED BY <3>3 DEF Stream!Step, Stream!Next
  <2> QED BY <2>1, <2>4, <2>5 DEF Visit, TypeOK
<1>3. ASSUME NEW t \in Call, broadcast_send(t) PROVE Stream(c)!Step
  <2>1. PICK failed \in Caught(t), d \in rest[t] : Visit(t, d, rest[t] \ {d}, failed)
    BY <1>3 DEF broadcast_send
  <2>2. d \in active /\ UNCHANGED << active, call, recorded >>
    BY <1>3, <2>1 DEF broadcast_send, service, history, RestInv
  <2>3. t \in Sending /\ Sending' = Sending /\ Logged' = Logged
    BY <1>3, <1>a, <1>b, <2>2 DEF broadcast_send, CallInv, Sending
  <2>4. CASE frames'[c] = frames[c]
    <3>1. Heard(c)' = Heard(c)
      BY <2>3, <2>4, HeardStep
    <3> QED BY <2>2, <2>3, <2>4, <3>1 DEF Stream!Step, Stream!vars, Heard
  <2>5. CASE c \in active /\ frames'[c] = Append(frames[c], t)
    <3>1. Heard(c)' = Heard(c) \cup {t}
      BY <2>3, <2>5, HeardStep
    <3>2. Stream(c)!Frame(t)
      BY <2>5, <3>1 DEF Stream!Frame, Heard
    <3>3. Stream(c)!Send(t) \/ Stream(c)!Repeat(t)
      BY <2>2, <2>3, <3>2 DEF Stream!Send, Stream!Repeat
    <3> QED BY <3>3 DEF Stream!Step, Stream!Next
  <2> QED BY <2>1, <2>2, <2>4, <2>5 DEF Visit, TypeOK
<1>4. ASSUME NEW t \in Call, broadcast_raise(t) \/ broadcast_end(t) PROVE Stream(c)!Step
  <2>1. t \in Sending /\ Sending' = Sending \ {t}
    BY <1>4 DEF broadcast_raise, broadcast_end, CallInv, Sending, TypeOK
  <2>2. /\ frames'[c] = frames[c] /\ Logged' = Logged
        /\ c \in active' => c \in active
    BY <1>4, <1>a DEF broadcast_raise, broadcast_end, Discard, service, history
  <2>3. Heard(c)' = Heard(c) \ {t}
    BY <2>1, <2>2, HeardStep
  <2>4. (c \in active') \in {(c \in active), FALSE}
    <3>1. CASE c \in active'
      <4>1. (c \in active') = (c \in active)
        BY <2>2, <3>1
      <4> QED BY <4>1
    <3>2. CASE ~ (c \in active')
      <4>1. (c \in active') = FALSE
        BY <3>2
      <4> QED BY <4>1
    <3> QED BY <3>1, <3>2
  <2>5. Stream(c)!End(t)
    BY <2>1, <2>2, <2>3, <2>4 DEF Stream!End, Heard
  <2> QED BY <2>5 DEF Stream!Step, Stream!Next
<1>5. ASSUME UNCHANGED << recorded, call, frames >> PROVE Stream(c)!Step
  <2>1. Quiet
    BY <1>5, <1>a, <1>b DEF Heard
  <2>2. Stream(c)!Change
    BY <2>1 DEF Stream!Change, Heard
  <2> QED BY <2>2 DEF Stream!Step, Stream!Next
<1>6. ASSUME NEW d \in Conn,
             connect(d) \/ accept_fails(d) \/ disconnect(d) \/ PeerLeaves(d)
      PROVE  Stream(c)!Step
  BY <1>5, <1>6 DEF connect, accept_fails, disconnect, PeerLeaves, Discard, Add, history
<1>7. CASE UNCHANGED vars
  BY <1>5, <1>7 DEF vars, history
<1> QED BY <1>1, <1>2, <1>3, <1>4, <1>6, <1>7 DEF Next

(***************************************************************************)
(* The service keeps the promise of AuditStream to every connection, for   *)
(* any number of them and of concurrent calls.                             *)
(***************************************************************************)
THEOREM StreamPromise == Spec => ImplementsAuditStream
<1>1. Init => \A c \in Conn : Stream(c)!Init
  <2> SUFFICES ASSUME Init, NEW c \in Conn PROVE Stream(c)!Init
    OBVIOUS
  <2>1. Logged = {} /\ Sending = {} /\ frames[c] = << >> /\ active = {}
    BY DEF Init, Logged, Sending
  <2> QED BY <2>1 DEF Stream!Init
<1>2. Init => RestInv
  BY DEF Init, RestInv
<1>3. LogInv /\ CallInv /\ RestInv /\ [Next]_vars => \A c \in Conn : Stream(c)!Step
  BY StreamStep
<1> QED BY <1>1, <1>2, <1>3, RestInvNext, CallInvariant, PTL
        DEF Spec, ImplementsAuditStream
-----------------------------------------------------------------------------
(* The gauges, the other half of the control plane's telemetry.            *)

CONSTANTS Handler, Loop, Size, MaxChanges, MaxTTL, Tick, Threshold

VARIABLES
  entries, agents, up, changes, doing, answer, entries_list,
  workloads, svids, attested, ttl

Gauges == INSTANCE Telemetry

(***************************************************************************)
(* The loop asks for agents, and publishes, only with an entries list of a *)
(* listing: the zero it starts with reaches no gauge.                      *)
(***************************************************************************)
ListedBefore == doing[Loop] = "agents" => entries_list \in Gauges!Length

GaugesInv == Gauges!TypeOK /\ Gauges!GaugesAgree /\ ListedBefore

(***************************************************************************)
(* What Telemetry assumes of its constants.                                *)
(***************************************************************************)
Lifetimes ==
  /\ Size \subseteq Nat /\ MaxChanges \in Nat
  /\ Loop \notin Handler
  /\ MaxTTL \in Nat /\ Tick \in Nat /\ Threshold \in Nat
  /\ Threshold <= MaxTTL

(***************************************************************************)
(* The countdown stays between the threshold and the maximum, whatever the *)
(* two and the tick are.                                                   *)
(***************************************************************************)
LEMMA CountdownBounds ==
  ASSUME Lifetimes, NEW t \in Threshold..MaxTTL
  PROVE  Gauges!countdown(t) \in Threshold..MaxTTL
BY DEF Lifetimes, Gauges!countdown

LEMMA GaugesInit == Lifetimes /\ Gauges!Init => GaugesInv
<1> SUFFICES ASSUME Lifetimes, Gauges!Init PROVE GaugesInv
  OBVIOUS
<1>1. ttl \in Threshold..MaxTTL /\ changes \in 0..MaxChanges
  BY DEF Lifetimes, Gauges!Init
<1>2. Loop \in Gauges!Task
  BY DEF Gauges!Task
<1>3. doing[Loop] = "entries"
  BY <1>2 DEF Gauges!Init
<1>4. doing \in [Gauges!Task -> { "idle", "entries", "agents", "asleep" }]
  BY DEF Gauges!Init
<1> QED BY <1>1, <1>3, <1>4 
        DEF Gauges!Init, Gauges!TypeOK, Gauges!GaugesAgree, GaugesInv, ListedBefore

(***************************************************************************)
(* A task that waits for a listing, or for nothing.                        *)
(***************************************************************************)
LEMMA WaitTypes ==
  ASSUME Gauges!TypeOK, NEW p \in Gauges!Task,
         NEW listing \in { "idle", "entries", "agents", "asleep" },
         Gauges!wait_for(p, listing)
  PROVE  /\ doing' \in [Gauges!Task -> { "idle", "entries", "agents", "asleep" }]
         /\ answer' \in [Gauges!Task -> Size \cup {Gauges!unset}]
         /\ doing'[p] = listing
         /\ \A x \in Gauges!Task \ {p} : doing'[x] = doing[x]
BY DEF Gauges!TypeOK, Gauges!wait_for

(***************************************************************************)
(* What a listing returns has the length of one, and so have the gauges it *)
(* publishes, which agree.                                                 *)
(***************************************************************************)
LEMMA ListingTypes ==
  ASSUME Gauges!TypeOK, Gauges!GaugesAgree, NEW p \in Gauges!Task, NEW n \in Gauges!Length,
         Gauges!list_entries(p, n)
  PROVE  /\ workloads' \in Gauges!Length \cup {Gauges!unset}
         /\ svids' \in { m + 1 : m \in Gauges!Length } \cup {Gauges!unset}
         /\ Gauges!GaugesAgree'
<1>1. CASE /\ answer[p] # Gauges!unset /\ n = answer[p]
           /\ workloads' = n /\ svids' = n + 1
  <2>1. n # Gauges!unset
    BY <1>1
  <2> QED BY <1>1, <2>1 DEF Gauges!GaugesAgree
<1>2. CASE UNCHANGED << workloads, svids >>
  BY <1>2 DEF Gauges!TypeOK, Gauges!GaugesAgree
<1> QED BY <1>1, <1>2 DEF Gauges!list_entries

LEMMA GaugesNext ==
  ASSUME Lifetimes, GaugesInv, [Gauges!Next]_(Gauges!vars) PROVE GaugesInv'
<1> USE DEF GaugesInv
<1>a. Loop \in Gauges!Task /\ (\A h \in Handler : h \in Gauges!Task /\ h # Loop)
  BY DEF Lifetimes, Gauges!Task
<1>1. CASE Gauges!SpireChanges
  <2>1. UNCHANGED << doing, answer, entries_list, workloads, svids, attested, ttl >>
    BY <1>1 DEF Gauges!SpireChanges, Gauges!gauges
  <2>2. changes < MaxChanges /\ changes' = changes + 1
    BY <1>1 DEF Gauges!SpireChanges
  <2>3. changes' \in 0..MaxChanges
    BY <2>2 DEF Lifetimes, Gauges!TypeOK
  <2>4. entries' \in Size /\ agents' \in Size
    BY <1>1 DEF Gauges!SpireChanges, Gauges!TypeOK
  <2>5. up' \in BOOLEAN
    BY <1>1 DEF Gauges!SpireChanges, Gauges!TypeOK
  <2> QED BY <2>1, <2>3, <2>4, <2>5 DEF Gauges!TypeOK, Gauges!GaugesAgree, ListedBefore
<1>2. ASSUME NEW p \in Gauges!Task, Gauges!SpireAnswers(p) PROVE GaugesInv'
  <2>1. UNCHANGED << entries, agents, up, changes, doing, entries_list, workloads,
                     svids, attested, ttl >>
    BY <1>2 DEF Gauges!SpireAnswers, Gauges!spire, Gauges!gauges
  <2>2. answer' \in [Gauges!Task -> Size \cup {Gauges!unset}]
    BY <1>2 DEF Gauges!SpireAnswers, Gauges!TypeOK
  <2> QED BY <2>1, <2>2 DEF Gauges!TypeOK, Gauges!GaugesAgree, ListedBefore
<1>3. ASSUME NEW h \in Handler, Gauges!begin_listing(h) PROVE GaugesInv'
  <2>1. UNCHANGED << entries, agents, up, changes, entries_list, workloads,
                     svids, attested, ttl >>
    BY <1>3 DEF Gauges!begin_listing, Gauges!spire, Gauges!gauges
  <2>2. PICK listing \in { "entries", "agents" } : Gauges!wait_for(h, listing)
    BY <1>3 DEF Gauges!begin_listing
  <2>3. /\ doing' \in [Gauges!Task -> { "idle", "entries", "agents", "asleep" }]
        /\ answer' \in [Gauges!Task -> Size \cup {Gauges!unset}]
        /\ doing'[Loop] = doing[Loop]
    BY <1>a, <2>2, WaitTypes
  <2> QED BY <2>1, <2>3 DEF Gauges!TypeOK, Gauges!GaugesAgree, ListedBefore
<1>4. ASSUME NEW h \in Handler, Gauges!get_entries(h) PROVE GaugesInv'
  <2>1. UNCHANGED << entries, agents, up, changes, entries_list, attested, ttl >>
    BY <1>4 DEF Gauges!get_entries, Gauges!spire
  <2>2. PICK n \in Gauges!Length : Gauges!list_entries(h, n)
    BY <1>4 DEF Gauges!get_entries
  <2>3. /\ workloads' \in Gauges!Length \cup {Gauges!unset}
        /\ svids' \in { m + 1 : m \in Gauges!Length } \cup {Gauges!unset}
        /\ Gauges!GaugesAgree'
    BY <1>a, <2>2, ListingTypes
  <2>4. /\ doing' \in [Gauges!Task -> { "idle", "entries", "agents", "asleep" }]
        /\ answer' \in [Gauges!Task -> Size \cup {Gauges!unset}]
        /\ doing'[Loop] = doing[Loop]
    BY <1>a, <1>4, WaitTypes DEF Gauges!get_entries
  <2> QED BY <2>1, <2>3, <2>4 DEF Gauges!TypeOK, Gauges!GaugesAgree, ListedBefore
<1>5. ASSUME NEW h \in Handler, Gauges!get_agents(h) PROVE GaugesInv'
  <2>1. UNCHANGED << entries, agents, up, changes, entries_list, workloads, svids, ttl >>
    BY <1>5 DEF Gauges!get_agents, Gauges!spire
  <2>2. attested' \in Gauges!Length \cup {Gauges!unset}
    BY <1>5 DEF Gauges!get_agents, Gauges!TypeOK
  <2>3. /\ doing' \in [Gauges!Task -> { "idle", "entries", "agents", "asleep" }]
        /\ answer' \in [Gauges!Task -> Size \cup {Gauges!unset}]
        /\ doing'[Loop] = doing[Loop]
    BY <1>a, <1>5, WaitTypes DEF Gauges!get_agents
  <2> QED BY <2>1, <2>2, <2>3 DEF Gauges!TypeOK, Gauges!GaugesAgree, ListedBefore
<1>6. CASE Gauges!poll_entries
  <2>1. UNCHANGED << entries, agents, up, changes, attested, ttl >>
    BY <1>6 DEF Gauges!poll_entries, Gauges!spire
  <2>2. PICK n \in Gauges!Length : Gauges!list_entries(Loop, n) /\ entries_list' = n
    BY <1>6 DEF Gauges!poll_entries
  <2>3. /\ workloads' \in Gauges!Length \cup {Gauges!unset}
        /\ svids' \in { m + 1 : m \in Gauges!Length } \cup {Gauges!unset}
        /\ Gauges!GaugesAgree'
    BY <1>a, <2>2, ListingTypes
  <2>4. /\ doing' \in [Gauges!Task -> { "idle", "entries", "agents", "asleep" }]
        /\ answer' \in [Gauges!Task -> Size \cup {Gauges!unset}]
    BY <1>a, <1>6, WaitTypes DEF Gauges!poll_entries
  <2> QED BY <2>1, <2>2, <2>3, <2>4 DEF Gauges!TypeOK, Gauges!GaugesAgree, ListedBefore
<1>7. CASE Gauges!poll_agents
  <2>1. UNCHANGED << entries, agents, up, changes, entries_list >>
    BY <1>7 DEF Gauges!poll_agents, Gauges!spire
  <2>2. doing[Loop] = "agents" /\ attested' \in Gauges!Length
    BY <1>7 DEF Gauges!poll_agents, Gauges!list_agents
  <2>3. workloads' = entries_list /\ svids' = entries_list + 1 /\ ttl' = Gauges!countdown(ttl)
    BY <1>7 DEF Gauges!poll_agents
  <2>4. entries_list \in Gauges!Length
    BY <2>2 DEF ListedBefore
  <2>5. ttl' \in Threshold..MaxTTL
    BY <2>3, CountdownBounds DEF Gauges!TypeOK
  <2>6. /\ doing' \in [Gauges!Task -> { "idle", "entries", "agents", "asleep" }]
        /\ answer' \in [Gauges!Task -> Size \cup {Gauges!unset}]
        /\ doing'[Loop] = "asleep"
    BY <1>a, <1>7, WaitTypes DEF Gauges!poll_agents
  <2>7. entries_list # Gauges!unset
    BY <2>4 DEF Lifetimes, Gauges!Length, Gauges!DemoEntries, Gauges!DemoAgents,
                Gauges!unset
  <2> QED BY <2>1, <2>2, <2>3, <2>4, <2>5, <2>6, <2>7 DEF Gauges!TypeOK, Gauges!GaugesAgree, ListedBefore
<1>8. CASE Gauges!wake
  <2>1. UNCHANGED << entries, agents, up, changes, entries_list, workloads, svids,
                     attested, ttl >>
    BY <1>8 DEF Gauges!wake, Gauges!spire, Gauges!gauges
  <2>2. /\ doing' \in [Gauges!Task -> { "idle", "entries", "agents", "asleep" }]
        /\ answer' \in [Gauges!Task -> Size \cup {Gauges!unset}]
        /\ doing'[Loop] = "entries"
    BY <1>a, <1>8, WaitTypes DEF Gauges!wake
  <2> QED BY <2>1, <2>2 DEF Gauges!TypeOK, Gauges!GaugesAgree, ListedBefore
<1>9. CASE UNCHANGED Gauges!vars
  <2>1. UNCHANGED << entries, agents, up, changes, doing, answer, entries_list,
                     workloads, svids, attested, ttl >>
    BY <1>9 DEF Gauges!vars, Gauges!spire, Gauges!gauges
  <2> QED BY <2>1 DEF Gauges!TypeOK, Gauges!GaugesAgree, ListedBefore
<1> QED BY <1>1, <1>2, <1>3, <1>4, <1>5, <1>6, <1>7, <1>8, <1>9 DEF Gauges!Next

(***************************************************************************)
(* The gauges' types and their agreement, for any sizes, lifetimes and     *)
(* number of handlers: the published lifetime never falls below the        *)
(* threshold, neither the list the loop starts with nor a made up length   *)
(* is published, and no writer sets one of two gauges only.                *)
(***************************************************************************)
THEOREM GaugesCorrect ==
  ASSUME Lifetimes PROVE Gauges!Spec => []Gauges!TelemetryInv
<1>1. GaugesInv => Gauges!TelemetryInv
  BY DEF GaugesInv, Gauges!TelemetryInv
<1>2. Gauges!Init => GaugesInv
  BY GaugesInit
<1>3. GaugesInv /\ [Gauges!Next]_(Gauges!vars) => GaugesInv'
  BY GaugesNext
<1> QED BY <1>1, <1>2, <1>3, PTL DEF Gauges!Spec

=============================================================================
