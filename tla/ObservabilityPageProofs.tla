----------------------- MODULE ObservabilityPageProofs -----------------------
(***************************************************************************)
(* Proofs about ObservabilityPage, for any number of overlapping loads,    *)
(* visits, events and repetitions, and any size of the snapshots.          *)
(***************************************************************************)
EXTENDS ObservabilityPage, ApiClientProofs, SequenceTheorems, FiniteSetTheorems

(***************************************************************************)
(* Only a mounted page has a feed, rows, calls or frames of its own.       *)
(***************************************************************************)
Unmounted ==
  ~mounted => feed = "none" /\ logs = << >> /\ mine = {} /\ wire = << >>

Distinct(s) == \A i, j \in 1..Len(s) : s[i] = s[j] => i = j

Copies(e, s) == Cardinality({ i \in 1..Len(s) : s[i] = e })

(***************************************************************************)
(* The first frame of e that the feed has still to be sent.                *)
(***************************************************************************)
Due(e) == IF e \in outgoing \ heard THEN 1 ELSE 0

(***************************************************************************)
(* The rows are those the stream has brought since the last load settled,  *)
(* followed by a snapshot that repeats nothing.  Of an event, the rows the *)
(* stream has brought, its frames under way and the one still due are one, *)
(* and one more for each repetition.                                       *)
(***************************************************************************)
Split(streamed, snapshot) ==
  /\ logs = streamed \o snapshot
  /\ Distinct(snapshot)
  /\ \A e \in 1..MaxEvents :
       Copies(e, streamed) + Copies(e, wire) + Due(e) <= 1 + repeats[e]

TwoSources == \E streamed, snapshot \in Seq(Event) : Split(streamed, snapshot)

Inv == TypeOK /\ SocketsFollowPages /\ Unmounted /\ TwoSources

-----------------------------------------------------------------------------
(* Sequences of events.                                                    *)

(***************************************************************************)
(* A snapshot of the first n events is a sequence of them without          *)
(* repetition.                                                             *)
(***************************************************************************)
LEMMA NewestProperties ==
  ASSUME NEW n \in Nat
  PROVE  Newest(n) \in Seq(1..n) /\ Distinct(Newest(n))
<1> DEFINE m == IF n < Limit THEN n ELSE Limit
<1>1. m \in Nat /\ m <= n
  BY ObservabilityAssumption
<1>2. Newest(n) = [i \in 1..m |-> n + 1 - i]
  BY DEF Newest
<1> HIDE DEF m
<1>3. Newest(n) \in [1..m -> 1..n]
  BY <1>1, <1>2
<1>4. Newest(n) \in Seq(1..n) /\ Len(Newest(n)) = m
  BY <1>1, <1>3
<1>5. \A i, j \in 1..m : Newest(n)[i] = Newest(n)[j] => i = j
  BY <1>1, <1>2
<1> QED BY <1>4, <1>5 DEF Distinct

LEMMA CopiesType ==
  ASSUME NEW S, NEW s \in Seq(S), NEW e
  PROVE  /\ IsFiniteSet({ i \in 1..Len(s) : s[i] = e })
         /\ Copies(e, s) \in Nat
         /\ (\A i \in 1..Len(s) : s[i] # e) => Copies(e, s) = 0
         /\ Distinct(s) => Copies(e, s) <= 1
<1> DEFINE R == { i \in 1..Len(s) : s[i] = e }
<1>1. IsFiniteSet(R)
  <2>1. R \in SUBSET (1..Len(s)) /\ Len(s) \in Nat
    BY LenProperties
  <2>2. IsFiniteSet(1..Len(s))
    BY <2>1, FS_Interval
  <2> HIDE DEF R
  <2> QED BY <2>1, <2>2, FS_Subset
<1>2. Cardinality(R) \in Nat
  BY <1>1, FS_CardinalityType
<1>3. (\A i \in 1..Len(s) : s[i] # e) => Cardinality(R) = 0
  BY FS_EmptySet
<1>4. ASSUME Distinct(s) PROVE Cardinality(R) <= 1
  <2>1. \A i, j \in R : i = j
    BY <1>4 DEF Distinct
  <2> HIDE DEF R
  <2>2. CASE R = {}
    BY <2>2, FS_EmptySet
  <2>3. CASE R # {}
    <3>1. PICK i \in R : TRUE
      BY <2>3
    <3>2. R = {i}
      BY <2>1, <3>1
    <3>3. Cardinality({i}) = 1
      BY FS_Singleton
    <3> QED BY <3>2, <3>3
  <2> QED BY <2>2, <2>3
<1> QED BY <1>1, <1>2, <1>3, <1>4 DEF Copies

(***************************************************************************)
(* What two sequences have of an event, their concatenation has together.  *)
(***************************************************************************)
LEMMA CopiesConcat ==
  ASSUME NEW S, NEW s \in Seq(S), NEW t \in Seq(S), NEW e
  PROVE  Copies(e, s \o t) = Copies(e, s) + Copies(e, t)
<1> DEFINE n == Len(s)
           A == { i \in 1..n : s[i] = e }
           B == { i \in 1..Len(t) : t[i] = e }
           M == { i \in n + 1..n + Len(t) : t[i - n] = e }
           R == { i \in 1..Len(s \o t) : (s \o t)[i] = e }
<1>1. /\ n \in Nat /\ Len(t) \in Nat
      /\ Len(s \o t) = n + Len(t)
      /\ \A i \in 1..n + Len(t) : (s \o t)[i] = IF i <= n THEN s[i] ELSE t[i - n]
  BY ConcatProperties, LenProperties
<1>2. IsFiniteSet(A) /\ IsFiniteSet(B)
  BY CopiesType
<1>3. R = A \cup M /\ A \cap M = {}
  BY <1>1
<1>4. IsFiniteSet(M) /\ Cardinality(M) = Cardinality(B)
  <2> DEFINE f == [i \in B |-> i + n]
  <2>1. \A i \in B : i + n \in M /\ (i + n) - n = i
    BY <1>1
  <2>2. \A j \in M : j - n \in B /\ (j - n) + n = j
    BY <1>1
  <2> HIDE DEF B, M
  <2>3. f \in [B -> M]
    BY <2>1
  <2>4. \A i, j \in B : f[i] = f[j] => i = j
    BY <2>1
  <2>5. \A j \in M : \E i \in B : f[i] = j
    BY <2>2
  <2>6. ExistsBijection(B, M)
    BY <2>3, <2>4, <2>5
       DEF ExistsBijection, Bijection, Injection, Surjection, IsInjective
  <2> QED BY <1>2, <2>6, FS_Bijection
<1> HIDE DEF A, B, M, R
<1>5. /\ IsFiniteSet(A \cap M) /\ Cardinality(A \cap M) = 0
      /\ Cardinality(A) \in Nat /\ Cardinality(M) \in Nat
  BY <1>2, <1>3, <1>4, FS_EmptySet, FS_CardinalityType
<1>6. Cardinality(A \cup M) = Cardinality(A) + Cardinality(M)
  <2>1. Cardinality(A \cup M)
          = Cardinality(A) + Cardinality(M) - Cardinality(A \cap M)
    BY <1>2, <1>4, FS_Union
  <2> QED BY <1>5, <2>1
<1> QED BY <1>3, <1>4, <1>6 DEF Copies, A, B, R

LEMMA CopiesOne ==
  ASSUME NEW S, NEW x \in S, NEW e
  PROVE  /\ << x >> \in Seq(S)
         /\ Copies(e, << x >>) = IF e = x THEN 1 ELSE 0
<1>1. << x >> \in Seq(S) /\ Len(<< x >>) = 1 /\ << x >>[1] = x
  OBVIOUS
<1>2. CASE e = x
  <2>1. { i \in 1..Len(<< x >>) : << x >>[i] = e } = {1}
    BY <1>1, <1>2
  <2>2. Cardinality({1}) = 1
    BY FS_Singleton
  <2> QED BY <1>1, <1>2, <2>1, <2>2 DEF Copies
<1>3. CASE e # x
  <2>1. \A i \in 1..Len(<< x >>) : << x >>[i] # e
    BY <1>1, <1>3
  <2>2. Copies(e, << x >>) = 0
    BY <1>1, <2>1, CopiesType
  <2> QED BY <1>1, <1>3, <2>2
<1> QED BY <1>2, <1>3

(***************************************************************************)
(* A frame that is sent, and the frame that is handled next.               *)
(***************************************************************************)
LEMMA CopiesAppend ==
  ASSUME NEW S, NEW s \in Seq(S), NEW x \in S, NEW e
  PROVE  /\ Append(s, x) \in Seq(S)
         /\ Copies(e, Append(s, x)) = Copies(e, s) + IF e = x THEN 1 ELSE 0
<1>1. Append(s, x) = s \o << x >>
  BY AppendIsConcat
<1>2. /\ << x >> \in Seq(S) /\ Append(s, x) \in Seq(S)
      /\ Copies(e, << x >>) = IF e = x THEN 1 ELSE 0
  BY CopiesOne, AppendProperties
<1>3. Copies(e, s \o << x >>) = Copies(e, s) + Copies(e, << x >>)
  BY <1>2, CopiesConcat
<1> QED BY <1>1, <1>2, <1>3

LEMMA CopiesHead ==
  ASSUME NEW S, NEW s \in Seq(S), s # << >>, NEW e
  PROVE  /\ Head(s) \in S /\ Tail(s) \in Seq(S)
         /\ Copies(e, s) = Copies(e, << Head(s) >>) + Copies(e, Tail(s))
<1>1. /\ Head(s) \in S /\ Tail(s) \in Seq(S) /\ << Head(s) >> \in Seq(S)
  BY HeadTailProperties, CopiesOne
<1>2. s = << Head(s) >> \o Tail(s)
  <2> DEFINE h == << Head(s) >>
             u == Tail(s)
             v == h \o u
  <2>1. /\ Len(s) \in Nat /\ Len(s) >= 1 /\ Len(u) = Len(s) - 1
        /\ s[1] = Head(s) /\ \A i \in 1..Len(u) : u[i] = s[i + 1]
    BY HeadTailProperties, LenProperties, EmptySeq
  <2>2. h \in Seq(S) /\ u \in Seq(S) /\ Len(h) = 1 /\ h[1] = Head(s)
    BY <1>1
  <2> HIDE DEF h, u
  <2>3. /\ v \in Seq(S) /\ Len(v) = Len(s)
        /\ \A i \in 1..Len(s) : v[i] = IF i <= 1 THEN h[i] ELSE u[i - 1]
    <3>1. /\ v \in Seq(S) /\ Len(v) = Len(h) + Len(u)
          /\ \A i \in 1..Len(h) + Len(u) :
               v[i] = IF i <= Len(h) THEN h[i] ELSE u[i - Len(h)]
      BY <2>2, ConcatProperties
    <3>2. Len(h) = 1 /\ Len(h) + Len(u) = Len(s)
      BY <2>1, <2>2
    <3> QED BY <3>1, <3>2
  <2>4. \A i \in 1..Len(s) : s[i] = v[i]
    <3>1. ASSUME NEW i \in 1..Len(s), i > 1 PROVE s[i] = u[i - 1]
      <4>1. i - 1 \in 1..Len(u) /\ (i - 1) + 1 = i
        BY <2>1, <3>1
      <4> QED BY <2>1, <4>1
    <3> QED BY <2>1, <2>2, <2>3, <3>1
  <2> HIDE DEF v
  <2>5. s = v
    BY <2>3, <2>4, SeqEqual
  <2> QED BY <2>5 DEF v, h, u
<1> QED BY <1>1, <1>2, CopiesConcat

-----------------------------------------------------------------------------
(* Types.                                                                  *)

LogsQuery == [kind : {"logs"}]

(***************************************************************************)
(* Events stay events as more are recorded.                                *)
(***************************************************************************)
LEMMA EventsGrow ==
  ASSUME TypeOK, recorded' \in Nat, recorded <= recorded'
  PROVE  /\ Event \subseteq Event' /\ Seq(Event) \subseteq Seq(Event')
         /\ CallState(LogsQuery, Event) \subseteq CallState(LogsQuery, Event')
<1>1. Event \subseteq Event'
  BY ObservabilityAssumption DEF TypeOK, Event
<1>2. CallState(LogsQuery, Event) \subseteq CallState(LogsQuery, Event')
  BY <1>1 DEF CallState
<1> QED BY <1>1, <1>2, SeqMonotonic

LEMMA TypeInit == Init => TypeOK
<1> SUFFICES ASSUME Init PROVE TypeOK
  OBVIOUS
<1>1. fetch \in [Request -> CallState([kind : {"logs"}], Event)]
  BY DEF Init, CallState
<1>2. wire \in Seq(Event) /\ logs \in Seq(Event)
  BY DEF Init
<1>3. ws \in [Socket -> {"connecting", "open", "closed"}]
  BY DEF Init
<1>4. repeats \in [1..MaxEvents -> 0..MaxRepeats] /\ recorded \in 1..MaxEvents
  BY ObservabilityAssumption DEF Init, Unsent
<1> QED BY <1>1, <1>2, <1>3, <1>4 DEF Init, TypeOK, Event, navItems

(***************************************************************************)
(* The calls of the mounted page are in flight.                            *)
(***************************************************************************)
LEMMA CallsMove ==
  ASSUME TypeOK, NEW r \in Request, UNCHANGED recorded
  PROVE  /\ Send(r, [kind |-> "logs"]) =>
              /\ fetch' \in [Request -> CallState(LogsQuery, Event')]
              /\ InFlight' = InFlight \cup {r}
         /\ (\E b \in Event : Answer(r, b)) \/ Throw(r) =>
              /\ fetch' \in [Request -> CallState(LogsQuery, Event')]
              /\ InFlight' = InFlight
         /\ Return(r) =>
              /\ fetch' \in [Request -> CallState(LogsQuery, Event')]
              /\ InFlight' = InFlight \ {r}
<1>1. fetch \in [Request -> CallState(LogsQuery, Event)] /\ Event' = Event
  BY DEF TypeOK, LogsQuery, Event
<1>2. ASSUME NEW x \in Request, fetch' \in [Request -> CallState(LogsQuery, Event)]
      PROVE  /\ x \in InFlight' <=> fetch'[x].at # "idle"
             /\ x \in InFlight <=> fetch[x].at # "idle"
             /\ fetch'[x] = fetch[x] => (x \in InFlight' <=> x \in InFlight)
  BY <1>1, <1>2, CallCases DEF InFlight
<1>3. InFlight \subseteq Request /\ InFlight' \subseteq Request
  BY DEF InFlight
<1>4. ASSUME Send(r, [kind |-> "logs"])
      PROVE  /\ fetch' \in [Request -> CallState(LogsQuery, Event)]
             /\ InFlight' = InFlight \cup {r}
  <2> DEFINE q == [kind |-> "logs"]
  <2>1. q \in LogsQuery /\ Send(r, q)
    BY <1>4 DEF LogsQuery
  <2> HIDE DEF q
  <2>2. /\ fetch' \in [Request -> CallState(LogsQuery, Event)]
        /\ fetch'[r].at = "sent"
        /\ \A x \in Request \ {r} : fetch'[x] = fetch[x]
    BY <1>1, <2>1, CallSteps, OtherCalls
  <2> QED BY <1>2, <1>3, <2>2
<1>5. ASSUME (\E b \in Event : Answer(r, b)) \/ Throw(r)
      PROVE  /\ fetch' \in [Request -> CallState(LogsQuery, Event)]
             /\ InFlight' = InFlight
  <2>1. /\ fetch' \in [Request -> CallState(LogsQuery, Event)]
        /\ fetch[r].at = "sent" /\ fetch'[r].at \in {"ok", "threw"}
        /\ \A x \in Request \ {r} : fetch'[x] = fetch[x]
    BY <1>1, <1>5, CallSteps, OtherCalls
  <2> QED BY <1>2, <1>3, <2>1
<1>6. ASSUME Return(r)
      PROVE  /\ fetch' \in [Request -> CallState(LogsQuery, Event)]
             /\ InFlight' = InFlight \ {r}
  <2>1. /\ fetch' \in [Request -> CallState(LogsQuery, Event)]
        /\ fetch'[r].at = "idle"
        /\ \A x \in Request \ {r} : fetch'[x] = fetch[x]
    BY <1>1, <1>6, CallSteps, OtherCalls
  <2> QED BY <1>2, <1>3, <2>1
<1> QED BY <1>1, <1>4, <1>5, <1>6

(***************************************************************************)
(* The steps of the server and of the sockets.                             *)
(***************************************************************************)
LEMMA ServerTypes ==
  ASSUME TypeOK
  PROVE  /\ Record => TypeOK'
         /\ \A e \in outgoing : Broadcast(e) \/ BroadcastEnds(e) => TypeOK'
         /\ \A s \in Socket : Handle(s) \/ onclose(s) => TypeOK'
         /\ onmessage => TypeOK'
<1> USE DEF server, sockets, page, history
<1>a. /\ recorded \in Nat /\ wire \in Seq(Event) /\ logs \in Seq(Event)
      /\ heard \subseteq outgoing /\ outgoing \subseteq Event
      /\ Event \subseteq 1..MaxEvents
  BY ObservabilityAssumption DEF TypeOK, Event
<1>b. UNCHANGED << recorded, fetch >> => Event' = Event /\ InFlight' = InFlight
  BY DEF Event, InFlight
<1>1. ASSUME Record PROVE TypeOK'
  <2> DEFINE n == recorded + 1
  <2>1. recorded' \in 1..MaxEvents /\ recorded' = n
    BY <1>1, <1>a, ObservabilityAssumption DEF Record
  <2>2. /\ Event \subseteq Event' /\ Seq(Event) \subseteq Seq(Event')
        /\ CallState(LogsQuery, Event) \subseteq CallState(LogsQuery, Event')
    BY <1>a, <2>1, EventsGrow
  <2>3. n \in Event'
    BY <1>a, <2>1 DEF Event
  <2>4. fetch' \in [Request -> CallState(LogsQuery, Event')] /\ mine' \subseteq InFlight'
    BY <1>1, <1>a, <2>2 DEF Record, TypeOK, LogsQuery, InFlight
  <2> HIDE DEF n
  <2>5. Stream!Record(n) /\ (IF outgoing' = outgoing THEN Misses(n) ELSE UNCHANGED missed)
    BY <1>1 DEF Record, n
  <2>6. wire \in Seq(Event') /\ Append(wire, n) \in Seq(Event')
    BY <1>a, <2>2, <2>3, AppendProperties
  <2>7. wire' \in Seq(Event')
    BY <2>5, <2>6 DEF Stream!Record, Stream!Frame
  <2>8. heard' \subseteq outgoing' /\ outgoing' \subseteq Event'
    BY <1>a, <2>2, <2>3, <2>5 DEF Stream!Record, Stream!Frame
  <2>9. missed' \subseteq Event'
    BY <2>2, <2>3, <2>5 DEF Misses, TypeOK
  <2> QED BY <1>1, <1>a, <2>1, <2>2, <2>4, <2>7, <2>8, <2>9 DEF Record, TypeOK, LogsQuery
<1>2. ASSUME NEW e \in outgoing, Broadcast(e) PROVE TypeOK'
  <2>1. Append(wire, e) \in Seq(Event)
    BY <1>a, AppendProperties
  <2>2. /\ wire' = Append(wire, e) /\ heard' = heard \cup {e} /\ outgoing' = outgoing
        /\ UNCHANGED << recorded, api, attached, ws, page, missed >>
    BY <1>2 DEF Broadcast, Stream!Send, Stream!Repeat, Stream!Frame
  <2>3. repeats' \in [1..MaxEvents -> 0..MaxRepeats]
    <3>1. CASE repeats' = repeats
      BY <3>1 DEF TypeOK
    <3>2. CASE /\ repeats[e] < MaxRepeats
               /\ repeats' = [repeats EXCEPT ![e] = repeats[e] + 1]
      <4>1. repeats[e] + 1 \in 0..MaxRepeats
        BY <1>a, <3>2, ObservabilityAssumption DEF TypeOK
      <4> QED BY <3>2, <4>1 DEF TypeOK
    <3> QED BY <1>2, <3>1, <3>2 DEF Broadcast
  <2> QED BY <1>a, <1>b, <2>1, <2>2, <2>3 DEF TypeOK
<1>3. ASSUME NEW e \in outgoing, BroadcastEnds(e) PROVE TypeOK'
  <2>1. /\ outgoing' = outgoing \ {e} /\ heard' = heard \ {e} /\ UNCHANGED wire
        /\ UNCHANGED << recorded, api, ws, page, repeats >>
    BY <1>3 DEF BroadcastEnds, Stream!End
  <2>2. attached' \subseteq FeedSocket /\ missed' \subseteq Event
    <3>1. attached' \subseteq attached /\ missed' \subseteq missed \cup {e}
      BY <1>3 DEF BroadcastEnds, Misses
    <3> QED BY <1>a, <3>1 DEF TypeOK
  <2> QED BY <1>a, <1>b, <2>1, <2>2 DEF TypeOK
<1>4. ASSUME NEW s \in Socket, onopen(s) \/ Attach(s) \/ Detach(s) PROVE TypeOK'
  <2>1. ws' \in [Socket -> {"connecting", "open", "closed"}]
    BY <1>4 DEF onopen, Attach, Detach, TypeOK
  <2>2. attached' \subseteq FeedSocket
    BY <1>4 DEF onopen, Attach, Detach, TypeOK
  <2> QED BY <1>4, <1>b, <2>1, <2>2 DEF onopen, Attach, Detach, TypeOK
<1>5. ASSUME NEW s \in Socket, onclose(s) PROVE TypeOK'
  <2>1. ws' \in [Socket -> {"connecting", "open", "closed"}]
    BY <1>5 DEF onclose, TypeOK
  <2>2. wire' \in Seq(Event)
    BY <1>5, <1>a, EmptySeq DEF onclose
  <2> QED BY <1>5, <1>b, <2>1, <2>2 DEF onclose, TypeOK
<1>6. ASSUME onmessage PROVE TypeOK'
  <2>1. Head(wire) \in Event /\ Tail(wire) \in Seq(Event)
    BY <1>6, <1>a, HeadTailProperties DEF onmessage
  <2>2. << Head(wire) >> \o logs \in Seq(Event)
    BY <1>a, <2>1, ConcatProperties
  <2> QED BY <1>6, <1>b, <2>1, <2>2 DEF onmessage, TypeOK
<1> QED BY <1>1, <1>2, <1>3, <1>4, <1>5, <1>6 DEF Handle

(***************************************************************************)
(* The steps of the page.                                                  *)
(***************************************************************************)
LEMMA PageTypes ==
  ASSUME TypeOK
  PROVE  /\ \A href \in navItems : Leave(href) \/ ElseWhere(href) => TypeOK'
         /\ \A href \in navItems, r \in Request, s \in FeedSocket :
              Enter(href, r, s) => TypeOK'
         /\ \A r \in Request : Refresh(r) \/ Settle(r) => TypeOK'
<1> USE DEF server, sockets, history
<1>a. /\ recorded \in Nat /\ wire \in Seq(Event) /\ FeedSocket \subseteq Socket
  BY ObservabilityAssumption DEF TypeOK, Socket
<1>b. UNCHANGED recorded => Event' = Event
  BY DEF Event
<1>c. UNCHANGED fetch => InFlight' = InFlight
  BY DEF InFlight
<1>1. ASSUME NEW href \in navItems, Leave(href) PROVE TypeOK'
  <2>1. ws' \in [Socket -> {"connecting", "open", "closed"}]
    <3>1. ws' = ws \/ ws' = [ws EXCEPT ![feed] = "closed"]
      BY <1>1 DEF Leave
    <3> QED BY <3>1 DEF TypeOK
  <2>2. logs' \in Seq(Event) /\ wire' \in Seq(Event)
    BY <1>1, EmptySeq DEF Leave, Unmount
  <2>3. repeats' \in [1..MaxEvents -> 0..MaxRepeats]
    BY <1>1, ObservabilityAssumption DEF Leave, Unmount, Unsent
  <2> QED BY <1>1, <1>b, <1>c, <2>1, <2>2, <2>3 DEF Leave, Unmount, TypeOK
<1>2. ASSUME NEW href \in navItems, ElseWhere(href) PROVE TypeOK'
  BY <1>2, <1>a, <1>b, <1>c DEF ElseWhere, TypeOK
<1>3. ASSUME NEW href \in navItems, NEW r \in Request, NEW s \in FeedSocket,
             Enter(href, r, s)
      PROVE  TypeOK'
  <2>1. wire' \in Seq(Event) /\ UNCHANGED recorded
    BY <1>3, <1>a DEF Enter
  <2>2. ws' \in [Socket -> {"connecting", "open", "closed"}]
    BY <1>3, <1>a DEF Enter, TypeOK
  <2>3. /\ fetch' \in [Request -> CallState(LogsQuery, Event')]
        /\ mine' \subseteq InFlight'
    BY <1>3, <2>1, CallsMove DEF Enter
  <2>4. feed' \in FeedSocket \cup {"none"}
    BY <1>3 DEF Enter
  <2> QED BY <1>3, <1>a, <1>b, <2>1, <2>2, <2>3, <2>4 DEF Enter, TypeOK, LogsQuery
<1>4. ASSUME NEW r \in Request, Refresh(r) PROVE TypeOK'
  <2>1. /\ fetch' \in [Request -> CallState(LogsQuery, Event')]
        /\ mine' \subseteq InFlight'
    BY <1>4, <1>a, CallsMove DEF Refresh, TypeOK
  <2> QED BY <1>4, <1>a, <1>b, <2>1 DEF Refresh, TypeOK, LogsQuery
<1>5. ASSUME NEW r \in Request, ServeLogs(r) \/ Unreachable(r) PROVE TypeOK'
  <2>1. recorded \in Event
    BY <1>a DEF TypeOK, Event
  <2>2. /\ fetch' \in [Request -> CallState(LogsQuery, Event')]
        /\ mine' \subseteq InFlight'
    BY <1>5, <1>a, <2>1, CallsMove DEF ServeLogs, Unreachable, TypeOK
  <2> QED BY <1>5, <1>a, <1>b, <2>2 DEF ServeLogs, Unreachable, TypeOK, LogsQuery
<1>6. ASSUME NEW r \in Request, LoadSettles(r) PROVE TypeOK'
  <2>1. /\ fetch' \in [Request -> CallState(LogsQuery, Event')]
        /\ mine' \subseteq InFlight'
    BY <1>6, <1>a, CallsMove DEF LoadSettles, TypeOK
  <2>2. fetch[r].at = "ok" => fetch[r].body \in Event
    <3>1. fetch[r] \in CallState([kind : {"logs"}], Event)
      BY <1>a DEF TypeOK
    <3> QED BY <3>1, CallCases
  <2>3. logs' \in Seq(Event)
    <3>1. ASSUME NEW n \in Event PROVE Newest(n) \in Seq(Event)
      <4>1. n \in Nat /\ 1..n \subseteq Event
        BY <1>a DEF Event
      <4> QED BY <4>1, NewestProperties, SeqMonotonic
    <3>2. logs \in Seq(Event) /\ << >> \in Seq(Event)
      BY <1>a DEF TypeOK
    <3> QED BY <1>6, <2>2, <3>1, <3>2 DEF LoadSettles
  <2> QED BY <1>6, <1>a, <1>b, <2>1, <2>3 DEF LoadSettles, TypeOK, LogsQuery
<1> QED BY <1>1, <1>2, <1>3, <1>4, <1>5, <1>6 DEF Settle

LEMMA TypeNext == TypeOK /\ [Next]_vars => TypeOK'
<1> SUFFICES ASSUME TypeOK, [Next]_vars PROVE TypeOK'
  OBVIOUS
<1>1. ApiChanges \/ UNCHANGED vars => TypeOK'
  BY DEF ApiChanges, vars, server, sockets, page, history, TypeOK, Event, InFlight
<1>2. Visited \subseteq navItems
  BY ObservabilityAssumption
<1> QED BY <1>1, <1>2, ServerTypes, PageTypes DEF Next, Navigate

-----------------------------------------------------------------------------
(* The sockets and the page they belong to.                                *)

LEMMA PagesNext ==
  TypeOK /\ SocketsFollowPages /\ Unmounted /\ [Next]_vars
    => SocketsFollowPages' /\ Unmounted'
<1> SUFFICES ASSUME TypeOK, SocketsFollowPages, Unmounted, [Next]_vars
             PROVE  SocketsFollowPages' /\ Unmounted'
  OBVIOUS
<1> USE DEF server, sockets, page, history, mounted, isActive
<1>a. /\ ws \in [Socket -> {"connecting", "open", "closed"}]
      /\ FeedSocket \subseteq Socket /\ "none" \notin FeedSocket
      /\ feed \in FeedSocket \cup {"none"}
  BY ObservabilityAssumption DEF TypeOK, Socket
<1>1. ASSUME UNCHANGED << path, feed >>, logs' = logs \/ mounted,
             mine' \subseteq mine \/ mounted, wire' \in {wire, << >>} \/ mounted,
             \A s \in FeedSocket : ws'[s] # "closed" => ws[s] # "closed"
      PROVE  SocketsFollowPages' /\ Unmounted'
  BY <1>1 DEF SocketsFollowPages, Unmounted
<1>2. ASSUME UNCHANGED << ws, page >>, wire' = wire \/ mounted
      PROVE  SocketsFollowPages' /\ Unmounted'
  BY <1>1, <1>2
<1>3. ASSUME NEW s \in Socket, Handle(s) \/ onclose(s)
      PROVE  SocketsFollowPages' /\ Unmounted'
  <2>1. CASE onopen(s)
    BY <2>1, <1>a, <1>1 DEF onopen
  <2>2. CASE onclose(s)
    BY <2>2, <1>a, <1>1 DEF onclose
  <2>3. CASE Attach(s) \/ Detach(s)
    BY <2>3, <1>2 DEF Attach, Detach
  <2> QED BY <1>3, <2>1, <2>2, <2>3 DEF Handle
<1>4. ASSUME NEW href, Leave(href) PROVE SocketsFollowPages' /\ Unmounted'
  <2>1. \A s \in FeedSocket : ws'[s] = "closed"
    <3>1. \A s \in FeedSocket : s # feed => ws[s] = "closed"
      BY DEF SocketsFollowPages
    <3>2. CASE feed = "none"
      BY <1>4, <1>a, <3>1, <3>2 DEF Leave
    <3>3. CASE feed # "none"
      <4>1. ws' = [ws EXCEPT ![feed] = "closed"]
        BY <1>4, <3>3 DEF Leave
      <4> QED BY <1>a, <3>1, <4>1
    <3> QED BY <3>2, <3>3
  <2> QED BY <1>4, <2>1 DEF Leave, Unmount, SocketsFollowPages, Unmounted
<1>5. ASSUME NEW href, ElseWhere(href) PROVE SocketsFollowPages' /\ Unmounted'
  BY <1>5 DEF ElseWhere, SocketsFollowPages, Unmounted
<1>6. ASSUME NEW href, NEW r \in Request, NEW s \in FeedSocket, Enter(href, r, s)
      PROVE  SocketsFollowPages' /\ Unmounted'
  <2>1. mounted' /\ \A x \in FeedSocket : ws[x] = "closed"
    BY <1>6 DEF Enter, SocketsFollowPages
  <2>2. CASE ws' = [ws EXCEPT ![s] = "connecting"] /\ feed' = s
    BY <1>a, <2>1, <2>2 DEF SocketsFollowPages, Unmounted
  <2>3. CASE feed' = "none" /\ UNCHANGED ws
    BY <2>1, <2>3 DEF SocketsFollowPages, Unmounted
  <2> QED BY <1>6, <2>2, <2>3 DEF Enter
<1>7. ASSUME NEW r \in Request, Refresh(r) \/ Settle(r)
      PROVE  SocketsFollowPages' /\ Unmounted'
  <2>1. CASE Refresh(r)
    BY <2>1, <1>1 DEF Refresh
  <2>2. CASE ServeLogs(r) \/ Unreachable(r)
    BY <2>2, <1>1 DEF ServeLogs, Unreachable
  <2>3. CASE LoadSettles(r)
    <3>1. r \in mine => mounted
      BY DEF Unmounted
    <3> QED BY <2>3, <3>1, <1>1 DEF LoadSettles
  <2> QED BY <1>7, <2>1, <2>2, <2>3 DEF Settle
<1>8. ASSUME \/ Record \/ \E e \in outgoing : Broadcast(e) \/ BroadcastEnds(e)
      PROVE  SocketsFollowPages' /\ Unmounted'
  <2>1. Receives(feed) => mounted
    BY DEF Receives, Unmounted
  <2>2. wire' = wire \/ Receives(feed)
    BY <1>8 DEF Record, Broadcast, BroadcastEnds, Stream!End
  <2>3. UNCHANGED << ws, page >>
    BY <1>8 DEF Record, Broadcast, BroadcastEnds
  <2> QED BY <1>2, <2>1, <2>2, <2>3
<1>9. CASE onmessage
  <2>1. mounted
    BY <1>9 DEF onmessage, Unmounted
  <2> QED BY <1>1, <1>9, <2>1 DEF onmessage
<1>10. ASSUME ApiChanges \/ UNCHANGED vars PROVE SocketsFollowPages' /\ Unmounted'
  BY <1>2, <1>10 DEF ApiChanges, vars
<1> QED BY <1>3, <1>4, <1>5, <1>6, <1>7, <1>8, <1>9, <1>10 DEF Next, Navigate

-----------------------------------------------------------------------------
(* Frames and rows.                                                        *)

(***************************************************************************)
(* The numbers that the rows and the frames add up from.                   *)
(***************************************************************************)
LEMMA CountTypes ==
  ASSUME TypeOK, NEW s \in Seq(Event), NEW e \in 1..MaxEvents
  PROVE  /\ Copies(e, s) \in Nat /\ Copies(e, wire) \in Nat /\ repeats[e] \in Nat
         /\ Due(e) \in {0, 1} /\ Copies(e, << >>) = 0
<1>1. wire \in Seq(Event) /\ << >> \in Seq(Event) /\ repeats[e] \in Nat
  BY EmptySeq, ObservabilityAssumption DEF TypeOK
<1>2. \A i \in 1..Len(<< >>) : << >>[i] # e
  OBVIOUS
<1> QED BY <1>1, <1>2, CopiesType DEF Due

LEMMA RowsStay ==
  ASSUME NEW streamed \in Seq(Event), NEW snapshot \in Seq(Event),
         Split(streamed, snapshot), logs' = logs, Event \subseteq Event',
         \A e \in 1..MaxEvents :
           Copies(e, streamed) + Copies(e, wire') + Due(e)' <= 1 + repeats'[e]
  PROVE  TwoSources'
<1>1. streamed \in Seq(Event') /\ snapshot \in Seq(Event')
  BY SeqMonotonic
<1>2. /\ logs' = streamed \o snapshot /\ Distinct(snapshot)
      /\ \A e \in 1..MaxEvents :
           Copies(e, streamed) + Copies(e, wire') + Due(e)' <= 1 + repeats'[e]
  BY DEF Split
<1> QED BY <1>1, <1>2 DEF TwoSources, Split

(***************************************************************************)
(* A step that sends nothing.                                              *)
(***************************************************************************)
LEMMA RowsKept ==
  ASSUME TypeOK, TwoSources, UNCHANGED << recorded, logs, repeats >>,
         wire' \in {wire, << >>}, outgoing' \ heard' \subseteq outgoing \ heard
  PROVE  TwoSources'
<1>1. PICK streamed \in Seq(Event), snapshot \in Seq(Event) : Split(streamed, snapshot)
  BY DEF TwoSources
<1>2. ASSUME NEW e \in 1..MaxEvents
      PROVE  Copies(e, streamed) + Copies(e, wire') + Due(e)' <= 1 + repeats'[e]
  <2>1. Copies(e, streamed) + Copies(e, wire) + Due(e) <= 1 + repeats[e]
    BY <1>1 DEF Split
  <2>2. /\ Copies(e, streamed) \in Nat /\ Copies(e, wire) \in Nat
        /\ repeats[e] \in Nat /\ Due(e) \in {0, 1} /\ Copies(e, << >>) = 0
    BY CountTypes
  <2>3. Copies(e, wire') \in {Copies(e, wire), 0}
    BY <2>2
  <2>4. Due(e)' \in {0, Due(e)}
    BY DEF Due
  <2> QED BY <2>1, <2>2, <2>3, <2>4
<1>3. Event' = Event
  BY DEF Event
<1> QED BY <1>1, <1>2, <1>3, RowsStay

(***************************************************************************)
(* A list that is all snapshot.                                            *)
(***************************************************************************)
LEMMA SnapshotRows ==
  ASSUME TypeOK, logs' \in Seq(Event'), Distinct(logs'),
         \A e \in 1..MaxEvents : Copies(e, wire') + Due(e)' <= 1 + repeats'[e],
         \A e \in 1..MaxEvents : Copies(e, wire') \in Nat
  PROVE  TwoSources'
<1>1. << >> \in Seq(Event') /\ logs' = << >> \o logs'
  BY EmptySeq, ConcatEmptySeq
<1>2. \A e \in 1..MaxEvents : Copies(e, << >>) = 0
  BY <1>1, CountTypes, EmptySeq
<1>3. \A e \in 1..MaxEvents :
        Copies(e, << >>) + Copies(e, wire') + Due(e)' <= 1 + repeats'[e]
  <2> TAKE e \in 1..MaxEvents
  <2>1. Due(e)' \in {0, 1}
    BY DEF Due
  <2> QED BY <1>2, <2>1
<1> QED BY <1>1, <1>3 DEF TwoSources, Split

LEMMA RowsNext ==
  TypeOK /\ TypeOK' /\ TwoSources /\ [Next]_vars => TwoSources'
<1> SUFFICES ASSUME TypeOK, TypeOK', TwoSources, [Next]_vars PROVE TwoSources'
  OBVIOUS
<1> USE DEF server, sockets, page, history
<1>a. /\ recorded \in Nat /\ wire \in Seq(Event) /\ logs \in Seq(Event)
      /\ heard \subseteq outgoing /\ outgoing \subseteq Event
      /\ Event \subseteq 1..MaxEvents
  BY ObservabilityAssumption DEF TypeOK, Event
<1>b. PICK streamed \in Seq(Event), snapshot \in Seq(Event) : Split(streamed, snapshot)
  BY DEF TwoSources
<1>c. ASSUME NEW e \in 1..MaxEvents
      PROVE  /\ Copies(e, streamed) + Copies(e, wire) + Due(e) <= 1 + repeats[e]
             /\ Copies(e, streamed) \in Nat /\ Copies(e, wire) \in Nat
             /\ repeats[e] \in Nat /\ Due(e) \in {0, 1}
  BY <1>b, CountTypes DEF Split
<1>1. ASSUME Record PROVE TwoSources'
  <2> DEFINE n == recorded + 1
  <2>1. n \notin Event /\ Event \subseteq Event' /\ UNCHANGED << logs, repeats >>
    BY <1>1, <1>a DEF Record, Event
  <2>2. Stream!Record(n)
    BY <1>1 DEF Record
  <2> HIDE DEF n
  <2>3. n \in Event' /\ Event' = Event \cup {n}
    BY <2>2 DEF Stream!Record
  <2>4. ASSUME NEW e \in 1..MaxEvents
        PROVE  Copies(e, streamed) + Copies(e, wire') + Due(e)' <= 1 + repeats'[e]
    <3>1. CASE wire' = wire /\ heard' = heard /\ outgoing' = outgoing
      BY <1>c, <2>1, <3>1 DEF Due
    <3>2. CASE wire' = wire /\ heard' = heard /\ outgoing' = outgoing \cup {n} /\ e # n
      <4>1. Due(e)' = Due(e)
        BY <3>2 DEF Due
      <4> QED BY <1>c, <2>1, <3>2, <4>1
    <3>3. CASE /\ wire' = Append(wire, n) /\ heard' = heard \cup {n}
               /\ outgoing' = outgoing \cup {n} /\ e # n
      <4>1. Due(e)' = Due(e)
        BY <3>3 DEF Due
      <4>2. Copies(e, wire') = Copies(e, wire) + 0
        <5>1. wire \in Seq(Event')
          BY <1>a, <2>1, SeqMonotonic
        <5> QED BY <2>3, <3>3, <5>1, CopiesAppend
      <4> QED BY <1>c, <2>1, <4>1, <4>2
    <3>4. CASE e = n
      <4>1. Copies(e, streamed) = 0 /\ Copies(e, wire) = 0
        <5>1. \A s \in Seq(Event) : \A i \in 1..Len(s) : s[i] # e
          BY <2>1, <3>4, ElementOfSeq
        <5> QED BY <1>a, <5>1, CopiesType
      <4>2. CASE wire' = wire
        <5>1. Due(e)' \in {0, 1}
          BY DEF Due
        <5>2. repeats'[e] = repeats[e] /\ repeats[e] \in Nat
          BY <1>c, <2>1
        <5>3. Copies(e, wire') = 0
          BY <4>1, <4>2
        <5> QED BY <4>1, <5>1, <5>2, <5>3
      <4>3. CASE wire' = Append(wire, n) /\ heard' = heard \cup {n}
        <5>1. Due(e)' = 0
          BY <3>4, <4>3 DEF Due
        <5>2. wire \in Seq(Event')
          BY <1>a, <2>1, SeqMonotonic
        <5>3. Copies(e, wire') = Copies(e, wire) + 1
          BY <2>3, <3>4, <4>3, <5>2, CopiesAppend
        <5>4. repeats'[e] = repeats[e] /\ repeats[e] \in Nat
          BY <1>c, <2>1
        <5> QED BY <4>1, <5>1, <5>3, <5>4
      <4> QED BY <2>2, <4>2, <4>3 DEF Stream!Record, Stream!Frame
    <3> QED BY <2>2, <3>1, <3>2, <3>3, <3>4 DEF Stream!Record, Stream!Frame
  <2> QED BY <1>b, <2>1, <2>4, RowsStay
<1>2. ASSUME NEW x \in outgoing, Broadcast(x) PROVE TwoSources'
  <2>1. /\ wire' = Append(wire, x) /\ heard' = heard \cup {x} /\ outgoing' = outgoing
        /\ UNCHANGED << recorded, logs >> /\ Event' = Event
    BY <1>2 DEF Broadcast, Stream!Send, Stream!Repeat, Stream!Frame, Event
  <2>2. ASSUME NEW e \in 1..MaxEvents
        PROVE  Copies(e, streamed) + Copies(e, wire') + Due(e)' <= 1 + repeats'[e]
    <3>1. Copies(e, wire') = Copies(e, wire) + IF e = x THEN 1 ELSE 0
      BY <1>a, <2>1, CopiesAppend
    <3>2. CASE e # x
      <4>1. Due(e)' = Due(e) /\ repeats'[e] = repeats[e]
        BY <1>2, <1>a, <2>1, <3>2 DEF Broadcast, Due, TypeOK
      <4> QED BY <1>c, <3>1, <3>2, <4>1
    <3>3. CASE e = x /\ x \notin heard /\ repeats' = repeats
      <4>1. Due(e) = 1 /\ Due(e)' = 0
        BY <2>1, <3>3 DEF Due
      <4> QED BY <1>c, <3>1, <3>3, <4>1
    <3>4. CASE e = x /\ x \in heard /\ repeats' = [repeats EXCEPT ![x] = repeats[x] + 1]
      <4>1. Due(e)' = Due(e) /\ repeats'[e] = repeats[e] + 1
        BY <2>1, <3>4 DEF Due, TypeOK
      <4> QED BY <1>c, <3>1, <3>4, <4>1
    <3> QED BY <1>2, <3>2, <3>3, <3>4 DEF Broadcast, Stream!Send, Stream!Repeat
  <2> QED BY <1>b, <2>1, <2>2, RowsStay
<1>3. ASSUME NEW x \in outgoing, BroadcastEnds(x) PROVE TwoSources'
  BY <1>3, RowsKept DEF BroadcastEnds, Stream!End
<1>4. CASE onmessage
  <2> DEFINE h == << Head(wire) >>
  <2>1. /\ wire # << >> /\ wire' = Tail(wire) /\ logs' = h \o logs
        /\ UNCHANGED << recorded, outgoing, heard, repeats >>
    BY <1>4 DEF onmessage
  <2>2. h \in Seq(Event) /\ Tail(wire) \in Seq(Event)
    BY <1>a, <2>1, HeadTailProperties, CopiesOne
  <2>3. \A e : Copies(e, wire) = Copies(e, h) + Copies(e, Tail(wire))
    BY <1>a, <2>1, CopiesHead
  <2> HIDE DEF h
  <2>4. /\ h \o streamed \in Seq(Event)
        /\ \A e : Copies(e, h \o streamed) = Copies(e, h) + Copies(e, streamed)
    BY <2>2, ConcatProperties, CopiesConcat
  <2>5. logs' = (h \o streamed) \o snapshot /\ Distinct(snapshot)
    <3>1. h \o (streamed \o snapshot) = (h \o streamed) \o snapshot
      BY <2>2, ConcatAssociative
    <3> QED BY <1>b, <2>1, <3>1 DEF Split
  <2>6. ASSUME NEW e \in 1..MaxEvents
        PROVE  Copies(e, h \o streamed) + Copies(e, wire') + Due(e)' <= 1 + repeats'[e]
    <3>1. Copies(e, h) \in Nat /\ Copies(e, Tail(wire)) \in Nat
      BY <2>2, CopiesType
    <3>2. Due(e)' = Due(e)
      BY <2>1 DEF Due
    <3> QED BY <1>c, <2>1, <2>3, <2>4, <3>1, <3>2
  <2>7. Event' = Event
    BY <2>1 DEF Event
  <2> QED BY <2>4, <2>5, <2>6, <2>7 DEF TwoSources, Split
<1>5. ASSUME NEW s \in Socket, onclose(s) PROVE TwoSources'
  BY <1>5, RowsKept DEF onclose
<1>6. ASSUME NEW href, Leave(href) PROVE TwoSources'
  <2>1. logs' = << >> /\ wire' = << >> /\ repeats' = Unsent
    BY <1>6 DEF Leave, Unmount
  <2>2. \A e \in 1..MaxEvents :
          Copies(e, << >>) = 0 /\ Due(e)' \in {0, 1} /\ repeats'[e] = 0
    <3>1. \A e : Due(e)' \in {0, 1}
      BY DEF Due
    <3> QED BY <1>a, <2>1, <3>1, CountTypes DEF Unsent
  <2>3. << >> \in Seq(Event') /\ Distinct(<< >>)
    BY EmptySeq DEF Distinct
  <2> QED BY <2>1, <2>2, <2>3, SnapshotRows
<1>7. ASSUME NEW r \in Request, LoadSettles(r) PROVE TwoSources'
  <2>1. CASE logs' = logs
    BY <1>7, <2>1, RowsKept DEF LoadSettles
  <2>2. Distinct(logs') => TwoSources'
    <3>1. logs' \in Seq(Event') /\ UNCHANGED << wire, repeats, outgoing, heard >>
      BY <1>7 DEF LoadSettles, TypeOK
    <3>2. \A e \in 1..MaxEvents : Due(e)' = Due(e)
      BY <3>1 DEF Due
    <3>3. \A e \in 1..MaxEvents :
            /\ Copies(e, wire') + Due(e)' <= 1 + repeats'[e]
            /\ Copies(e, wire') \in Nat
      BY <1>c, <3>1, <3>2
    <3> QED BY <3>1, <3>3, SnapshotRows
  <2>3. CASE logs' = << >>
    BY <2>2, <2>3 DEF Distinct
  <2>4. CASE fetch[r].at = "ok" /\ logs' = Newest(fetch[r].body)
    <3>1. fetch[r] \in CallState([kind : {"logs"}], Event)
      BY DEF TypeOK
    <3>2. fetch[r].body \in Nat
      <4>1. fetch[r].body \in Event
        BY <2>4, <3>1, CallCases
      <4> QED BY <1>a, <4>1 DEF Event
    <3> QED BY <2>2, <2>4, <3>2, NewestProperties
  <2> QED BY <1>7, <2>1, <2>3, <2>4 DEF LoadSettles
<1>8. ASSUME \/ ApiChanges \/ UNCHANGED vars
             \/ \E href \in Visited : \/ ElseWhere(href)
                                      \/ \E r \in Request, s \in FeedSocket :
                                           Enter(href, r, s)
             \/ \E r \in Request : Refresh(r) \/ ServeLogs(r) \/ Unreachable(r)
             \/ \E s \in Socket : onopen(s) \/ Attach(s) \/ Detach(s)
      PROVE  TwoSources'
  <2>1. UNCHANGED << recorded, logs, repeats, wire, outgoing, heard >>
    BY <1>8
    DEF ApiChanges, onopen, Attach, Detach, ElseWhere, Enter, Refresh, ServeLogs,
        Unreachable, vars
  <2> QED BY <2>1, RowsKept
<1> QED
  BY <1>1, <1>2, <1>3, <1>4, <1>5, <1>6, <1>7, <1>8 DEF Next, Navigate, Handle, Settle

-----------------------------------------------------------------------------
(* The theorems.                                                           *)

LEMMA InvInit == Init => Inv
<1> SUFFICES ASSUME Init PROVE Inv
  OBVIOUS
<1>1. SocketsFollowPages /\ Unmounted
  BY ObservabilityAssumption
  DEF Init, SocketsFollowPages, Unmounted, mounted, isActive, Socket
<1>2. TypeOK
  BY TypeInit
<1>3. TwoSources
  <2>1. << >> \in Seq(Event) /\ logs = << >> \o << >> /\ Distinct(<< >>)
    BY EmptySeq, ConcatEmptySeq DEF Init, Distinct
  <2>2. \A e \in 1..MaxEvents :
          Copies(e, << >>) + Copies(e, wire) + Due(e) <= 1 + repeats[e]
    <3> TAKE e \in 1..MaxEvents
    <3>1. /\ Copies(e, << >>) = 0 /\ Due(e) \in {0, 1} /\ repeats[e] \in Nat
          /\ wire = << >>
      BY <1>2, <2>1, CountTypes DEF Init
    <3> QED BY <3>1
  <2> QED BY <2>1, <2>2 DEF TwoSources, Split
<1> QED BY <1>1, <1>2, <1>3 DEF Inv

LEMMA InvNext == Inv /\ [Next]_vars => Inv'
BY TypeNext, PagesNext, RowsNext DEF Inv

(***************************************************************************)
(* The page's types, and no socket of the feed open without its page, for  *)
(* any sequence of visits.                                                 *)
(***************************************************************************)
THEOREM SocketsClose == Spec => []FeedInv
<1>1. Inv => FeedInv
  BY DEF Inv, FeedInv
<1> QED BY <1>1, InvInit, InvNext, PTL DEF Spec

(***************************************************************************)
(* An event has no more rows than one of the snapshot, one of the stream   *)
(* and one per repetition, however loads and frames interleave.            *)
(***************************************************************************)
THEOREM NoThirdRow == Spec => []AtMostTwice
<1>1. Inv => AtMostTwice
  <2> SUFFICES ASSUME Inv, NEW e \in Shown
               PROVE  Cardinality({ i \in DOMAIN logs : logs[i] = e }) <= 2 + repeats[e]
    BY DEF AtMostTwice
  <2> TypeOK
    BY DEF Inv
  <2>1. PICK streamed \in Seq(Event), snapshot \in Seq(Event) : Split(streamed, snapshot)
    BY DEF Inv, TwoSources
  <2>2. logs \in Seq(Event) /\ DOMAIN logs = 1..Len(logs) /\ Event \subseteq 1..MaxEvents
    BY LenProperties, ObservabilityAssumption DEF TypeOK, Event
  <2>3. e \in 1..MaxEvents
    BY <2>2, ElementOfSeq DEF Shown
  <2>4. /\ Copies(e, streamed) + Copies(e, wire) + Due(e) <= 1 + repeats[e]
        /\ Copies(e, snapshot) <= 1
        /\ Copies(e, logs) = Copies(e, streamed) + Copies(e, snapshot)
    BY <2>1, <2>3, CopiesType, CopiesConcat DEF Split
  <2>5. /\ Copies(e, streamed) \in Nat /\ Copies(e, snapshot) \in Nat
        /\ Copies(e, wire) \in Nat /\ repeats[e] \in Nat /\ Due(e) \in {0, 1}
    BY <2>3, CountTypes
  <2>6. Copies(e, logs) <= 2 + repeats[e]
    BY <2>4, <2>5
  <2> QED BY <2>2, <2>6 DEF Copies
<1> QED BY <1>1, InvInit, InvNext, PTL DEF Spec

=============================================================================
