------------------------- MODULE EventWebhookProofs -------------------------
(***************************************************************************)
(* Proofs about event-driven drift detection, for every set of resources,  *)
(* every number of concurrent requests and every size of the channel:      *)
(* types, and where an event may be lost.                                  *)
(***************************************************************************)
EXTENDS EventWebhook, TLAPS

AllNames == OAuth2 \cup SAMLs

LEMMA AppTypes ==
  /\ \A a \in Apps : a.kind \in Kinds /\ a.name \in AllNames
                     /\ a = [kind |-> a.kind, name |-> a.name]
  /\ Idle \in Handler
BY DEF Apps, AllNames, Idle, Handler, Kinds

\* No more notifications are on their way than there were changes.
PostsBounded == posts <= spent.drifts

Typed == TypeOK /\ PostsBounded

-----------------------------------------------------------------------------
(* Types *)

LEMMA DriftTypes ==
  ASSUME Typed, NEW a \in Apps, Drift(a)
  PROVE  Typed'
BY Sizes DEF Typed, TypeOK, PostsBounded, Drift

LEMMA ListTypes ==
  ASSUME Typed, NEW r \in Requests, ListOAuth2(r) \/ ListSAML(r)
  PROVE  Typed'
<1>. DEFINE listed(kind) == [pc |-> kind, todo |-> {a \in Apps : a.kind = kind}]
<1>1. ASSUME NEW list, NEW kind \in Kinds, NEW next \in {"listSAML", "answer"},
             ListApps(r, list, kind, next)
      PROVE  Typed'
  <2>1. handler' \in [Requests -> Handler]
    <3>1. listed(kind) \in Handler
      BY DEF Handler, Kinds
    <3>2. CASE handler' = [handler EXCEPT ![r] = listed(kind)]
      BY <3>1, <3>2 DEF Typed, TypeOK
    <3>3. CASE handler' = [handler EXCEPT ![r].pc = next]
      BY <3>3 DEF Typed, TypeOK, Handler
    <3>. QED  BY <1>1, <3>2, <3>3 DEF ListApps
  <2>2. missed' \subseteq Apps
    BY <1>1 DEF ListApps, Typed, TypeOK
  <2>3. spent' \in [drifts : 0 .. MaxDrifts, errors : 0 .. MaxListErrors]
        /\ spent'.drifts = spent.drifts
    BY <1>1, Sizes DEF ListApps, Typed, TypeOK
  <2>. QED  BY <1>1, <2>1, <2>2, <2>3 DEF ListApps, Typed, TypeOK, PostsBounded
<1>. QED  BY <1>1 DEF ListOAuth2, ListSAML, Kinds

LEMMA SendTypes ==
  ASSUME Typed, NEW r \in Requests, SendOne(r)
  PROVE  Typed'
<1>1. PICK a \in handler[r].todo :
        TrySend(a) /\ handler' = [handler EXCEPT ![r].todo = @ \ {a}]
  BY DEF SendOne
<1>2. a \in Apps /\ handler' \in [Requests -> Handler]
  BY <1>1 DEF Typed, TypeOK, Handler
<1>3. eventChan' \in Seq(Apps) /\ Len(eventChan') <= ChannelSize
  <2>1. eventChan \in Seq(Apps) /\ Len(eventChan) <= ChannelSize
    BY DEF Typed, TypeOK
  <2>2. Append(eventChan, a) \in Seq(Apps) /\ Len(Append(eventChan, a)) = Len(eventChan) + 1
    BY <1>2, <2>1
  <2>3. ChannelSize \in Nat /\ Len(eventChan) \in Nat
    BY <2>1, Sizes
  <2>. QED  BY <1>1, <2>1, <2>2, <2>3 DEF TrySend
<1>4. missed' \subseteq Apps
  BY <1>1, <1>2 DEF TrySend, Typed, TypeOK
<1>. QED  BY <1>2, <1>3, <1>4 DEF SendOne, Typed, TypeOK, PostsBounded

LEMMA ServeTypes ==
  ASSUME Typed, NEW r \in Requests, Serve(r)
  PROVE  Typed'
<1>1. CASE ServeHTTP(r)
  <2>1. handler' \in [Requests -> Handler]
    BY <1>1 DEF ServeHTTP, Typed, TypeOK, Handler
  <2>. QED  BY <1>1, <2>1, Sizes DEF ServeHTTP, Typed, TypeOK, PostsBounded
<1>2. CASE SentAll(r)
  <2>1. handler' \in [Requests -> Handler]
    BY <1>2 DEF SentAll, Typed, TypeOK, Handler
  <2>. QED  BY <1>2, <2>1 DEF SentAll, Typed, TypeOK, PostsBounded
<1>3. CASE Answer(r)
  BY <1>3, AppTypes DEF Answer, Typed, TypeOK, PostsBounded
<1>. QED  BY <1>1, <1>2, <1>3, ListTypes, SendTypes DEF Serve

LEMMA ReceiveTypes ==
  ASSUME Typed, NEW kind \in Kinds, Receive(kind)
  PROVE  Typed'
<1>1. Head(eventChan) \in Apps /\ Tail(eventChan) \in Seq(Apps)
      /\ Len(Tail(eventChan)) <= ChannelSize
  BY Sizes DEF Receive, Typed, TypeOK
<1>2. Head(eventChan).name \in AllNames
  BY <1>1, AppTypes
<1>3. queue' \in [Kinds -> SUBSET AllNames]
  BY <1>2 DEF Receive, Typed, TypeOK, AllNames
<1>4. missed' \subseteq Apps
  BY <1>1 DEF Receive, Typed, TypeOK
<1>. QED  BY <1>1, <1>3, <1>4 DEF Receive, Typed, TypeOK, PostsBounded, AllNames

LEMMA ReconcileTypes ==
  ASSUME Typed, NEW kind \in Kinds, NEW name \in AllNames, Reconcile(kind, name)
  PROVE  Typed'
BY DEF Reconcile, Typed, TypeOK, PostsBounded, AllNames

LEMMA TimerTypes ==
  ASSUME Typed, NEW a \in Apps, TimerFires(a)
  PROVE  Typed'
BY AppTypes DEF TimerFires, Typed, TypeOK, PostsBounded, AllNames

\* The types of every reachable state: the channel never holds more than its
\* capacity, and only resources are queued, drifted or missed.
THEOREM TypeCorrect == Spec => []TypeOK
<1>1. Init => Typed
  BY AppTypes, Sizes DEF Init, Typed, TypeOK, PostsBounded
<1>2. Typed /\ [Next]_vars => Typed'
  <2> SUFFICES ASSUME Typed, [Next]_vars
               PROVE  Typed'
    OBVIOUS
  <2>1. CASE UNCHANGED vars
    BY <2>1 DEF vars, Typed, TypeOK, PostsBounded
  <2>2. ASSUME NEW k \in Kinds, Control(k)
        PROVE  Typed'
    BY <2>2, ReceiveTypes, ReconcileTypes DEF Control, AllNames
  <2>. QED  BY <2>1, <2>2, DriftTypes, TimerTypes, ServeTypes DEF Next
<1>3. Typed => TypeOK
  BY DEF Typed
<1>. QED  BY <1>1, <1>2, <1>3, PTL DEF Spec

-----------------------------------------------------------------------------
(* Where an event may be lost *)

\* Request r has still to list the kind of a, or to send a.
Pending(r, a) ==
  \/ handler[r].pc = "listOAuth2"
  \/ handler[r].pc = "oauth2" /\ (a.kind = "saml" \/ a \in handler[r].todo)
  \/ handler[r].pc = "listSAML" /\ a.kind = "saml"
  \/ handler[r].pc = "saml" /\ a \in handler[r].todo

InChannel(a) == \E i \in 1 .. Len(eventChan) : eventChan[i] = a

\* What is out of sync was missed, or something about it is on its way.
Accounted(a) ==
  \/ a \in missed \/ posts > 0
  \/ \E r \in Requests : Pending(r, a)
  \/ InChannel(a) \/ a.name \in queue[a.kind]

DriftAccounted == \A a \in drifted : Accounted(a)

LEMMA StayAccounted ==
  ASSUME TypeOK, NEW a \in Apps, Accounted(a),
         missed \subseteq missed', posts' >= posts, posts' \in Nat,
         \A r \in Requests : Pending(r, a) => Pending(r, a)' \/ InChannel(a)' \/ a \in missed',
         InChannel(a) => InChannel(a)' \/ a.name \in queue'[a.kind] \/ a \in missed',
         queue[a.kind] \subseteq queue'[a.kind]
  PROVE  Accounted(a)'
BY DEF Accounted, TypeOK

LEMMA ServeAccounts ==
  ASSUME TypeOK, NEW r \in Requests, Serve(r), NEW a \in Apps, Accounted(a)
  PROVE  Accounted(a)'
<1>1. CASE ServeHTTP(r)
  BY <1>1 DEF ServeHTTP, Accounted, Pending, TypeOK, Handler
<1>2. a.kind \in {"oauth2", "saml"}
  BY AppTypes DEF Kinds
<1>3. CASE ListOAuth2(r)
  <2>1. Pending(r, a)' \/ a \in missed'
    BY <1>2, <1>3 DEF ListOAuth2, ListApps, Pending, TypeOK, Handler
  <2>. QED  BY <2>1 DEF Accounted
<1>4. CASE ListSAML(r)
  <2>1. \A q \in Requests : Pending(q, a) => Pending(q, a)' \/ a \in missed'
    BY <1>2, <1>4 DEF ListSAML, ListApps, Pending, TypeOK, Handler
  <2>2. /\ missed \subseteq missed' /\ posts' = posts /\ posts \in Nat
        /\ UNCHANGED <<eventChan, queue>>
    BY <1>4 DEF ListSAML, ListApps, TypeOK
  <2>. QED  BY <2>1, <2>2 DEF Accounted, InChannel
<1>5. CASE SendOne(r)
  <2>1. PICK b \in handler[r].todo :
          TrySend(b) /\ handler' = [handler EXCEPT ![r].todo = @ \ {b}]
    BY <1>5 DEF SendOne
  <2>2. b \in Apps /\ missed \subseteq missed' /\ (InChannel(b)' \/ b \in missed')
    BY <2>1 DEF TrySend, TypeOK, Handler, InChannel
  <2>3. InChannel(a) => InChannel(a)'
    BY <2>1, <2>2 DEF TrySend, TypeOK, InChannel
  <2>4. \A q \in Requests : Pending(q, a) => Pending(q, a)' \/ a = b
    BY <2>1 DEF Pending, TypeOK, Handler
  <2>5. UNCHANGED <<posts, queue>>
    BY <1>5 DEF SendOne
  <2>. QED  BY <2>2, <2>3, <2>4, <2>5 DEF Accounted
<1>6. CASE SentAll(r)
  <2>1. \A q \in Requests : Pending(q, a) => Pending(q, a)'
    BY <1>2, <1>6 DEF SentAll, Kinds, Pending, TypeOK, Handler
  <2>. QED  BY <1>6, <2>1 DEF SentAll, Accounted, InChannel
<1>7. CASE Answer(r)
  <2>1. \A q \in Requests : Pending(q, a) => Pending(q, a)'
    BY <1>7 DEF Answer, Pending, TypeOK, Handler
  <2>. QED  BY <1>7, <2>1 DEF Answer, Accounted, InChannel
<1>. QED  BY <1>1, <1>3, <1>4, <1>5, <1>6, <1>7 DEF Serve

LEMMA ReceiveAccounts ==
  ASSUME TypeOK, NEW kind \in Kinds, Receive(kind), NEW a \in Apps, Accounted(a)
  PROVE  Accounted(a)'
<1>1. eventChan' = Tail(eventChan) /\ eventChan # << >> /\ eventChan \in Seq(Apps)
  BY DEF Receive, TypeOK
<1>2. InChannel(a) => InChannel(a)' \/ a = Head(eventChan)
  <2> SUFFICES ASSUME NEW i \in 1 .. Len(eventChan), eventChan[i] = a, i # 1
               PROVE  InChannel(a)'
    BY <1>1 DEF InChannel
  <2>1. i - 1 \in 1 .. Len(Tail(eventChan)) /\ Tail(eventChan)[i - 1] = a
    BY <1>1
  <2>. QED  BY <1>1, <2>1 DEF InChannel
<1>3. a = Head(eventChan) => a.name \in queue'[a.kind] \/ a \in missed'
  BY DEF Receive, TypeOK
<1>4. queue[a.kind] \subseteq queue'[a.kind] /\ missed \subseteq missed'
      /\ UNCHANGED <<posts, handler>>
  BY AppTypes DEF Receive, TypeOK
<1>. QED  BY <1>2, <1>3, <1>4 DEF Accounted, Pending

LEMMA ReconcileAccounts ==
  ASSUME TypeOK, NEW kind \in Kinds, NEW name \in AllNames, Reconcile(kind, name),
         NEW a \in Apps, a # [kind |-> kind, name |-> name], Accounted(a)
  PROVE  Accounted(a)'
<1>1. a.kind # kind \/ a.name # name
  BY AppTypes
<1>2. a \in missed => a \in missed'
  BY DEF Reconcile
<1>3. a.name \in queue[a.kind] => a.name \in queue'[a.kind]
  BY <1>1, AppTypes DEF Reconcile, TypeOK
<1>. QED  BY <1>2, <1>3 DEF Reconcile, Accounted, Pending, InChannel

\* When everything is quiet, what is out of sync had its event dropped at a full
\* channel, received by the controller of the other kind, or not sent because a
\* List failed; nothing else loses an event, however the requests interleave.
THEOREM EventsAccountedFor == Spec => []NothingElseMissed
<1>1. Init => DriftAccounted
  BY DEF Init, DriftAccounted
<1>2. TypeOK /\ DriftAccounted /\ [Next]_vars => DriftAccounted'
  <2> SUFFICES ASSUME TypeOK, DriftAccounted, [Next]_vars, NEW a \in drifted'
               PROVE  Accounted(a)'
    BY DEF DriftAccounted
  <2>1. CASE UNCHANGED vars
    BY <2>1 DEF vars, DriftAccounted, Accounted, Pending, InChannel
  <2>2. ASSUME NEW b \in Apps, Drift(b)
        PROVE  Accounted(a)'
    BY <2>2 DEF Drift, TypeOK, Accounted
  <2>3. ASSUME NEW b \in Apps, TimerFires(b)
        PROVE  Accounted(a)'
    <3>1. Accounted(a) /\ a \in Apps
      BY <2>3 DEF TimerFires, DriftAccounted, TypeOK
    <3>2. queue[a.kind] \subseteq queue'[a.kind]
      BY <2>3, <3>1, AppTypes DEF TimerFires, TypeOK
    <3>. QED  BY <2>3, <3>1, <3>2 DEF TimerFires, Accounted, Pending, InChannel
  <2>4. ASSUME NEW r \in Requests, Serve(r)
        PROVE  Accounted(a)'
    <3>1. UNCHANGED drifted
      BY <2>4 DEF Serve, ServeHTTP, ListOAuth2, ListSAML, ListApps, SendOne, SentAll, Answer
    <3>. QED  BY <2>4, <3>1, ServeAccounts DEF DriftAccounted, TypeOK
  <2>5. ASSUME NEW k \in Kinds, Receive(k)
        PROVE  Accounted(a)'
    BY <2>5, ReceiveAccounts DEF DriftAccounted, TypeOK, Receive
  <2>6. ASSUME NEW k \in Kinds, NEW name \in AllNames, Reconcile(k, name)
        PROVE  Accounted(a)'
    BY <2>6, ReconcileAccounts DEF DriftAccounted, TypeOK, Reconcile
  <2>. QED  BY <2>1, <2>2, <2>3, <2>4, <2>5, <2>6 DEF Next, Control, AllNames
<1>3. TypeOK /\ DriftAccounted => NothingElseMissed
  <2> SUFFICES ASSUME TypeOK, DriftAccounted, Quiet, NEW a \in drifted
               PROVE  a \in missed
    BY DEF NothingElseMissed
  <2>1. a \in Apps /\ Accounted(a)
    BY DEF DriftAccounted, TypeOK
  <2>2. a.name \notin queue[a.kind] /\ ~(posts > 0) /\ \A r \in Requests : ~Pending(r, a)
    BY <2>1, AppTypes DEF Quiet, Pending
  <2>3. ~InChannel(a)
    BY DEF Quiet, InChannel
  <2>. QED  BY <2>1, <2>2, <2>3 DEF Accounted
<1>. QED  BY <1>1, <1>2, <1>3, TypeCorrect, PTL DEF Spec

=============================================================================
