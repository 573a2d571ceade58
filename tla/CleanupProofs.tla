---------------------------- MODULE CleanupProofs ----------------------------
(***************************************************************************)
(* Proofs about what Reconciler leaves behind in Authentik: the provider a *)
(* status names goes before its resource, and, when no user edits a slug,  *)
(* no application outlives the resource it was written for.                *)
(***************************************************************************)
EXTENDS ReconcilerProofs

-----------------------------------------------------------------------------
(* Frames of the actions *)

\* The ways a reconcile moves on, read for its copy and its provider key.
MovesOn(c) ==
  /\ work'[c].app = App(c) /\ work'[c].pid = work[c].pid

LEMMA GotoMovesOn ==
  ASSUME TypeOK, NEW c \in CRs, ~At(c, "idle"), NEW step, Goto(c, step)
  PROVE  MovesOn(c) /\ work'[c].pc = step
<1>1. work \in [CRs -> Work] /\ work[c] \in [pc : Steps, app : Object, pid : Nat, why : Reasons]
  BY Busy DEF At, TypeOK
<1>. QED  BY <1>1 DEF Goto, MovesOn, App

LEMMA GotoWithMovesOn ==
  ASSUME TypeOK, NEW c \in CRs, ~At(c, "idle"), NEW step, NEW pid, GotoWith(c, step, pid)
  PROVE  work'[c].app = App(c) /\ work'[c].pid = pid /\ work'[c].pc = step
<1>1. work \in [CRs -> Work] /\ work[c] \in [pc : Steps, app : Object, pid : Nat, why : Reasons]
  BY Busy DEF At, TypeOK
<1>. QED  BY <1>1 DEF GotoWith, App

LEMMA FailMovesOn ==
  ASSUME TypeOK, NEW c \in CRs, ~At(c, "idle"), NEW why, Fail(c, why)
  PROVE  MovesOn(c) /\ work'[c].pc = "report"
<1>1. work \in [CRs -> Work] /\ work[c] \in [pc : Steps, app : Object, pid : Nat, why : Reasons]
  BY Busy DEF At, TypeOK
<1>. QED  BY <1>1 DEF Fail, MovesOn, App

LEMMA ReturnIdles ==
  ASSUME TypeOK, NEW c \in CRs, Return(c) \/ ReturnRequeue(c)
  PROVE  work'[c] = Idle
BY DEF Return, ReturnRequeue, TypeOK

LEMMA FailDeletionMovesOn ==
  ASSUME TypeOK, NEW c \in CRs, ~At(c, "idle"), FailDeletion(c)
  PROVE  work'[c] = Idle \/ (MovesOn(c) /\ work'[c].pc = "report")
BY FailMovesOn, ReturnIdles DEF FailDeletion

\* A call of c leaves the caches and the other keys alone.
LEMMA CallsOthers ==
  ASSUME TypeOK, NEW c \in CRs, Calls(c)
  PROVE  /\ UNCHANGED <<cache, nextUid>>
         /\ \A d \in CRs \ {c} : cr'[d] = cr[d] /\ work'[d] = work[d]
<1>1. CASE Syncs(c)
  BY <1>1, SyncsMove DEF Moves
<1>2. CASE Deletes(c)
  BY <1>2, DeletesMove DEF Moves
<1>3. CASE AddFinalizer(c) \/ PublishStatus(c) \/ ReportFailure(c) \/ RemoveFinalizer(c)
  BY <1>3 DEF AddFinalizer, PublishStatus, ReportFailure, RemoveFinalizer, Return,
     ReturnRequeue, TypeOK
<1>. QED  BY <1>1, <1>2, <1>3 DEF Calls, Syncs, Deletes

\* Taking a key from the queue.
LEMMA BeginsWork ==
  ASSUME TypeOK, NEW c \in CRs, Begins(c)
  PROVE  /\ UNCHANGED <<cr, cache, nextUid, authentik>>
         /\ \A d \in CRs \ {c} : work'[d] = work[d]
         /\ \/ work'[c] = work[c]
            \/ /\ work'[c].app = cache[c] /\ work'[c].pid = 0
               /\ work'[c].pc \in {"findAppToDelete", "addFinalizer", "report", "findProvider"}
<1>1. ASSUME NEW step, NEW why, Begin(c, step, why)
      PROVE  /\ \A d \in CRs \ {c} : work'[d] = work[d]
             /\ work'[c].app = cache[c] /\ work'[c].pid = 0 /\ work'[c].pc = step
  BY <1>1 DEF Begin, TypeOK
<1>2. UNCHANGED work \/ \E step \in {"findAppToDelete", "addFinalizer", "report", "findProvider"},
                            why \in {"", "TemplateError"} : Begin(c, step, why)
  BY DEF Begins, Ignore, BeginDeletion, BeginFinalizer, RejectTemplate, BeginSync
<1>3. UNCHANGED <<cr, cache, nextUid, authentik>>
  BY DEF Begins, Ignore, BeginDeletion, BeginFinalizer, RejectTemplate, BeginSync, Dequeue,
     kubernetes
<1>. QED  BY <1>1, <1>2, <1>3

\* A step that neither looks up nor creates a provider, nor ends in
\* removeFinalizer, moves on with the copy it has, or ends.
Kept(c) == work'[c] = Idle \/ MovesOn(c)

LEMMA CallsKept ==
  ASSUME TypeOK, NEW c \in CRs, Calls(c), ~FindProvider(c), ~CreateProvider(c)
  PROVE  Kept(c)
<1>. USE GotoMovesOn, FailMovesOn, ReturnIdles, FailDeletionMovesOn DEF Kept, At
<1>1. CASE UpdateProvider(c) \/ FindApp(c)
  BY <1>1 DEF UpdateProvider, FindApp
<1>2. CASE CreateApp(c) \/ UpdateApp(c)
  BY <1>2 DEF CreateApp, UpdateApp, WriteApp
<1>3. CASE DeleteStaleSecret(c) \/ GetURLs(c) \/ WriteSecret(c)
  BY <1>3 DEF DeleteStaleSecret, GetURLs, WriteSecret
<1>4. CASE AddFinalizer(c) \/ PublishStatus(c) \/ ReportFailure(c) \/ RemoveFinalizer(c)
  BY <1>4 DEF AddFinalizer, PublishStatus, ReportFailure, RemoveFinalizer
<1>5. CASE FindAppToDelete(c) \/ DeleteApp(c) \/ FindProviderToDelete(c) \/ DeleteProvider(c)
  BY <1>5 DEF FindAppToDelete, DeleteApp, FindProviderToDelete, DeleteProvider
<1>. QED  BY <1>1, <1>2, <1>3, <1>4, <1>5 DEF Calls

-----------------------------------------------------------------------------
(* Primary keys of providers *)

LEMMA PidTypes ==
  ASSUME TypeOK, NEW c \in CRs
  PROVE  Pids(c) \subseteq Nat
<1>1. \A o \in CR : o.status.pid \in Nat
  <2>1. \A o \in Object : o.status.pid \in Nat
    BY DEF Object, Status
  <2>2. NoCR.status.pid \in Nat
    BY DEF NoCR, NoStatus
  <2>. QED  BY <2>1, <2>2 DEF CR
<1>2. work[c].app \in CR /\ work[c].pid \in Nat
  <2>1. Idle.app = NoCR /\ Idle.pid = 0
    BY DEF Idle
  <2>2. CASE work[c] = Idle
    <3>1. work[c].app = NoCR /\ work[c].pid = 0
      BY <2>1, <2>2, Zenon
    <3>. QED  BY <3>1, DataTypes
  <2>3. CASE work[c] \in [pc : Steps, app : Object, pid : Nat, why : Reasons]
    BY <2>3 DEF CR
  <2>. QED  BY <2>2, <2>3 DEF TypeOK, Work
<1>. QED  BY <1>1, <1>2 DEF TypeOK, Pids, App

\* No key is used again, and only nextPid is new.
KeysOnlyAdded ==
  /\ nextPid' \in Nat /\ nextPid' >= nextPid
  /\ \A q \in providers' :
       (\E p \in providers : p.id = q.id /\ p.kind = q.kind) \/ q.id = nextPid

LEMMA KnownFrame ==
  ASSUME TypeOK, KeysSpent, KeysOnlyAdded, NEW c \in CRs, ProviderKnown(c),
         Pids(c)' \subseteq Pids(c) \cup {0},
         At(c, "removeFinalizer")' =>
           /\ App(c)' = App(c)
           /\ At(c, "removeFinalizer") \/ \A q \in providers' : q.id # App(c).status.pid
  PROVE  ProviderKnown(c)'
<1>. Pids(c) \subseteq Nat /\ nextPid \in Nat \ {0}
  BY PidTypes DEF TypeOK
<1>0. App(c).status.pid \in Pids(c)
  BY DEF Pids
<1>1. \A id \in Pids(c)' : id < nextPid'
  BY DEF KeysOnlyAdded, ProviderKnown
<1>2. ASSUME NEW q \in providers', q.id \in Pids(c)'
      PROVE  OwnKind(c, q)
  <2>1. CASE q.id = nextPid
    BY <1>2, <2>1 DEF ProviderKnown
  <2>2. ASSUME NEW p \in providers, p.id = q.id, p.kind = q.kind
        PROVE  OwnKind(c, q)
    BY <1>2, <2>2 DEF ProviderKnown, KeysSpent, OwnKind
  <2>. QED  BY <2>1, <2>2 DEF KeysOnlyAdded
<1>3. At(c, "removeFinalizer")' => \A q \in providers' : q.id # App(c).status.pid
  BY <1>0 DEF KeysOnlyAdded, ProviderKnown
<1>. QED  BY <1>1, <1>2, <1>3 DEF ProviderKnown, OwnKind, Kind

LEMMA KeysKept ==
  ASSUME TypeOK, KeysSpent, providers' \subseteq providers, UNCHANGED nextPid
  PROVE  KeysOnlyAdded /\ KeysSpent'
BY DEF TypeOK, KeysOnlyAdded, KeysSpent

\* A call of another key.
LEMMA KnownOfOthers ==
  ASSUME TypeOK, ProviderInv, NEW c \in CRs, Calls(c), KeysOnlyAdded, KeysSpent',
         ProviderKnown(c)'
  PROVE  ProviderInv'
<1>1. ASSUME NEW d \in CRs \ {c}
      PROVE  ProviderKnown(d)'
  <2>1. cr'[d] = cr[d] /\ cache'[d] = cache[d] /\ work'[d] = work[d]
    BY CallsOthers
  <2>. QED  BY <2>1, KnownFrame DEF ProviderInv, Pids, App, At
<1>. QED  BY <1>1 DEF ProviderInv

LEMMA AuthentikKeys ==
  ASSUME TypeOK, KeysSpent, NEW c \in CRs, Calls(c)
  PROVE  KeysOnlyAdded /\ KeysSpent'
<1>1. ASSUME CreateProvider(c)
      PROVE  KeysOnlyAdded /\ KeysSpent'
  <2>1. CASE UNCHANGED <<providers, nextPid>>
    BY <2>1, KeysKept
  <2>2. CASE /\ providers' = providers \cup
                   {[id |-> nextPid, kind |-> Kind(c), slug |-> App(c).spec.slug,
                     uid |-> App(c).uid, gen |-> App(c).gen]}
             /\ nextPid' = nextPid + 1
    <3>1. \A p \in providers : p.id \in Nat
      BY DEF TypeOK, Provider
    <3>. QED  BY <2>2, <3>1 DEF KeysOnlyAdded, KeysSpent, TypeOK
  <2>. QED  BY <1>1, <2>1, <2>2 DEF CreateProvider
<1>2. ASSUME UpdateProvider(c)
      PROVE  KeysOnlyAdded /\ KeysSpent'
  <2>1. \A p \in providers : LET q == [p EXCEPT !.uid = App(c).uid, !.gen = App(c).gen]
                            IN  q.id = p.id /\ q.kind = p.kind
    BY DEF TypeOK, Provider
  <2>2. CASE UNCHANGED providers
    BY <1>2, <2>2, KeysKept DEF UpdateProvider
  <2>3. CASE providers' = (providers \ {p \in providers : p.id = work[c].pid}) \cup
               {[p EXCEPT !.uid = App(c).uid, !.gen = App(c).gen] :
                  p \in {p \in providers : p.id = work[c].pid}}
    <3>1. \A q \in providers' : \E p \in providers : p.id = q.id /\ p.kind = q.kind
      BY <2>1, <2>3
    <3>2. UNCHANGED nextPid
      BY <1>2 DEF UpdateProvider
    <3>. QED  BY <3>1, <3>2 DEF KeysOnlyAdded, KeysSpent, TypeOK
  <2>. QED  BY <1>2, <2>2, <2>3 DEF UpdateProvider
<1>3. ASSUME ~CreateProvider(c), ~UpdateProvider(c)
      PROVE  providers' \subseteq providers /\ UNCHANGED nextPid
  BY <1>3 DEF Calls, AddFinalizer, FindProvider, FindApp, CreateApp, UpdateApp, WriteApp,
     DeleteStaleSecret, GetURLs, WriteSecret, PublishStatus, ReportFailure, FindAppToDelete,
     DeleteApp, FindProviderToDelete, DeleteProvider, RemoveFinalizer, DestroyProvider, authentik
<1>. QED  BY <1>1, <1>2, <1>3, KeysKept

\* The calls that do not end in removeFinalizer and learn no key of a provider.
LEMMA KeptKnown ==
  ASSUME TypeOK, ProviderInv, NEW c \in CRs, Calls(c), Kept(c),
         cr'[c].status.pid \in Pids(c) \cup {0},
         At(c, "removeFinalizer")' =>
           At(c, "removeFinalizer") \/ \A q \in providers' : q.id # App(c).status.pid
  PROVE  ProviderInv'
<1>1. KeysOnlyAdded /\ KeysSpent'
  BY AuthentikKeys DEF ProviderInv
<1>2. UNCHANGED cache
  BY CallsOthers
<1>3. Idle.pc = "idle" /\ Idle.app.status.pid = 0 /\ Idle.pid = 0
  BY DEF Idle, NoCR, NoStatus
<1>4. Pids(c)' \subseteq Pids(c) \cup {0}
  BY <1>2, <1>3 DEF Kept, MovesOn, Pids, App
<1>5. At(c, "removeFinalizer")' => App(c)' = App(c)
  BY <1>3 DEF Kept, MovesOn, At, App
<1>6. ProviderKnown(c)'
  BY <1>1, <1>4, <1>5, KnownFrame DEF ProviderInv
<1>. QED  BY <1>1, <1>6, KnownOfOthers

LEMMA StatusPids ==
  ASSUME TypeOK, NEW c \in CRs, Calls(c)
  PROVE  cr'[c].status.pid \in Pids(c) \cup {0}
<1>. USE DEF At, Pids
<1>0. cr \in [CRs -> CR]
  BY DEF TypeOK
<1>1. CASE cr'[c] = cr[c]
  BY <1>1
<1>2. ASSUME Current(c), AddFinalizer(c) \/ PublishStatus(c) \/ ReportFailure(c)
      PROVE  cr[c] \in Object
  BY <1>2, InProgress DEF Current, AddFinalizer, PublishStatus, ReportFailure
<1>3. ASSUME AddFinalizer(c), Current(c), cr' = [cr EXCEPT ![c].fin = TRUE]
      PROVE  cr'[c].status.pid = cr[c].status.pid
  BY <1>0, <1>2, <1>3 DEF Object
<1>4. ASSUME PublishStatus(c), Current(c),
             cr' = [cr EXCEPT ![c].status =
               [pid |-> work[c].pid, secret |-> App(c).spec.secret, gen |-> App(c).gen,
                reason |-> "Succeeded"]]
      PROVE  cr'[c].status.pid = work[c].pid
  BY <1>0, <1>2, <1>4 DEF Object
<1>5. ASSUME ReportFailure(c), Current(c), cr' = [cr EXCEPT ![c].status.reason = work[c].why]
      PROVE  cr'[c].status.pid = cr[c].status.pid
  BY <1>0, <1>2, <1>5 DEF Object, Status
<1>6. ASSUME cr' = [cr EXCEPT ![c] = NoCR]
      PROVE  cr'[c].status.pid = 0
  BY <1>0, <1>6 DEF NoCR, NoStatus
<1>7. CASE Syncs(c) \/ Deletes(c)
  BY <1>1, <1>7, SyncsMove, DeletesMove DEF Moves
<1>8. CASE AddFinalizer(c)
  BY <1>1, <1>3, <1>8 DEF AddFinalizer
<1>9. CASE PublishStatus(c)
  BY <1>1, <1>4, <1>9 DEF PublishStatus
<1>10. CASE ReportFailure(c)
  BY <1>1, <1>5, <1>10 DEF ReportFailure
<1>11. CASE RemoveFinalizer(c)
  BY <1>1, <1>6, <1>11 DEF RemoveFinalizer
<1>. QED  BY <1>7, <1>8, <1>9, <1>10, <1>11 DEF Calls, Syncs, Deletes

\* Where removeFinalizer is reached from.
LEMMA ReachRemoval ==
  ASSUME TypeOK, ProviderInv, NEW c \in CRs, Calls(c), Kept(c), At(c, "removeFinalizer")'
  PROVE  \A q \in providers' : q.id # App(c).status.pid
<1>. USE GotoMovesOn, FailMovesOn, ReturnIdles, FailDeletionMovesOn DEF At
<1>0. Idle.pc = "idle"
  BY DEF Idle
<1>1. ASSUME FindAppToDelete(c) \/ DeleteApp(c)
      PROVE  UNCHANGED providers /\ App(c).status.pid = 0
  BY <1>0, <1>1 DEF FindAppToDelete, DeleteApp, AfterAppDeleted, authentik
<1>2. ASSUME FindProviderToDelete(c)
      PROVE  /\ UNCHANGED providers
             /\ \A p \in providers : OwnKind(c, p) => p.id # App(c).status.pid
  BY <1>0, <1>2 DEF FindProviderToDelete, authentik
<1>3. ASSUME DeleteProvider(c)
      PROVE  \A q \in providers' : q.id # App(c).status.pid
  BY <1>0, <1>3 DEF DeleteProvider, DestroyProvider
<1>4. ~Syncs(c)
  BY <1>0, SyncsMove DEF Moves, Syncing
<1>5. ~AddFinalizer(c) /\ ~PublishStatus(c) /\ ~ReportFailure(c) /\ ~RemoveFinalizer(c)
  BY <1>0 DEF AddFinalizer, PublishStatus, ReportFailure, RemoveFinalizer
<1>6. Deletes(c)
  BY <1>4, <1>5 DEF Calls, Syncs, Deletes
<1>7. App(c).status.pid \in Pids(c)
  BY DEF Pids
<1>. QED  BY <1>1, <1>2, <1>3, <1>6, <1>7 DEF Deletes, ProviderInv, ProviderKnown, KeysSpent

LEMMA CallsProviderInv ==
  ASSUME TypeOK, ProviderInv, NEW c \in CRs, Calls(c)
  PROVE  ProviderInv'
<1>1. CASE Kept(c)
  BY <1>1, KeptKnown, StatusPids, ReachRemoval
<1>2. ASSUME FindProvider(c) \/ CreateProvider(c), ~Kept(c)
      PROVE  ProviderKnown(c)'
  <2>1. UNCHANGED <<cr, cache>>
    BY <1>2 DEF FindProvider, CreateProvider, kubernetes
  <2>2. ASSUME FindProvider(c)
        PROVE  ProviderKnown(c)'
    <3>1. PICK p \in providers : OwnKind(c, p) /\ GotoWith(c, "updateProvider", p.id)
      BY <1>2, <2>2, GotoMovesOn, FailMovesOn DEF FindProvider, Kept, At
    <3>2. work'[c].app = App(c) /\ work'[c].pid = p.id /\ work'[c].pc = "updateProvider"
      BY <2>2, <3>1, GotoWithMovesOn DEF FindProvider, At
    <3>3. UNCHANGED <<providers, nextPid>>
      BY <2>2 DEF FindProvider, authentik
    <3>4. Pids(c)' \subseteq Pids(c) \cup {p.id}
      BY <2>1, <3>2 DEF Pids, App
    <3>. QED  BY <3>1, <3>2, <3>3, <3>4 DEF ProviderInv, KeysSpent, ProviderKnown, OwnKind,
              Kind, At
  <2>3. ASSUME CreateProvider(c)
        PROVE  ProviderKnown(c)'
    <3>1. /\ providers' = providers \cup
               {[id |-> nextPid, kind |-> Kind(c), slug |-> App(c).spec.slug,
                 uid |-> App(c).uid, gen |-> App(c).gen]}
          /\ nextPid' = nextPid + 1 /\ GotoWith(c, "findApp", nextPid)
      BY <1>2, <2>3, GotoMovesOn, FailMovesOn DEF CreateProvider, Kept, At
    <3>2. work'[c].app = App(c) /\ work'[c].pid = nextPid /\ work'[c].pc = "findApp"
      BY <2>3, <3>1, GotoWithMovesOn DEF CreateProvider, At
    <3>3. Pids(c)' \subseteq Pids(c) \cup {nextPid}
      BY <2>1, <3>2 DEF Pids, App
    <3>4. Pids(c) \subseteq Nat /\ nextPid \in Nat
      BY PidTypes DEF TypeOK
    <3>5. \A id \in Pids(c)' : id < nextPid'
      BY <3>1, <3>3, <3>4 DEF ProviderInv, ProviderKnown
    <3>6. ASSUME NEW q \in providers', q.id \in Pids(c)'
          PROVE  OwnKind(c, q)
      <4>1. CASE q \in providers
        <5>1. q.id < nextPid /\ q.id \in Nat
          BY <4>1 DEF ProviderInv, KeysSpent, TypeOK, Provider
        <5>. QED  BY <3>3, <3>4, <3>6, <4>1, <5>1 DEF ProviderInv, ProviderKnown
      <4>2. CASE q.kind = Kind(c)
        BY <4>2 DEF OwnKind
      <4>. QED  BY <3>1, <4>1, <4>2
    <3>. QED  BY <3>2, <3>5, <3>6 DEF ProviderKnown, At, OwnKind, Kind
  <2>. QED  BY <1>2, <2>2, <2>3
<1>. QED  BY <1>1, <1>2, CallsKept, AuthentikKeys, KnownOfOthers DEF ProviderInv

\* Steps of the manager and of the environment create no provider and put no key
\* into a copy that the resource or its cache did not have.
LEMMA OthersProviderInv ==
  ASSUME TypeOK, IndInv, ProviderInv,
         (\E c \in CRs : Begins(c)) \/ Manager \/ Environment \/ UNCHANGED vars
  PROVE  ProviderInv'
<1>1. providers' \subseteq providers /\ UNCHANGED nextPid
  BY DEF Begins, Ignore, BeginDeletion, BeginFinalizer, RejectTemplate, BeginSync, Dequeue,
     Manager, WatchCR, TimerFires, WatchSecret, Restart, Environment, CreateCR, EditCR, DeleteCR,
     CollectSecret, Drift, DriftSecret, DriftApp, DriftProvider, DestroyProvider, authentik, vars
<1>2. KeysOnlyAdded /\ KeysSpent'
  BY <1>1, KeysKept DEF ProviderInv
<1>3. ASSUME NEW c \in CRs
      PROVE  Pids(c)' \subseteq Pids(c) \cup {0}
  <2>1. Idle.app.status.pid = 0 /\ Idle.pid = 0 /\ NoCR.status.pid = 0
    BY DEF Idle, NoCR, NoStatus
  <2>2. ASSUME NEW d \in CRs, Begins(d)
        PROVE  Pids(c)' \subseteq Pids(c) \cup {0}
    <3>1. UNCHANGED <<cr, cache>>
      BY <2>2, BeginsWork
    <3>2. work'[c] = work[c] \/ (work'[c].app = cache[c] /\ work'[c].pid = 0)
      BY <2>2, BeginsWork
    <3>. QED  BY <3>1, <3>2 DEF Pids, App
  <2>3. CASE Manager
    <3>1. UNCHANGED cr /\ (work' = work \/ work'[c] = Idle)
            /\ (cache'[c] = cache[c] \/ cache'[c] = cr[c])
      BY <2>3 DEF Manager, WatchCR, TimerFires, WatchSecret, Restart, kubernetes, TypeOK
    <3>. QED  BY <2>1, <3>1 DEF Pids, App
  <2>4. CASE Environment
    <3>1. UNCHANGED <<cache, work>>
      BY <2>4 DEF Environment, CreateCR, EditCR, DeleteCR, CollectSecret, Drift, DriftSecret,
         DriftApp, DriftProvider
    <3>2. cr'[c].status.pid \in {cr[c].status.pid, 0}
      <4>1. ASSUME NEW d \in CRs, CreateCR(d)
            PROVE  cr'[c].status.pid \in {cr[c].status.pid, 0}
        BY <2>1, <4>1 DEF CreateCR, TypeOK, NoCR
      <4>2. ASSUME NEW d \in CRs, EditCR(d)
            PROVE  cr'[c].status.pid \in {cr[c].status.pid, 0}
        <5>1. cr[d] \in Object
          BY <4>2, Present DEF EditCR, TypeOK
        <5>. QED  BY <4>2, <5>1 DEF EditCR, TypeOK, Object
      <4>3. ASSUME NEW d \in CRs, DeleteCR(d)
            PROVE  cr'[c].status.pid \in {cr[c].status.pid, 0}
        <5>1. cr[d] \in Object
          BY <4>3, Present DEF DeleteCR, TypeOK
        <5>. QED  BY <2>1, <4>3, <5>1 DEF DeleteCR, TypeOK, Object
      <4>4. CASE UNCHANGED cr
        BY <4>4
      <4>5. UNCHANGED cr \/ \E d \in CRs : CreateCR(d) \/ EditCR(d) \/ DeleteCR(d)
        BY <2>4 DEF Environment, CollectSecret, Drift, DriftSecret, DriftApp, DriftProvider
      <4>. QED  BY <4>1, <4>2, <4>3, <4>4, <4>5
    <3>. QED  BY <3>1, <3>2 DEF Pids, App
  <2>5. CASE UNCHANGED vars
    BY <2>5 DEF vars, kubernetes, Pids, App
  <2>. QED  BY <2>2, <2>3, <2>4, <2>5
<1>4. ASSUME NEW c \in CRs, At(c, "removeFinalizer")'
      PROVE  work'[c] = work[c]
  <2>1. Idle.pc = "idle"
    BY DEF Idle
  <2>2. ASSUME NEW d \in CRs, Begins(d)
        PROVE  work'[c] = work[c]
    BY <1>4, <2>2, BeginsWork DEF At
  <2>3. Manager \/ Environment \/ UNCHANGED vars => UNCHANGED work \/ work'[c] = Idle
    BY DEF Manager, WatchCR, TimerFires, WatchSecret, Restart, Environment,
       CreateCR, EditCR, DeleteCR, CollectSecret, Drift, DriftSecret, DriftApp, DriftProvider, vars
  <2>. QED  BY <1>4, <2>1, <2>2, <2>3 DEF At
<1>5. ASSUME NEW c \in CRs
      PROVE  ProviderKnown(c)'
  BY <1>2, <1>3, <1>4, KnownFrame DEF ProviderInv, At, App
<1>. QED  BY <1>2, <1>5 DEF ProviderInv

LEMMA InitProviderInv == Init => ProviderInv
<1>1. Idle.app.status.pid = 0 /\ Idle.pid = 0 /\ NoCR.status.pid = 0 /\ Idle.pc = "idle"
  BY DEF Idle, NoCR, NoStatus
<1>2. ASSUME Init, NEW c \in CRs
      PROVE  cr[c] = NoCR /\ cache[c] = NoCR /\ work[c] = Idle
  BY <1>2 DEF Init
<1>. QED  BY <1>1, <1>2 DEF Init, ProviderInv, KeysSpent, ProviderKnown, Pids, App, At

\* The keys of providers are used once, and whatever key a resource, a copy of it or
\* its reconcile has is of the right kind; handleDeletion takes the finalizer away
\* only when the provider its copy names is gone.
THEOREM ProviderKeys == Spec => []ProviderInv
<1>1. Init => ProviderInv
  BY InitProviderInv
<1>2. TypeOK /\ IndInv /\ ProviderInv /\ [Next]_vars => ProviderInv'
  BY NextCases, CallsProviderInv, OthersProviderInv
<1>. QED  BY <1>1, <1>2, TypeCorrect, Inductive, PTL DEF Spec

\* Only the removal of the finalizer ends a resource that has it.
LEMMA ProviderGone ==
  ASSUME TypeOK, ProviderInv, Next, NEW c \in CRs, cr[c].fin, cr'[c].uid # cr[c].uid
  PROVE  \A p \in providers : p.id # cr[c].status.pid
<1>1. RemoveFinalizer(c) /\ Current(c)
  <2>1. ASSUME NEW d \in CRs, Begins(d)
        PROVE  FALSE
    BY <2>1, BeginsWork
  <2>2. ASSUME NEW d \in CRs, Calls(d)
        PROVE  RemoveFinalizer(c) /\ Current(c)
    <3>1. d = c
      BY <2>2, CallsOthers
    <3>2. ~Syncs(c) /\ ~Deletes(c)
      BY SyncsMove, DeletesMove DEF Moves
    <3>3. ~PublishStatus(c) /\ ~ReportFailure(c)
      BY StatusKeeps DEF KeepsButStatus
    <3>4. ASSUME AddFinalizer(c)
          PROVE  FALSE
      <4>1. Current(c) => cr[c] \in Object
        BY <3>4, InProgress DEF AddFinalizer, Current, At
      <4>. QED  BY <3>4, <4>1 DEF AddFinalizer, TypeOK, Object
    <3>. QED  BY <2>2, <3>1, <3>2, <3>3, <3>4 DEF Calls, Syncs, Deletes, RemoveFinalizer
  <2>3. ~Manager
    BY DEF Manager, WatchCR, TimerFires, WatchSecret, Restart, kubernetes
  <2>4. ~Environment
    <3>1. cr[c] \in Object /\ cr[c].uid # 0
      BY Present DEF TypeOK, Object
    <3>2. ~(\E d \in CRs : CreateCR(d))
      BY <3>1 DEF CreateCR, Exists, TypeOK
    <3>3. ASSUME NEW d \in CRs, EditCR(d)
          PROVE  FALSE
      <4>1. PICK spec : cr' = [cr EXCEPT ![d].spec = spec, ![d].gen = @ + 1]
        BY <3>3 DEF EditCR
      <4>2. cr'[c].uid = cr[c].uid
        BY <3>1, <4>1 DEF TypeOK, Object
      <4>. QED  BY <4>2
    <3>4. ASSUME NEW d \in CRs, DeleteCR(d)
          PROVE  FALSE
      <4>1. d = c
        BY <3>4 DEF DeleteCR, TypeOK
      <4>2. cr'[c] = [cr[c] EXCEPT !.del = TRUE, !.gen = @ + 1]
        BY <3>4, <4>1 DEF DeleteCR, TypeOK
      <4>. QED  BY <3>1, <4>2 DEF Object
    <3>. QED  BY <3>2, <3>3, <3>4 DEF Environment, CollectSecret, Drift, DriftSecret,
              DriftApp, DriftProvider
  <2>. QED  BY <2>1, <2>2, <2>3, <2>4, NextCases
<1>. QED  BY <1>1 DEF ProviderInv, ProviderKnown, RemoveFinalizer, Current

\* A resource goes only after the provider that its status names: handleDeletion
\* decides from a copy, and the conflict on the update of the resource is what
\* makes the decision hold for the resource that is removed.
THEOREM ProviderBeforeResource == Spec => RecordedProviderDeleted
<1>. DEFINE A == \A c \in CRs : cr[c].fin /\ cr'[c].uid # cr[c].uid =>
                   \A p \in providers : p.id # cr[c].status.pid
<1>1. TypeOK /\ ProviderInv /\ [Next]_vars => [A]_vars
  BY ProviderGone DEF vars, kubernetes
<1>. QED  BY <1>1, TypeCorrect, ProviderKeys, PTL DEF Spec, RecordedProviderDeleted

-----------------------------------------------------------------------------
(* Applications *)

\* A step that allocates no uid: every copy of c is one c had, but for fields
\* other than uid, and its spec is one of c.
Recopied(c) ==
  \A q \in Copies(c)' : Exists(q) =>
    q.spec \in Specs[c] /\ \E o \in Copies(c) : o.uid = q.uid

LEMMA RecopiedApart ==
  ASSUME \A c \in CRs : UidsApart(c), \A c \in CRs : Recopied(c), UNCHANGED nextUid
  PROVE  \A c \in CRs : UidsApart(c)'
<1> SUFFICES ASSUME NEW c \in CRs, NEW q \in Copies(c)', Exists(q)
             PROVE  /\ q.uid < nextUid' /\ q.spec \in Specs[c]
                    /\ \A d \in CRs \ {c} : \A r \in Copies(d)' : r.uid # q.uid
  BY DEF UidsApart
<1>1. PICK o \in Copies(c) : o.uid = q.uid /\ Exists(o)
  BY DEF Recopied, Exists
<1>2. q.spec \in Specs[c]
  BY DEF Recopied
<1>3. ASSUME NEW d \in CRs \ {c}, NEW r \in Copies(d)'
      PROVE  r.uid # q.uid
  <2>1. CASE ~Exists(r)
    BY <2>1 DEF Exists
  <2>2. ASSUME Exists(r)
        PROVE  r.uid # q.uid
    <3>1. PICK p \in Copies(d) : p.uid = r.uid
      BY <2>2 DEF Recopied
    <3>. QED  BY <1>1, <3>1 DEF UidsApart
  <2>. QED  BY <2>1, <2>2
<1>. QED  BY <1>1, <1>2, <1>3 DEF UidsApart

\* No step but an edit changes a spec, and an edit chooses one of the user's.
LEMMA SpecsKept ==
  ASSUME TypeOK, CleanupInv, NEW c \in CRs, Exists(cr'[c]),
         cr'[c].uid = cr[c].uid, cr'[c].spec = cr[c].spec \/ cr'[c].spec \in Specs[c]
  PROVE  cr'[c].spec \in Specs[c]
BY DEF CleanupInv, UidsApart, Copies, Exists

LEMMA CallsCR ==
  ASSUME TypeOK, NEW c \in CRs, Calls(c)
  PROVE  \/ /\ cr'[c].uid = cr[c].uid /\ cr'[c].spec = cr[c].spec
            /\ cr[c].fin => cr'[c].fin
         \/ RemoveFinalizer(c) /\ Current(c) /\ cr'[c] = NoCR
<1>1. CASE Syncs(c) \/ Deletes(c)
  BY <1>1, SyncsMove, DeletesMove DEF Moves
<1>2. CASE PublishStatus(c) \/ ReportFailure(c)
  BY <1>2, StatusKeeps DEF KeepsButStatus
<1>3. CASE AddFinalizer(c)
  <2>1. Current(c) => cr[c] \in Object
    BY <1>3, InProgress DEF AddFinalizer, Current, At
  <2>. QED  BY <1>3, <2>1 DEF AddFinalizer, TypeOK, Object
<1>4. CASE RemoveFinalizer(c)
  BY <1>4 DEF RemoveFinalizer, TypeOK
<1>. QED  BY <1>1, <1>2, <1>3, <1>4 DEF Calls, Syncs, Deletes

\* The copy of a reconcile after a call.
LEMMA CallsApp ==
  ASSUME TypeOK, NEW c \in CRs, Calls(c)
  PROVE  App(c)' = App(c) \/ work'[c] = Idle
<1>. USE DEF At
<1>1. CASE Kept(c)
  BY <1>1 DEF Kept, MovesOn, App
<1>2. CASE FindProvider(c)
  BY <1>2, GotoWithMovesOn, GotoMovesOn, FailMovesOn DEF FindProvider, MovesOn, App
<1>3. CASE CreateProvider(c)
  BY <1>3, GotoWithMovesOn, FailMovesOn DEF CreateProvider, MovesOn, App
<1>. QED  BY <1>1, <1>2, <1>3, CallsKept

LEMMA CallsApart ==
  ASSUME TypeOK, CleanupInv, NEW c \in CRs, Calls(c)
  PROVE  \A d \in CRs : UidsApart(d)'
<1>1. NoCR.uid = 0 /\ Idle.app = NoCR
  BY DEF NoCR, Idle
<1>2. UNCHANGED <<cache, nextUid>>
  BY CallsOthers
<1>3. ASSUME NEW d \in CRs \ {c}
      PROVE  Recopied(d)
  <2>1. Copies(d)' = Copies(d)
    BY <1>2, CallsOthers DEF Copies, App
  <2>. QED  BY <2>1 DEF Recopied, CleanupInv, UidsApart
<1>4. Recopied(c)
  <2>1. ASSUME Exists(cr'[c])
        PROVE  cr'[c].uid = cr[c].uid /\ cr'[c].spec \in Specs[c]
    BY <1>1, <2>1, CallsCR, SpecsKept DEF Exists
  <2>2. App(c)' = App(c) \/ App(c)' = NoCR
    BY <1>1, CallsApp DEF App
  <2>. QED  BY <1>1, <1>2, <2>1, <2>2 DEF Recopied, Copies, CleanupInv, UidsApart, Exists
<1>. QED  BY <1>2, <1>3, <1>4, RecopiedApart DEF CleanupInv

LEMMA DestroyKeepsUids ==
  ASSUME TypeOK, NEW id, DestroyProvider(id), NEW s \in Slugs
  PROVE  applications'[s].uid = applications[s].uid
BY DEF TypeOK, DestroyProvider, Application

\* What a call does to an application.
LEMMA AppWrites ==
  ASSUME TypeOK, NEW c \in CRs, Calls(c), NEW s \in Slugs
  PROVE  \/ applications'[s].uid \in {applications[s].uid, 0}
         \/ /\ work[c].pc \in Syncing /\ s = App(c).spec.slug
            /\ applications'[s].uid = App(c).uid
<1>1. CASE CreateApp(c) \/ UpdateApp(c)
  BY <1>1 DEF CreateApp, UpdateApp, WriteApp, At, Syncing, TypeOK
<1>2. CASE DeleteApp(c)
  BY <1>2 DEF DeleteApp, TypeOK, NoApplication
<1>3. CASE DeleteProvider(c)
  BY <1>3, DestroyKeepsUids DEF DeleteProvider
<1>4. ~CreateApp(c) /\ ~UpdateApp(c) /\ ~DeleteApp(c) /\ ~DeleteProvider(c)
        => UNCHANGED applications
  BY DEF Calls, AddFinalizer, FindProvider, CreateProvider, UpdateProvider, FindApp,
     DeleteStaleSecret, GetURLs, WriteSecret, PublishStatus, ReportFailure, FindAppToDelete,
     FindProviderToDelete, RemoveFinalizer, authentik
<1>. QED  BY <1>1, <1>2, <1>3, <1>4

LEMMA CallsOwned ==
  ASSUME FixedSlugs, TypeOK, IndInv, CleanupInv, NEW c \in CRs, Calls(c), NEW s \in Slugs
  PROVE  Owned(s)'
<1> SUFFICES ASSUME Exists(applications'[s])
             PROVE  \E d \in CRs : /\ cr'[d].fin /\ cr'[d].uid = applications'[s].uid
                                   /\ cr'[d].spec.slug = s
  BY DEF Owned
<1>1. ASSUME applications'[s].uid = applications[s].uid
      PROVE  \E d \in CRs : /\ cr'[d].fin /\ cr'[d].uid = applications'[s].uid
                            /\ cr'[d].spec.slug = s
  <2>1. PICK d \in CRs :
          cr[d].fin /\ cr[d].uid = applications[s].uid /\ cr[d].spec.slug = s
    BY <1>1 DEF CleanupInv, Owned, Exists
  <2>2. d = c => ~(RemoveFinalizer(c) /\ Current(c))
    BY <2>1 DEF CleanupInv, AppDeletedFirst, RemoveFinalizer, Current, At
  <2>3. cr'[d].uid = cr[d].uid /\ cr'[d].spec = cr[d].spec /\ cr'[d].fin
    BY <2>1, <2>2, CallsCR, CallsOthers
  <2>. QED  BY <1>1, <2>1, <2>3
<1>2. ASSUME work[c].pc \in Syncing, s = App(c).spec.slug, applications'[s].uid = App(c).uid
      PROVE  /\ cr'[c].fin /\ cr'[c].uid = applications'[s].uid
             /\ cr'[c].spec.slug = s
  <2>1. cr[c].fin /\ cr[c].uid = App(c).uid
    BY <1>2 DEF IndInv, KeyInv, Guarded
  <2>2. ~RemoveFinalizer(c)
    BY <1>2 DEF RemoveFinalizer, At, Syncing
  <2>3. cr'[c].uid = cr[c].uid /\ cr'[c].spec = cr[c].spec /\ cr'[c].fin
    BY <2>1, <2>2, CallsCR
  <2>4. Exists(cr[c]) /\ Exists(App(c))
    BY <1>2, <2>1 DEF Exists
  <2>5. cr[c].spec \in Specs[c] /\ App(c).spec \in Specs[c]
    BY <2>4 DEF CleanupInv, UidsApart, Copies
  <2>. QED  BY <1>2, <2>1, <2>3, <2>5 DEF FixedSlugs
<1>. QED  BY <1>1, <1>2, AppWrites DEF Exists

LEMMA CallsDeletedFirst ==
  ASSUME TypeOK, CleanupInv, NEW c \in CRs, Calls(c), NEW d \in CRs
  PROVE  AppDeletedFirst(d)'
<1>. DEFINE phase == {"findProviderToDelete", "deleteProvider", "removeFinalizer"}
<1> SUFFICES ASSUME work'[d].pc \in phase
             PROVE  applications'[App(d)'.spec.slug].uid # App(d)'.uid
  BY DEF AppDeletedFirst
<1>0. Idle.pc = "idle"
  BY DEF Idle
<1>1. CASE d # c
  <2>1. App(d)' = App(d) /\ work[d].pc \in phase
    BY <1>1, CallsOthers DEF App
  <2>2. App(d).uid # 0 /\ App(d).spec.slug \in Slugs
    BY <2>1, InProgress DEF At, CRSpec
  <2>3. applications[App(d).spec.slug].uid # App(d).uid
    BY <2>1 DEF CleanupInv, AppDeletedFirst
  <2>4. App(c).uid # App(d).uid
    BY <1>1, <2>2 DEF CleanupInv, UidsApart, Copies, Exists
  <2>. QED  BY <2>1, <2>2, <2>3, <2>4, AppWrites
<1>2. CASE d = c
  <2>. USE GotoMovesOn, FailMovesOn, ReturnIdles, FailDeletionMovesOn DEF At
  <2>1. ~Syncs(c)
    BY <1>0, <1>2, SyncsMove DEF Moves, Syncing
  <2>2. Deletes(c)
    BY <1>0, <1>2, <2>1 DEF Calls, Syncs, Deletes, AddFinalizer, PublishStatus, ReportFailure,
       RemoveFinalizer
  <2>3. App(c)' = App(c) /\ work[c].pc \in Deleting
    BY <1>0, <1>2, <2>2, CallsApp, DeletesMove DEF Moves
  <2>4. App(c).uid # 0 /\ App(c).spec.slug \in Slugs
    BY <2>3, InProgress DEF CRSpec, Deleting
  <2>5. ASSUME FindAppToDelete(c)
        PROVE  applications'[App(c).spec.slug].uid = 0
    BY <1>0, <1>2, <2>5 DEF FindAppToDelete, authentik, Exists
  <2>6. ASSUME DeleteApp(c)
        PROVE  applications'[App(c).spec.slug].uid = 0
    BY <1>0, <1>2, <2>4, <2>6 DEF DeleteApp, TypeOK, NoApplication
  <2>7. ASSUME FindProviderToDelete(c) \/ DeleteProvider(c)
        PROVE  applications'[App(c).spec.slug].uid # App(c).uid
    BY <2>4, <2>7, DestroyKeepsUids DEF FindProviderToDelete, DeleteProvider, authentik,
       CleanupInv, AppDeletedFirst
  <2>. QED  BY <1>2, <2>2, <2>3, <2>4, <2>5, <2>6, <2>7 DEF Deletes
<1>. QED  BY <1>1, <1>2

\* What a reconcile in progress becomes in a step that is not one of its calls.
LEMMA OthersWork ==
  ASSUME TypeOK, NEW c \in CRs,
         (\E d \in CRs : Begins(d)) \/ Manager \/ Environment \/ UNCHANGED vars
  PROVE  \/ work'[c] = work[c]
         \/ /\ App(c)' = cache[c] \/ App(c)' = NoCR
            /\ work'[c].pc \notin {"findProviderToDelete", "deleteProvider", "removeFinalizer"}
<1>1. Idle.pc = "idle" /\ Idle.app = NoCR
  BY DEF Idle
<1>2. ASSUME NEW d \in CRs, Begins(d)
      PROVE  \/ work'[c] = work[c]
             \/ /\ App(c)' = cache[c]
                /\ work'[c].pc \notin {"findProviderToDelete", "deleteProvider", "removeFinalizer"}
  BY <1>2, BeginsWork DEF App
<1>3. Manager \/ Environment \/ UNCHANGED vars => UNCHANGED work \/ work'[c] = Idle
  BY DEF Manager, WatchCR, TimerFires, WatchSecret, Restart, Environment,
     CreateCR, EditCR, DeleteCR, CollectSecret, Drift, DriftSecret, DriftApp, DriftProvider, vars
<1>. QED  BY <1>1, <1>2, <1>3 DEF App

\* The resource after a step that is not a call.
LEMMA OthersCR ==
  ASSUME TypeOK, NEW c \in CRs,
         (\E d \in CRs : Begins(d)) \/ Manager \/ Environment \/ UNCHANGED vars
  PROVE  \/ /\ cr'[c].uid = cr[c].uid /\ cr'[c].fin = cr[c].fin
            /\ cr'[c].spec = cr[c].spec \/ (Exists(cr[c]) /\ cr'[c].spec \in Specs[c])
         \/ ~cr[c].fin /\ cr'[c] = NoCR
         \/ ~cr[c].fin /\ CreateCR(c) /\ cr'[c].uid = nextUid /\ cr'[c].spec \in Specs[c]
<1>0. cr \in [CRs -> CR]
  BY DEF TypeOK
<1>1. CASE UNCHANGED cr
  BY <1>1
<1>2. ASSUME NEW d \in CRs, CreateCR(d) \/ EditCR(d) \/ DeleteCR(d), d # c
      PROVE  cr'[c] = cr[c]
  BY <1>0, <1>2 DEF CreateCR, EditCR, DeleteCR
<1>3. ASSUME CreateCR(c)
      PROVE  ~cr[c].fin /\ cr'[c].uid = nextUid /\ cr'[c].spec \in Specs[c]
  <2>1. PICK spec \in Specs[c] :
          cr' = [cr EXCEPT ![c] = [NoCR EXCEPT !.uid = nextUid, !.gen = 1, !.spec = spec]]
    BY <1>3 DEF CreateCR
  <2>2. cr'[c].uid = nextUid /\ cr'[c].spec = spec
    BY <1>0, <2>1 DEF NoCR
  <2>. QED  BY <1>0, <1>3, <2>2, NoCRFields DEF CreateCR, Exists
<1>4. ASSUME EditCR(c)
      PROVE  /\ cr'[c].uid = cr[c].uid /\ cr'[c].fin = cr[c].fin
             /\ Exists(cr[c]) /\ cr'[c].spec \in Specs[c]
  <2>1. cr[c] \in Object
    BY <1>0, <1>4, Present DEF EditCR
  <2>2. PICK spec \in Specs[c] : cr' = [cr EXCEPT ![c].spec = spec, ![c].gen = @ + 1]
    BY <1>4 DEF EditCR
  <2>. QED  BY <1>0, <1>4, <2>1, <2>2 DEF EditCR, Object
<1>5. ASSUME DeleteCR(c)
      PROVE  \/ /\ cr'[c].uid = cr[c].uid /\ cr'[c].fin = cr[c].fin
                /\ cr'[c].spec = cr[c].spec
             \/ ~cr[c].fin /\ cr'[c] = NoCR
  <2>1. cr[c] \in Object
    BY <1>0, <1>5, Present DEF DeleteCR
  <2>2. cr'[c] = IF cr[c].fin THEN [cr[c] EXCEPT !.del = TRUE, !.gen = @ + 1] ELSE NoCR
    BY <1>0, <1>5 DEF DeleteCR
  <2>. QED  BY <2>1, <2>2 DEF Object
<1>6. UNCHANGED cr \/ \E d \in CRs : CreateCR(d) \/ EditCR(d) \/ DeleteCR(d)
  BY BeginsWork DEF Manager, WatchCR, TimerFires, WatchSecret, Restart, Environment, CollectSecret,
     Drift, DriftSecret, DriftApp, DriftProvider, kubernetes, vars
<1>. QED  BY <1>1, <1>2, <1>3, <1>4, <1>5, <1>6

LEMMA CopyTypes ==
  ASSUME TypeOK, NEW c \in CRs
  PROVE  Copies(c) \subseteq CR
<1>1. work[c].app \in CR
  <2>1. Idle.app = NoCR
    BY DEF Idle
  <2>2. CASE work[c] = Idle
    BY <2>1, <2>2, Zenon DEF CR
  <2>3. CASE work[c] \in [pc : Steps, app : Object, pid : Nat, why : Reasons]
    BY <2>3 DEF CR
  <2>. QED  BY <2>2, <2>3 DEF TypeOK, Work
<1>. QED  BY <1>1 DEF Copies, App, TypeOK

LEMMA OthersCleanupInv ==
  ASSUME FixedSlugs, TypeOK, IndInv, CleanupInv,
         (\E d \in CRs : Begins(d)) \/ Manager \/ Environment \/ UNCHANGED vars
  PROVE  CleanupInv'
<1>0. NoCR.uid = 0
  BY DEF NoCR
<1>1. ASSUME NEW s \in Slugs
      PROVE  applications'[s].uid \in {applications[s].uid, 0}
  <2>1. DriftProvider => applications'[s].uid = applications[s].uid
    BY DestroyKeepsUids DEF DriftProvider
  <2>2. \A t \in Slugs : DriftApp(t) => applications'[s] \in {applications[s], NoApplication}
    BY DEF DriftApp, TypeOK
  <2>3. \/ UNCHANGED applications
        \/ DriftProvider \/ \E t \in Slugs : DriftApp(t)
    BY BeginsWork DEF Manager, WatchCR, TimerFires, WatchSecret, Restart, Environment,
       CreateCR, EditCR, DeleteCR, CollectSecret, DriftSecret, authentik, vars
  <2>. QED  BY <2>1, <2>2, <2>3 DEF NoApplication
<1>2. ASSUME NEW s \in Slugs, Exists(applications'[s])
      PROVE  \E d \in CRs : /\ cr'[d].fin /\ cr'[d].uid = applications'[s].uid
                            /\ cr'[d].spec.slug = s
  <2>1. applications'[s].uid = applications[s].uid
    BY <1>1, <1>2 DEF Exists
  <2>2. PICK d \in CRs :
          cr[d].fin /\ cr[d].uid = applications[s].uid /\ cr[d].spec.slug = s
    BY <1>2, <2>1 DEF CleanupInv, Owned, Exists
  <2>3. cr[d].spec \in Specs[d]
    BY <1>2, <2>1, <2>2 DEF CleanupInv, UidsApart, Copies, Exists
  <2>4. cr'[d].uid = cr[d].uid /\ cr'[d].fin /\ cr'[d].spec.slug = s
    BY <2>2, <2>3, OthersCR DEF FixedSlugs
  <2>. QED  BY <2>1, <2>2, <2>4
<1>3. ASSUME NEW c \in CRs
      PROVE  AppDeletedFirst(c)'
  <2>1. ASSUME work'[c] = work[c],
               work[c].pc \in {"findProviderToDelete", "deleteProvider", "removeFinalizer"}
        PROVE  applications'[App(c)'.spec.slug].uid # App(c)'.uid
    <3>1. App(c)' = App(c)
      BY <2>1 DEF App
    <3>2. App(c).uid # 0 /\ App(c).spec.slug \in Slugs
      BY <2>1, InProgress DEF At, CRSpec
    <3>. QED  BY <1>1, <2>1, <3>1, <3>2 DEF CleanupInv, AppDeletedFirst
  <2>. QED  BY <2>1, OthersWork DEF AppDeletedFirst
<1>4. \A c \in CRs : UidsApart(c)'
  <2>1. \A c \in CRs : cache'[c] = cache[c] \/ cache'[c] = cr[c]
    BY BeginsWork DEF Manager, WatchCR, TimerFires, WatchSecret, Restart, Environment, CreateCR,
       EditCR, DeleteCR, CollectSecret, Drift, DriftSecret, DriftApp, DriftProvider, kubernetes,
       vars, TypeOK
  <2>2. \A c \in CRs : App(c)' \in {App(c), cache[c], NoCR}
    BY OthersWork DEF App
  <2>3. ASSUME ~(\E c \in CRs : CreateCR(c))
        PROVE  \A c \in CRs : UidsApart(c)'
    <3>1. UNCHANGED nextUid
      BY <2>3, BeginsWork DEF Manager, WatchCR, TimerFires, WatchSecret, Restart, Environment,
         EditCR, DeleteCR, CollectSecret, Drift, DriftSecret, DriftApp, DriftProvider,
         kubernetes, vars
    <3>2. ASSUME NEW c \in CRs
          PROVE  Recopied(c)
      <4>1. ASSUME Exists(cr'[c])
            PROVE  cr'[c].uid = cr[c].uid /\ cr'[c].spec \in Specs[c]
        BY <1>0, <2>3, <4>1, OthersCR DEF CleanupInv, UidsApart, Copies, Exists
      <4>. QED  BY <1>0, <2>1, <2>2, <4>1 DEF Recopied, Copies, CleanupInv, UidsApart, Exists
    <3>. QED  BY <3>1, <3>2, RecopiedApart DEF CleanupInv
  <2>4. ASSUME NEW c \in CRs, CreateCR(c)
        PROVE  \A d \in CRs : UidsApart(d)'
    <3>1. nextUid' = nextUid + 1 /\ nextUid \in Nat /\ 0 < nextUid
      BY <2>4 DEF CreateCR, TypeOK
    <3>2. cr[c] = NoCR
      BY <2>4, NoCRFields DEF CreateCR, Exists, TypeOK
    <3>3. cr'[c].uid = nextUid /\ cr'[c].spec \in Specs[c]
      <4>1. PICK spec \in Specs[c] :
              cr' = [cr EXCEPT ![c] = [NoCR EXCEPT !.uid = nextUid, !.gen = 1, !.spec = spec]]
        BY <2>4 DEF CreateCR
      <4>. QED  BY <4>1 DEF NoCR, TypeOK
    <3>4. \A d \in CRs : \A q \in Copies(d)' : q \in Copies(d) \/ (d = c /\ q = cr'[c])
      BY <2>4 DEF CreateCR, Copies, App, TypeOK
    <3>5. \A d \in CRs : \A q \in Copies(d) : q.uid \in Nat /\ q.uid < nextUid
      <4> SUFFICES ASSUME NEW d \in CRs, NEW q \in Copies(d)
                   PROVE  q.uid \in Nat /\ q.uid < nextUid
        OBVIOUS
      <4>1. q.uid \in Nat
        BY CopyTypes, NoCRFields
      <4>2. Exists(q) => q.uid < nextUid
        BY DEF CleanupInv, UidsApart
      <4>. QED  BY <3>1, <4>1, <4>2 DEF Exists
    <3>. QED  BY <3>1, <3>3, <3>4, <3>5 DEF CleanupInv, UidsApart, Exists
  <2>. QED  BY <2>3, <2>4
<1>. QED  BY <1>2, <1>3, <1>4 DEF CleanupInv, Owned

LEMMA CleanupStep ==
  ASSUME FixedSlugs
  PROVE  TypeOK /\ IndInv /\ CleanupInv /\ [Next]_vars => CleanupInv'
<1> SUFFICES ASSUME TypeOK, IndInv, CleanupInv, [Next]_vars
             PROVE  CleanupInv'
  OBVIOUS
<1>1. ASSUME NEW c \in CRs, Calls(c)
      PROVE  CleanupInv'
  BY <1>1, CallsApart, CallsOwned, CallsDeletedFirst DEF CleanupInv
<1>. QED  BY <1>1, NextCases, OthersCleanupInv

LEMMA InitCleanupInv ==
  Init => CleanupInv
<1>1. ASSUME Init, NEW c \in CRs
      PROVE  cr[c] = NoCR /\ cache[c] = NoCR /\ work[c] = Idle
  BY <1>1 DEF Init
<1>2. Init => \A s \in Slugs : ~Exists(applications[s])
  BY DEF Init, NoApplication, Exists
<1>3. ASSUME Init, NEW c \in CRs
      PROVE  UidsApart(c) /\ AppDeletedFirst(c)
  BY <1>1, <1>3, NoCRFields DEF UidsApart, AppDeletedFirst, Copies, App, Exists, Idle
<1>. QED  BY <1>2, <1>3 DEF CleanupInv, Owned

\* When no user edits a slug, uids tell the resources apart in every copy, and the
\* application of a resource has its slug until the deletion has removed it.
THEOREM CleanupInvariant ==
  ASSUME FixedSlugs
  PROVE  Spec => []CleanupInv
<1>1. Init => CleanupInv
  BY InitCleanupInv
<1>2. TypeOK /\ IndInv /\ CleanupInv /\ [Next]_vars => CleanupInv'
  BY CleanupStep
<1>. QED  BY <1>1, <1>2, TypeCorrect, Inductive, PTL DEF Spec

\* Then every application in Authentik has a resource that carries the finalizer
\* and will delete it: for any number of resources of both kinds, sharing slugs or
\* not, under any faults, restarts and deletions by hand.
THEOREM NoOrphans ==
  ASSUME FixedSlugs
  PROVE  Spec => []NoOrphanApplications
<1>1. CleanupInv => NoOrphanApplications
  BY DEF CleanupInv, Owned, NoOrphanApplications
<1>. QED  BY <1>1, CleanupInvariant, PTL

=============================================================================
