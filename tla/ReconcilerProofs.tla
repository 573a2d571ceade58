-------------------------- MODULE ReconcilerProofs --------------------------
(***************************************************************************)
(* Proofs about Reconciler for every set of resources, every set of specs  *)
(* and every bound: type correctness, the guard of the finalizer, that no  *)
(* resource is forgotten, and that a secret stays with its writer.         *)
(***************************************************************************)
EXTENDS ReconcilerProperties, TLAPS

-----------------------------------------------------------------------------
(* Types *)

LEMMA DataTypes ==
  /\ NoCR \in CR /\ NoSecret \in Secret /\ NoApplication \in Application
  /\ Idle \in Work /\ NoStatus \in Status
BY DEF CR, NoStatus, Status, Reasons, NoSecret, Secret,
       NoApplication, Application, Idle, Work, Templates

\* What is not the absent object has all its fields.
LEMMA Present ==
  ASSUME NEW o \in CR, Exists(o) \/ o.fin \/ o.del
  PROVE  o \in Object
BY DEF CR, NoCR, Exists

LEMMA Busy ==
  ASSUME NEW w \in Work, w.pc # "idle"
  PROVE  w \in [pc : Steps, app : Object, pid : Nat, why : Reasons]
<1>1. Idle.pc = "idle"
  BY DEF Idle
<1>2. w # Idle
  BY <1>1, Zenon
<1>. QED  BY <1>2, Zenon DEF Work

\* The ways a reconcile moves on keep the types of the controller's variables.
ControlTypes ==
  /\ work \in [CRs -> Work]
  /\ queue \subseteq CRs /\ timers \subseteq CRs

LEMMA GotoTypes ==
  ASSUME ControlTypes, NEW c \in CRs, ~At(c, "idle"),
         NEW step \in Steps, NEW pid \in Nat,
         Goto(c, step) \/ GotoWith(c, step, pid)
  PROVE  ControlTypes'
<1>1. work[c] \in [pc : Steps, app : Object, pid : Nat, why : Reasons]
  BY Busy DEF ControlTypes, At
<1>. QED  BY <1>1 DEF ControlTypes, Goto, GotoWith, Work

LEMMA ReturnTypes ==
  ASSUME ControlTypes, NEW c \in CRs, Return(c) \/ ReturnRequeue(c)
  PROVE  ControlTypes'
BY DataTypes DEF ControlTypes, Return, ReturnRequeue

LEMMA FailTypes ==
  ASSUME ControlTypes, NEW c \in CRs, ~At(c, "idle"), NEW why \in Reasons, Fail(c, why)
  PROVE  ControlTypes'
<1>1. work[c] \in [pc : Steps, app : Object, pid : Nat, why : Reasons]
  BY Busy DEF ControlTypes, At
<1>. QED  BY <1>1 DEF ControlTypes, Fail, Work, Steps

LEMMA FailDeletionTypes ==
  ASSUME ControlTypes, NEW c \in CRs, ~At(c, "idle"), FailDeletion(c)
  PROVE  ControlTypes'
BY ReturnTypes, FailTypes DEF FailDeletion, Reasons

SpentType == spent \in [edits : Nat, faults : Nat, drifts : Nat, crashes : Nat]

LEMMA FaultTypes ==
  ASSUME SpentType, NoFault \/ Fault
  PROVE  SpentType'
BY DEF SpentType, NoFault, Fault

KubernetesTypes ==
  /\ cr \in [CRs -> CR] /\ cache \in [CRs -> CR] /\ nextUid \in Nat \ {0}
  /\ secrets \in [SecretNames -> Secret] /\ secretCache \in [SecretNames -> Secret]

AuthentikTypes ==
  /\ providers \subseteq Provider /\ nextPid \in Nat \ {0}
  /\ applications \in [Slugs -> Application]

LEMMA TypeParts ==
  TypeOK <=> KubernetesTypes /\ AuthentikTypes /\ ControlTypes /\ SpentType
BY DEF TypeOK, KubernetesTypes, AuthentikTypes, ControlTypes, SpentType

\* The calls of a reconcile in progress.
Calls(c) ==
  \/ AddFinalizer(c)
  \/ FindProvider(c) \/ CreateProvider(c) \/ UpdateProvider(c)
  \/ FindApp(c) \/ CreateApp(c) \/ UpdateApp(c)
  \/ DeleteStaleSecret(c) \/ GetURLs(c) \/ WriteSecret(c)
  \/ PublishStatus(c) \/ ReportFailure(c)
  \/ FindAppToDelete(c) \/ DeleteApp(c)
  \/ FindProviderToDelete(c) \/ DeleteProvider(c) \/ RemoveFinalizer(c)

LEMMA InitTypes == Init => TypeOK
BY DataTypes DEF Init, TypeOK

\* Taking a key from the queue.
LEMMA BeginsTypes ==
  ASSUME TypeOK, NEW c \in CRs, Begins(c)
  PROVE  TypeOK'
<1>1. ASSUME NEW step \in Steps, NEW why \in Reasons, cache[c] \in Object,
             Dequeue(c), Begin(c, step, why)
      PROVE  ControlTypes'
  BY <1>1 DEF TypeOK, Dequeue, Begin, ControlTypes, Work
<1>2. Dequeue(c) /\ UNCHANGED work => ControlTypes'
  BY DEF TypeOK, Dequeue, ControlTypes
<1>3. Exists(cache[c]) \/ cache[c].fin \/ cache[c].del => cache[c] \in Object
  BY Present DEF TypeOK
<1>4. ControlTypes'
  BY <1>1, <1>2, <1>3 DEF Begins, Ignore, BeginDeletion, BeginFinalizer, RejectTemplate,
     BeginSync, Steps, Syncing, Deleting, Reasons
<1>5. Dequeue(c)
  BY DEF Begins, Ignore, BeginDeletion, BeginFinalizer, RejectTemplate, BeginSync
<1>6. KubernetesTypes' /\ AuthentikTypes' /\ SpentType'
  BY <1>5 DEF TypeOK, Dequeue, kubernetes, authentik, KubernetesTypes, AuthentikTypes, SpentType
<1>. QED  BY <1>4, <1>6 DEF TypeOK, KubernetesTypes, AuthentikTypes, ControlTypes, SpentType

\* One call of a reconcile in progress: first what it works on.
LEMMA InProgress ==
  ASSUME TypeOK, NEW c \in CRs, ~At(c, "idle")
  PROVE  /\ App(c) \in Object /\ App(c).uid \in Nat \ {0} /\ App(c).gen \in Nat
         /\ App(c).spec \in CRSpec /\ App(c).status \in Status
         /\ work[c].pid \in Nat /\ work[c].why \in Reasons
BY Busy DEF TypeOK, At, App, Object

\* Every call ends in one of the ways of the section above.
LEMMA CallsControlTypes ==
  ASSUME TypeOK, NEW c \in CRs, Calls(c)
  PROVE  ControlTypes'
<1>. USE DEF At
<1>0. ControlTypes
  BY TypeParts
<1>1. CASE AddFinalizer(c)
  BY <1>0, <1>1, ReturnTypes DEF AddFinalizer
<1>2. CASE FindProvider(c)
  <2>1. \A p \in providers : p.id \in Nat
    BY DEF TypeOK, Provider
  <2>. QED  BY <1>0, <1>2, <2>1, GotoTypes, FailTypes DEF FindProvider, Steps, Syncing, Reasons
<1>3. CASE CreateProvider(c)
  BY <1>0, <1>3, GotoTypes, FailTypes DEF CreateProvider, Steps, Syncing, Reasons, TypeOK
<1>4. CASE UpdateProvider(c)
  BY <1>0, <1>4, GotoTypes, FailTypes DEF UpdateProvider, Steps, Syncing, Reasons
<1>5. CASE FindApp(c)
  BY <1>0, <1>5, GotoTypes, FailTypes DEF FindApp, Steps, Syncing, Reasons
<1>6. CASE CreateApp(c) \/ UpdateApp(c)
  <2>1. AfterApp(c) \in Steps
    BY DEF AfterApp, Steps, Syncing
  <2>2. PICK allowed \in BOOLEAN : WriteApp(c, allowed)
    BY <1>6 DEF CreateApp, UpdateApp, Exists
  <2>3. ~At(c, "idle")
    BY <1>6 DEF CreateApp, UpdateApp
  <2>. QED  BY <1>0, <2>1, <2>2, <2>3, GotoTypes, FailTypes DEF WriteApp, Reasons
<1>7. CASE DeleteStaleSecret(c)
  BY <1>0, <1>7, GotoTypes DEF DeleteStaleSecret, Steps, Syncing
<1>8. CASE GetURLs(c)
  BY <1>0, <1>8, GotoTypes, FailTypes DEF GetURLs, Steps, Syncing, Reasons
<1>9. CASE WriteSecret(c)
  BY <1>0, <1>9, GotoTypes, FailTypes DEF WriteSecret, Steps, Syncing, Reasons
<1>10. CASE PublishStatus(c)
  BY <1>0, <1>10, ReturnTypes DEF PublishStatus
<1>11. CASE ReportFailure(c)
  BY <1>0, <1>11, ReturnTypes DEF ReportFailure
<1>12. AfterAppDeleted(c) \in Steps
  BY DEF AfterAppDeleted, Steps, Deleting
<1>13. CASE FindAppToDelete(c)
  BY <1>0, <1>12, <1>13, GotoTypes, FailDeletionTypes DEF FindAppToDelete, Steps, Deleting
<1>14. CASE DeleteApp(c)
  BY <1>0, <1>12, <1>14, GotoTypes, FailDeletionTypes DEF DeleteApp
<1>15. CASE FindProviderToDelete(c)
  BY <1>0, <1>15, GotoTypes, FailDeletionTypes DEF FindProviderToDelete, Steps, Deleting
<1>16. CASE DeleteProvider(c)
  BY <1>0, <1>16, GotoTypes, FailDeletionTypes DEF DeleteProvider, Steps, Deleting
<1>17. CASE RemoveFinalizer(c)
  BY <1>0, <1>17, ReturnTypes DEF RemoveFinalizer
<1>. QED  BY <1>1, <1>2, <1>3, <1>4, <1>5, <1>6, <1>7, <1>8, <1>9, <1>10, <1>11,
             <1>13, <1>14, <1>15, <1>16, <1>17 DEF Calls

LEMMA CallsSpentType ==
  ASSUME TypeOK, NEW c \in CRs, Calls(c)
  PROVE  SpentType'
<1>1. NoFault \/ Fault
  BY DEF Calls, FailsUnless, AddFinalizer, FindProvider, CreateProvider, UpdateProvider,
     FindApp, CreateApp, UpdateApp, WriteApp, DeleteStaleSecret, GetURLs, WriteSecret,
     PublishStatus, ReportFailure, FindAppToDelete, DeleteApp, FindProviderToDelete,
     DeleteProvider, RemoveFinalizer
<1>. QED  BY <1>1, TypeParts, FaultTypes

\* The writes to the resource: the finalizer, the status, the removal.
LEMMA CallsCRTypes ==
  ASSUME TypeOK, NEW c \in CRs, Calls(c)
  PROVE  cr' \in [CRs -> CR]
<1>. USE DEF At
<1>0. cr \in [CRs -> CR]
  BY DEF TypeOK
<1>1. CASE AddFinalizer(c)
  <2>1. Current(c) => cr[c] \in Object
    BY <1>1, InProgress DEF AddFinalizer, Current
  <2>2. Current(c) => [cr[c] EXCEPT !.fin = TRUE] \in CR
    BY <2>1 DEF CR, Object
  <2>. QED  BY <1>0, <1>1, <2>2 DEF AddFinalizer
<1>2. CASE PublishStatus(c)
  <2>1. Current(c) => cr[c] \in Object
    BY <1>2, InProgress DEF PublishStatus, Current
  <2>2. App(c).spec \in CRSpec /\ App(c).gen \in Nat /\ work[c].pid \in Nat
    BY <1>2, InProgress DEF PublishStatus
  <2>3. [pid |-> work[c].pid, secret |-> App(c).spec.secret, gen |-> App(c).gen,
         reason |-> "Succeeded"] \in Status
    BY <2>2 DEF Status, Reasons, CRSpec
  <2>4. ASSUME NEW st \in Status, Current(c)
        PROVE  [cr[c] EXCEPT !.status = st] \in CR
    BY <2>1, <2>4 DEF CR, Object
  <2>5. Current(c) => [cr[c] EXCEPT !.status = [pid |-> work[c].pid,
          secret |-> App(c).spec.secret, gen |-> App(c).gen, reason |-> "Succeeded"]] \in CR
    BY <2>3, <2>4
  <2>. QED  BY <1>0, <1>2, <2>5 DEF PublishStatus
<1>3. CASE ReportFailure(c)
  <2>1. Current(c) => cr[c] \in Object
    BY <1>3, InProgress DEF ReportFailure, Current
  <2>2. work[c].why \in Reasons
    BY <1>3, InProgress DEF ReportFailure
  <2>3. Current(c) => [cr[c] EXCEPT !.status.reason = work[c].why] \in CR
    BY <2>1, <2>2 DEF CR, Object, Status
  <2>. QED  BY <1>0, <1>3, <2>3 DEF ReportFailure
<1>4. CASE RemoveFinalizer(c)
  BY <1>0, <1>4, DataTypes DEF RemoveFinalizer
<1>5. AddFinalizer(c) \/ PublishStatus(c) \/ ReportFailure(c) \/ RemoveFinalizer(c)
        \/ UNCHANGED cr
  BY DEF Calls, FindProvider, CreateProvider, UpdateProvider,
     FindApp, CreateApp, UpdateApp, WriteApp, DeleteStaleSecret, GetURLs, WriteSecret,
     FindAppToDelete, DeleteApp, FindProviderToDelete, DeleteProvider, kubernetes
<1>. QED  BY <1>0, <1>1, <1>2, <1>3, <1>4, <1>5

\* The writes to secrets.
LEMMA CallsSecretTypes ==
  ASSUME TypeOK, NEW c \in CRs, Calls(c)
  PROVE  secrets' \in [SecretNames -> Secret]
<1>. USE DEF At
<1>0. secrets \in [SecretNames -> Secret]
  BY DEF TypeOK
<1>1. CASE DeleteStaleSecret(c)
  BY <1>0, <1>1, DataTypes DEF DeleteStaleSecret
<1>2. CASE WriteSecret(c)
  <2>1. /\ App(c).spec \in CRSpec /\ App(c).uid \in Nat /\ work[c].pid \in Nat
    BY <1>2, InProgress DEF WriteSecret
  <2>2. secrets[App(c).spec.secret].labels \subseteq Labels
    BY <1>0, <2>1 DEF CRSpec, Secret
  <2>3. [key |-> c, uid |-> App(c).uid, data |-> RenderedData(c),
         labels |-> secrets[App(c).spec.secret].labels \cup {App(c).spec.labels}] \in Secret
    BY <2>1, <2>2 DEF Secret, RenderedData, Data, CRSpec
  <2>. QED  BY <1>0, <1>2, <2>3 DEF WriteSecret
<1>3. DeleteStaleSecret(c) \/ WriteSecret(c) \/ UNCHANGED secrets
  BY DEF Calls, AddFinalizer, FindProvider, CreateProvider, UpdateProvider,
     FindApp, CreateApp, UpdateApp, WriteApp, GetURLs, PublishStatus, ReportFailure,
     FindAppToDelete, DeleteApp, FindProviderToDelete, DeleteProvider, RemoveFinalizer,
     kubernetes
<1>. QED  BY <1>0, <1>1, <1>2, <1>3

LEMMA CallsKubernetesTypes ==
  ASSUME TypeOK, NEW c \in CRs, Calls(c)
  PROVE  KubernetesTypes'
<1>1. UNCHANGED <<cache, secretCache, nextUid>>
  BY DEF Calls, AddFinalizer, FindProvider, CreateProvider, UpdateProvider,
     FindApp, CreateApp, UpdateApp, WriteApp, DeleteStaleSecret, GetURLs, WriteSecret,
     PublishStatus, ReportFailure, FindAppToDelete, DeleteApp, FindProviderToDelete,
     DeleteProvider, RemoveFinalizer, kubernetes
<1>. QED  BY <1>1, CallsCRTypes, CallsSecretTypes DEF TypeOK, KubernetesTypes

\* The writes to Authentik.
LEMMA DestroyTypes ==
  ASSUME AuthentikTypes, NEW id, DestroyProvider(id)
  PROVE  providers' \subseteq Provider /\ applications' \in [Slugs -> Application]
BY DEF AuthentikTypes, DestroyProvider, Application

LEMMA CallsAuthentikTypes ==
  ASSUME TypeOK, NEW c \in CRs, Calls(c)
  PROVE  AuthentikTypes'
<1>. USE DEF At
<1>0. AuthentikTypes
  BY TypeParts
<1>1. CASE CreateProvider(c)
  <2>1. App(c).spec \in CRSpec /\ App(c).uid \in Nat /\ App(c).gen \in Nat
    BY <1>1, InProgress DEF CreateProvider
  <2>2. [id |-> nextPid, kind |-> Kind(c), slug |-> App(c).spec.slug,
         uid |-> App(c).uid, gen |-> App(c).gen] \in Provider
    BY <1>0, <2>1 DEF AuthentikTypes, Provider, Kind, CRSpec
  <2>. QED  BY <1>0, <1>1, <2>2 DEF CreateProvider, AuthentikTypes
<1>2. CASE UpdateProvider(c)
  <2>1. App(c).uid \in Nat /\ App(c).gen \in Nat
    BY <1>2, InProgress DEF UpdateProvider
  <2>2. \A p \in providers : [p EXCEPT !.uid = App(c).uid, !.gen = App(c).gen] \in Provider
    BY <1>0, <2>1 DEF AuthentikTypes, Provider
  <2>. QED  BY <1>0, <1>2, <2>2 DEF UpdateProvider, AuthentikTypes
<1>3. CASE CreateApp(c) \/ UpdateApp(c)
  <2>1. App(c).uid \in Nat /\ App(c).gen \in Nat /\ work[c].pid \in Nat
    BY <1>3, InProgress DEF CreateApp, UpdateApp
  <2>2. [provider |-> work[c].pid, uid |-> App(c).uid, gen |-> App(c).gen] \in Application
    BY <2>1 DEF Application
  <2>. QED  BY <1>0, <1>3, <2>2 DEF CreateApp, UpdateApp, WriteApp, AuthentikTypes
<1>4. CASE DeleteApp(c)
  BY <1>0, <1>4, DataTypes DEF DeleteApp, AuthentikTypes
<1>5. CASE DeleteProvider(c)
  BY <1>0, <1>5, DestroyTypes DEF DeleteProvider, AuthentikTypes
<1>6. CreateProvider(c) \/ UpdateProvider(c) \/ CreateApp(c) \/ UpdateApp(c)
        \/ DeleteApp(c) \/ DeleteProvider(c) \/ UNCHANGED authentik
  BY DEF Calls, AddFinalizer, FindProvider, FindApp, DeleteStaleSecret, GetURLs, WriteSecret,
     PublishStatus, ReportFailure, FindAppToDelete, FindProviderToDelete, RemoveFinalizer
<1>7. UNCHANGED authentik => AuthentikTypes'
  BY <1>0 DEF authentik, AuthentikTypes
<1>. QED  BY <1>1, <1>2, <1>3, <1>4, <1>5, <1>6, <1>7

\* Informers, timers, restarts.
Manager ==
  \/ \E c \in CRs : WatchCR(c) \/ TimerFires(c)
  \/ \E n \in SecretNames : WatchSecret(n)
  \/ Restart

LEMMA ManagerTypes ==
  ASSUME TypeOK, Manager
  PROVE  TypeOK'
<1>1. ASSUME NEW c \in CRs, WatchCR(c)
      PROVE  TypeOK'
  BY <1>1 DEF TypeOK, WatchCR, authentik
<1>2. ASSUME NEW c \in CRs, TimerFires(c)
      PROVE  TypeOK'
  BY <1>2 DEF TypeOK, TimerFires, kubernetes, authentik
<1>3. ASSUME NEW n \in SecretNames, WatchSecret(n)
      PROVE  TypeOK'
  <2>1. secretCache[n].key \in CRs \cup {""} /\ secrets[n].key \in CRs \cup {""}
    BY DEF TypeOK, Secret
  <2>. QED  BY <1>3, <2>1 DEF TypeOK, WatchSecret, authentik
<1>4. CASE Restart
  <2>1. work' \in [CRs -> Work]
    BY <1>4, DataTypes DEF Restart
  <2>2. spent' \in [edits : Nat, faults : Nat, drifts : Nat, crashes : Nat]
    BY <1>4 DEF Restart, TypeOK
  <2>. QED  BY <1>4, <2>1, <2>2 DEF TypeOK, Restart, authentik
<1>. QED  BY <1>1, <1>2, <1>3, <1>4 DEF Manager

\* Users, administrators, garbage collection.
LEMMA EnvironmentTypes ==
  ASSUME TypeOK, Environment
  PROVE  TypeOK'
<1>1. ASSUME NEW c \in CRs, CreateCR(c)
      PROVE  TypeOK'
  <2>1. \A spec \in Specs[c] :
          [NoCR EXCEPT !.uid = nextUid, !.gen = 1, !.spec = spec] \in CR
    <3>1. Specs[c] \subseteq CRSpec /\ nextUid \in Nat \ {0}
      BY ConstantsAssumption DEF TypeOK
    <3>. QED  BY <3>1, DataTypes DEF CR, Object, NoCR
  <2>2. cr' \in [CRs -> CR]
    <3>1. PICK spec \in Specs[c] :
            cr' = [cr EXCEPT ![c] = [NoCR EXCEPT !.uid = nextUid, !.gen = 1, !.spec = spec]]
      BY <1>1 DEF CreateCR
    <3>. QED  BY <2>1, <3>1 DEF TypeOK
  <2>3. nextUid' \in Nat \ {0}
    BY <1>1 DEF TypeOK, CreateCR
  <2>. QED  BY <1>1, <2>2, <2>3 DEF TypeOK, CreateCR, authentik
<1>2. ASSUME NEW c \in CRs, EditCR(c)
      PROVE  TypeOK'
  <2>1. cr[c] \in Object
    BY <1>2, Present DEF EditCR, TypeOK
  <2>2. \A spec \in Specs[c] : [cr[c] EXCEPT !.spec = spec, !.gen = @ + 1] \in CR
    <3>1. Specs[c] \subseteq CRSpec
      BY ConstantsAssumption
    <3>2. cr[c].gen + 1 \in Nat
      BY <2>1 DEF Object
    <3>. QED  BY <2>1, <3>1, <3>2 DEF CR, Object
  <2>3. cr' \in [CRs -> CR]
    <3>1. PICK spec \in Specs[c] : cr' = [cr EXCEPT ![c].spec = spec, ![c].gen = @ + 1]
      BY <1>2 DEF EditCR
    <3>2. cr' = [cr EXCEPT ![c] = [cr[c] EXCEPT !.spec = spec, !.gen = @ + 1]]
      BY <3>1 DEF TypeOK
    <3>. QED  BY <2>2, <3>2 DEF TypeOK
  <2>4. spent' \in [edits : Nat, faults : Nat, drifts : Nat, crashes : Nat]
    BY <1>2 DEF EditCR, TypeOK
  <2>. QED  BY <1>2, <2>3, <2>4 DEF TypeOK, EditCR, authentik
<1>3. ASSUME NEW c \in CRs, DeleteCR(c)
      PROVE  TypeOK'
  <2>1. cr[c] \in Object
    BY <1>3, Present DEF DeleteCR, TypeOK
  <2>2. [cr[c] EXCEPT !.del = TRUE, !.gen = @ + 1] \in CR
    <3>1. cr[c].gen + 1 \in Nat
      BY <2>1 DEF Object
    <3>. QED  BY <2>1, <3>1 DEF CR, Object
  <2>3. cr' \in [CRs -> CR]
    BY <1>3, <2>2, DataTypes DEF DeleteCR, TypeOK
  <2>. QED  BY <1>3, <2>3 DEF TypeOK, DeleteCR, authentik
<1>4. ASSUME NEW n \in SecretNames, CollectSecret(n)
      PROVE  TypeOK'
  BY <1>4, DataTypes DEF TypeOK, CollectSecret, authentik
<1>5. Drift => SpentType'
  BY DEF Drift, TypeOK, SpentType
<1>6. ASSUME NEW n \in SecretNames, DriftSecret(n)
      PROVE  TypeOK'
  BY <1>5, <1>6, DataTypes DEF TypeOK, DriftSecret, Drift, SpentType
<1>7. ASSUME NEW s \in Slugs, DriftApp(s)
      PROVE  TypeOK'
  BY <1>5, <1>7, DataTypes DEF TypeOK, DriftApp, Drift, SpentType
<1>8. CASE DriftProvider
  <2>1. providers' \subseteq Provider /\ applications' \in [Slugs -> Application]
    BY <1>8, DestroyTypes, TypeParts DEF DriftProvider
  <2>. QED  BY <1>5, <1>8, <2>1 DEF TypeOK, DriftProvider, Drift, SpentType
<1>. QED  BY <1>1, <1>2, <1>3, <1>4, <1>6, <1>7, <1>8 DEF Environment

LEMMA NextCases ==
  Next => \/ \E c \in CRs : Begins(c) \/ Calls(c)
          \/ Manager
          \/ Environment
BY DEF Next, Reconcile, Calls, Manager

LEMMA TypeStep ==
  TypeOK /\ [Next]_vars => TypeOK'
<1> SUFFICES ASSUME TypeOK, [Next]_vars
             PROVE  TypeOK'
  OBVIOUS
<1>1. ASSUME NEW c \in CRs, Calls(c)
      PROVE  TypeOK'
  BY <1>1, CallsKubernetesTypes, CallsAuthentikTypes, CallsControlTypes, CallsSpentType
     DEF TypeOK, KubernetesTypes, AuthentikTypes, ControlTypes, SpentType
<1>2. CASE UNCHANGED vars
  BY <1>2 DEF vars, kubernetes, authentik, TypeOK
<1>. QED  BY <1>1, <1>2, BeginsTypes, ManagerTypes, EnvironmentTypes, NextCases

\* In every reachable state each variable has its type: the objects the API
\* server, the caches and Authentik hold, and every reconcile in progress.
THEOREM TypeCorrect == Spec => []TypeOK
<1>1. TypeOK /\ [Next]_vars => TypeOK'
  BY TypeStep
<1>. QED  BY <1>1, InitTypes, PTL DEF Spec

-----------------------------------------------------------------------------
(* The invariant *)

\* A step that is not about key c.
Elsewhere(c) ==
  /\ cr'[c] = cr[c] /\ cache'[c] = cache[c] /\ work'[c] = work[c]
  /\ (c \in queue \/ c \in timers) => c \in queue' \/ c \in timers'
  /\ c \in queue => c \in queue'
  /\ nextUid' >= nextUid

LEMMA ElsewhereKeyInv ==
  ASSUME TypeOK, nextUid' \in Nat, NEW c \in CRs, KeyInv(c), Elsewhere(c)
  PROVE  KeyInv(c)'
<1>1. cr[c].uid \in Nat /\ cache[c].uid \in Nat /\ App(c).uid \in Nat
  <2>1. \A o \in CR : o.uid \in Nat
    BY DEF CR, Object, NoCR
  <2>2. work[c].app \in CR
    <3>1. Idle.app = NoCR
      BY DEF Idle
    <3>2. CASE work[c] = Idle
      BY <3>1, <3>2, Zenon DEF CR
    <3>3. CASE work[c] \in [pc : Steps, app : Object, pid : Nat, why : Reasons]
      BY <3>3 DEF CR
    <3>. QED  BY <3>2, <3>3 DEF TypeOK, Work
  <2>. QED  BY <2>1, <2>2 DEF TypeOK, App
<1>2. UidsAllocated(c)'
  BY <1>1 DEF KeyInv, UidsAllocated, Elsewhere, App, TypeOK
<1>3. CacheLags(c)'
  BY DEF KeyInv, CacheLags, Elsewhere, App, At
<1>4. CopyIsUsable(c)'
  BY DEF KeyInv, CopyIsUsable, Elsewhere, App, At
<1>5. Guarded(c)' /\ DirtyIsQueued(c)' /\ Remembered(c)'
  BY DEF KeyInv, Guarded, DirtyIsQueued, Remembered, Elsewhere, App, At, Exists
<1>. QED  BY <1>2, <1>3, <1>4, <1>5 DEF KeyInv

\* A call of the reconcile of c that writes nothing to Kubernetes but secrets:
\* from one of the steps of a phase to another, to the report of an error, or out
\* of the reconcile with a delayed add.
Moves(c, phase) ==
  /\ work[c].pc \in phase
  /\ UNCHANGED <<cr, cache, nextUid, queue>>
  /\ \/ /\ work'[c].app = work[c].app /\ UNCHANGED timers
        /\ \/ work'[c].pc \in phase
           \/ work'[c].pc = "report" /\ work'[c].why # "TemplateError"
     \/ work'[c] = Idle /\ timers' = timers \cup {c}
  /\ \A d \in CRs \ {c} : work'[d] = work[d]

LEMMA GotoMoves ==
  ASSUME TypeOK, NEW c \in CRs, NEW phase, work[c].pc \in phase, ~At(c, "idle"),
         NEW step \in phase, NEW pid,
         Goto(c, step) \/ GotoWith(c, step, pid), UNCHANGED <<cr, cache, nextUid>>
  PROVE  Moves(c, phase)
<1>1. work \in [CRs -> Work]
  BY DEF TypeOK
<1>2. work[c] \in [pc : Steps, app : Object, pid : Nat, why : Reasons]
  BY <1>1, Busy DEF At
<1>3. work'[c].pc = step /\ work'[c].app = work[c].app
  BY <1>1, <1>2 DEF Goto, GotoWith
<1>4. \A d \in CRs \ {c} : work'[d] = work[d]
  BY <1>1 DEF Goto, GotoWith
<1>. QED  BY <1>3, <1>4 DEF Goto, GotoWith, Moves

LEMMA FailMoves ==
  ASSUME TypeOK, NEW c \in CRs, NEW phase, work[c].pc \in phase, ~At(c, "idle"),
         NEW why \in Reasons, why # "TemplateError", Fail(c, why) \/ ReturnRequeue(c),
         UNCHANGED <<cr, cache, nextUid>>
  PROVE  Moves(c, phase)
<1>1. work \in [CRs -> Work]
  BY DEF TypeOK
<1>2. work[c] \in [pc : Steps, app : Object, pid : Nat, why : Reasons]
  BY <1>1, Busy DEF At
<1>3. Fail(c, why) =>
        work'[c].pc = "report" /\ work'[c].app = work[c].app /\ work'[c].why = why
  BY <1>1, <1>2 DEF Fail
<1>5. ReturnRequeue(c) => work'[c] = Idle
  BY <1>1 DEF ReturnRequeue
<1>4. \A d \in CRs \ {c} : work'[d] = work[d]
  BY <1>1 DEF Fail, ReturnRequeue
<1>. QED  BY <1>3, <1>4, <1>5 DEF Fail, ReturnRequeue, Moves

LEMMA MovesIndInv ==
  ASSUME TypeOK, IndInv, NEW c \in CRs, Moves(c, Syncing) \/ Moves(c, Deleting)
  PROVE  IndInv'
<1>1. ASSUME NEW d \in CRs \ {c}
      PROVE  KeyInv(d)'
  <2>1. Elsewhere(d)
    BY DEF Moves, Elsewhere, TypeOK
  <2>. QED  BY <2>1, ElsewhereKeyInv DEF IndInv, TypeOK, Moves
<1>2. KeyInv(c)'
  <2>. USE DEF Moves, At, App
  <2>0. KeyInv(c) /\ ~At(c, "idle")
    BY DEF IndInv, Syncing, Deleting
  <2>1. CASE work'[c] = Idle /\ timers' = timers \cup {c}
    <3>1. Idle.pc = "idle" /\ Idle.app.uid = 0
      BY DEF Idle, NoCR
    <3>2. UidsAllocated(c)'
      BY <2>0, <2>1, <3>1 DEF KeyInv, UidsAllocated, TypeOK
    <3>. QED  BY <2>0, <2>1, <3>1, <3>2 DEF KeyInv, CacheLags, CopyIsUsable, Guarded,
              DirtyIsQueued, Remembered, Syncing, Deleting
  <2>2. CASE /\ work'[c].app = work[c].app /\ UNCHANGED timers
             /\ \/ work'[c].pc \in Syncing /\ work[c].pc \in Syncing
                \/ work'[c].pc \in Deleting /\ work[c].pc \in Deleting
                \/ work'[c].pc = "report" /\ work'[c].why # "TemplateError"
    <3>1. UidsAllocated(c)' /\ CacheLags(c)'
      BY <2>0, <2>2 DEF KeyInv, UidsAllocated, CacheLags
    <3>2. CopyIsUsable(c)'
      BY <2>0, <2>2 DEF KeyInv, CopyIsUsable, Syncing, Deleting
    <3>3. Guarded(c)' /\ DirtyIsQueued(c)' /\ Remembered(c)'
      BY <2>0, <2>2 DEF KeyInv, Guarded, DirtyIsQueued, Remembered, Exists, Syncing, Deleting
    <3>. QED  BY <3>1, <3>2, <3>3 DEF KeyInv
  <2>. QED  BY <2>1, <2>2
<1>. QED  BY <1>1, <1>2 DEF IndInv

Syncs(c) ==
  \/ FindProvider(c) \/ CreateProvider(c) \/ UpdateProvider(c)
  \/ FindApp(c) \/ CreateApp(c) \/ UpdateApp(c)
  \/ DeleteStaleSecret(c) \/ GetURLs(c) \/ WriteSecret(c)

Deletes(c) ==
  FindAppToDelete(c) \/ DeleteApp(c) \/ FindProviderToDelete(c) \/ DeleteProvider(c)

LEMMA SyncsMove ==
  ASSUME TypeOK, NEW c \in CRs, Syncs(c)
  PROVE  Moves(c, Syncing)
<1>. DEFINE goes == \E step \in Syncing : \E pid : Goto(c, step) \/ GotoWith(c, step, pid)
            fails == \E why \in {"AuthentikError", "SecretError"} : Fail(c, why)
<1>1. work[c].pc \in Syncing /\ ~At(c, "idle")
  BY DEF Syncs, FindProvider, CreateProvider, UpdateProvider, FindApp, CreateApp, UpdateApp,
     DeleteStaleSecret, GetURLs, WriteSecret, At, Syncing
<1>2. UNCHANGED <<cr, cache, nextUid>>
  BY DEF Syncs, FindProvider, CreateProvider, UpdateProvider, FindApp, CreateApp, UpdateApp,
     WriteApp, DeleteStaleSecret, GetURLs, WriteSecret, kubernetes
<1>3. goes \/ fails
  <2>1. FindProvider(c) => goes \/ fails
    BY DEF FindProvider, Syncing
  <2>2. CreateProvider(c) => goes \/ fails
    BY DEF CreateProvider, Syncing
  <2>3. UpdateProvider(c) => goes \/ fails
    BY DEF UpdateProvider, Syncing
  <2>4. FindApp(c) => goes \/ fails
    BY DEF FindApp, Syncing
  <2>5. CreateApp(c) \/ UpdateApp(c) => goes \/ fails
    BY DEF CreateApp, UpdateApp, WriteApp, AfterApp, Syncing
  <2>6. DeleteStaleSecret(c) => goes
    BY DEF DeleteStaleSecret, Syncing
  <2>7. GetURLs(c) => goes \/ fails
    BY DEF GetURLs, Syncing
  <2>8. WriteSecret(c) => goes \/ fails
    BY DEF WriteSecret, Syncing
  <2>. QED  BY <2>1, <2>2, <2>3, <2>4, <2>5, <2>6, <2>7, <2>8 DEF Syncs
<1>. QED  BY <1>1, <1>2, <1>3, GotoMoves, FailMoves DEF Reasons

LEMMA DeletesMove ==
  ASSUME TypeOK, NEW c \in CRs, Deletes(c)
  PROVE  Moves(c, Deleting)
<1>1. work[c].pc \in Deleting /\ ~At(c, "idle")
  BY DEF Deletes, FindAppToDelete, DeleteApp, FindProviderToDelete, DeleteProvider, At, Deleting
<1>2. UNCHANGED <<cr, cache, nextUid>>
  BY DEF Deletes, FindAppToDelete, DeleteApp, FindProviderToDelete, DeleteProvider, kubernetes
<1>3. (\E step \in Deleting : Goto(c, step)) \/ FailDeletion(c)
  BY DEF Deletes, FindAppToDelete, DeleteApp, FindProviderToDelete, DeleteProvider,
     AfterAppDeleted, Deleting
<1>4. FailDeletion(c) => Fail(c, "DeletionFailed") \/ ReturnRequeue(c)
  BY DEF FailDeletion
<1>. QED  BY <1>1, <1>2, <1>3, <1>4, GotoMoves, FailMoves DEF Reasons

\* What becomes of the other keys in a step that changes only those of c.
LEMMA OthersKeyInv ==
  ASSUME TypeOK, IndInv, nextUid' \in Nat, NEW c \in CRs,
         \A d \in CRs \ {c} : Elsewhere(d), KeyInv(c)'
  PROVE  IndInv'
BY ElsewhereKeyInv DEF IndInv

\* A reconcile that ends: the worker is idle, and the resource, unless it is gone,
\* has the uid, the finalizer, the deletion and the spec it had, or its finalizer.
LEMMA EndsKeyInv ==
  ASSUME TypeOK, NEW c \in CRs, KeyInv(c), UNCHANGED <<cache, nextUid, queue>>,
         work'[c] = Idle,
         /\ cr'[c].uid = cr[c].uid /\ cr'[c].gen = cr[c].gen /\ cr'[c].del = cr[c].del
         /\ cr[c].fin => cr'[c].fin,
         cr'[c].fin => cache[c].uid = cr'[c].uid,
         Remembered(c)'
  PROVE  KeyInv(c)'
<1>. USE DEF At, App
<1>1. Idle.pc = "idle" /\ Idle.app.uid = 0
  BY DEF Idle, NoCR
<1>2. UidsAllocated(c)'
  BY <1>1 DEF KeyInv, UidsAllocated, TypeOK
<1>3. CacheLags(c)'
  BY <1>1 DEF KeyInv, CacheLags
<1>4. CopyIsUsable(c)' /\ Guarded(c)' /\ DirtyIsQueued(c)'
  BY <1>1 DEF CopyIsUsable, Guarded, DirtyIsQueued, Syncing, Deleting
<1>. QED  BY <1>2, <1>3, <1>4 DEF KeyInv

LEMMA AddFinalizerIndInv ==
  ASSUME TypeOK, IndInv, NEW c \in CRs, AddFinalizer(c)
  PROVE  IndInv'
<1>0. KeyInv(c)
  BY DEF IndInv
<1>1. work'[c] = Idle /\ c \in timers' /\ UNCHANGED <<cache, nextUid, queue>>
  BY DEF AddFinalizer, ReturnRequeue, TypeOK
<1>2. Current(c) => cr[c] \in Object
  BY InProgress DEF AddFinalizer, Current, At
<1>3. /\ cr'[c].uid = cr[c].uid /\ cr'[c].gen = cr[c].gen /\ cr'[c].del = cr[c].del
      /\ cr[c].fin => cr'[c].fin
      /\ UNCHANGED cr \/ Current(c)
  <2>1. CASE UNCHANGED cr
    BY <2>1
  <2>2. CASE Current(c) /\ cr' = [cr EXCEPT ![c].fin = TRUE]
    BY <1>2, <2>2 DEF TypeOK, Object
  <2>. QED  BY <2>1, <2>2 DEF AddFinalizer
<1>4. cr'[c].fin => cache[c].uid = cr'[c].uid
  BY <1>0, <1>3 DEF KeyInv, CacheLags, AddFinalizer, At, Current
<1>5. Remembered(c)'
  BY <1>1 DEF Remembered
<1>6. ASSUME NEW d \in CRs \ {c}
      PROVE  Elsewhere(d)
  BY DEF AddFinalizer, ReturnRequeue, Elsewhere, TypeOK
<1>7. KeyInv(c)'
  BY <1>0, <1>1, <1>3, <1>4, <1>5, EndsKeyInv
<1>. QED  BY <1>1, <1>6, <1>7, OthersKeyInv DEF TypeOK

\* A write of the status keeps the rest of the resource.
KeepsButStatus(c) ==
  /\ cr'[c].uid = cr[c].uid /\ cr'[c].gen = cr[c].gen /\ cr'[c].del = cr[c].del
  /\ cr'[c].fin = cr[c].fin /\ cr'[c].spec = cr[c].spec

LEMMA StatusKeeps ==
  ASSUME TypeOK, NEW c \in CRs, PublishStatus(c) \/ ReportFailure(c)
  PROVE  KeepsButStatus(c)
<1>1. Current(c) => cr[c] \in Object
  BY InProgress DEF PublishStatus, ReportFailure, Current, At
<1>2. CASE UNCHANGED cr
  BY <1>2 DEF KeepsButStatus
<1>3. ASSUME Current(c), NEW st, cr' = [cr EXCEPT ![c].status = st]
      PROVE  KeepsButStatus(c)
  BY <1>1, <1>3 DEF KeepsButStatus, TypeOK, Object
<1>4. ASSUME Current(c), NEW why, cr' = [cr EXCEPT ![c].status.reason = why]
      PROVE  KeepsButStatus(c)
  BY <1>1, <1>4 DEF KeepsButStatus, TypeOK, Object
<1>5. CASE PublishStatus(c)
  BY <1>2, <1>3, <1>5 DEF PublishStatus
<1>6. CASE ReportFailure(c)
  BY <1>2, <1>4, <1>6 DEF ReportFailure
<1>. QED  BY <1>5, <1>6

LEMMA PublishIndInv ==
  ASSUME TypeOK, IndInv, NEW c \in CRs, PublishStatus(c)
  PROVE  IndInv'
<1>0. KeyInv(c)
  BY DEF IndInv
<1>1. work'[c] = Idle /\ c \in timers' /\ UNCHANGED <<cache, nextUid, queue>>
  BY DEF PublishStatus, ReturnRequeue, TypeOK
<1>2. cr'[c].fin => cache[c].uid = cr'[c].uid
  BY <1>0, StatusKeeps DEF KeyInv, CacheLags, KeepsButStatus
<1>3. Remembered(c)'
  BY <1>1 DEF Remembered
<1>4. KeyInv(c)'
  BY <1>0, <1>1, <1>2, <1>3, StatusKeeps, EndsKeyInv DEF KeepsButStatus
<1>5. ASSUME NEW d \in CRs \ {c}
      PROVE  Elsewhere(d)
  BY DEF PublishStatus, ReturnRequeue, Elsewhere, TypeOK
<1>. QED  BY <1>1, <1>4, <1>5, OthersKeyInv DEF TypeOK

LEMMA ReportIndInv ==
  ASSUME TypeOK, IndInv, NEW c \in CRs, ReportFailure(c)
  PROVE  IndInv'
<1>0. KeyInv(c)
  BY DEF IndInv
<1>1. work'[c] = Idle /\ UNCHANGED <<cache, nextUid, queue>>
  BY DEF ReportFailure, Return, ReturnRequeue, TypeOK
<1>2. cr'[c].fin => cache[c].uid = cr'[c].uid
  BY <1>0, StatusKeeps DEF KeyInv, CacheLags, KeepsButStatus
<1>3. Remembered(c)'
  <2>1. CASE work[c].why = "TemplateError"
    <3>1. cache[c] = App(c) \/ c \in queue
      BY <1>0 DEF KeyInv, DirtyIsQueued, ReportFailure, At
    <3>2. App(c).fin /\ ~App(c).del /\ App(c).spec.template = "malformed"
      BY <1>0, <2>1 DEF KeyInv, CopyIsUsable, ReportFailure
    <3>. QED  BY <1>1, <3>1, <3>2 DEF Remembered
  <2>2. CASE work[c].why # "TemplateError"
    BY <2>2 DEF ReportFailure, ReturnRequeue, Remembered
  <2>. QED  BY <2>1, <2>2
<1>4. KeyInv(c)'
  BY <1>0, <1>1, <1>2, <1>3, StatusKeeps, EndsKeyInv DEF KeepsButStatus
<1>5. ASSUME NEW d \in CRs \ {c}
      PROVE  Elsewhere(d)
  BY DEF ReportFailure, Return, ReturnRequeue, Elsewhere, TypeOK
<1>. QED  BY <1>1, <1>4, <1>5, OthersKeyInv DEF TypeOK

LEMMA NoCRFields ==
  /\ NoCR.uid = 0 /\ NoCR.gen = 0 /\ NoCR.fin = FALSE /\ NoCR.del = FALSE
  /\ Idle.pc = "idle" /\ Idle.app.uid = 0
  /\ \A o \in CR : o.uid = 0 => o = NoCR
  /\ \A o \in CR : o.uid \in Nat /\ o.gen \in Nat
BY DEF NoCR, Idle, CR, Object

\* The object goes while nothing but a deletion is in progress.
LEMMA GoneKeyInv ==
  ASSUME TypeOK, NEW c \in CRs, KeyInv(c), UNCHANGED <<cache, nextUid>>,
         queue \subseteq queue',
         cr'[c] = NoCR, cache[c].fin => cache[c].del,
         work'[c] = Idle \/ (work'[c] = work[c] /\ work[c].pc \notin Syncing)
  PROVE  KeyInv(c)'
<1>. USE NoCRFields DEF At, App
<1>0. cache[c] \in CR /\ nextUid \in Nat \ {0}
  BY DEF TypeOK
<1>1. UidsAllocated(c)'
  BY <1>0 DEF KeyInv, UidsAllocated
<1>2. CacheLags(c)'
  <2>1. work'[c].pc # "idle" => work'[c].app.uid # 0
    BY Busy, InProgress DEF TypeOK
  <2>. QED  BY <1>0, <2>1 DEF CacheLags
<1>3. CopyIsUsable(c)'
  BY DEF KeyInv, CopyIsUsable, Deleting
<1>4. Guarded(c)' /\ DirtyIsQueued(c)' /\ Remembered(c)'
  BY DEF KeyInv, Guarded, DirtyIsQueued, Remembered, Exists, Syncing
<1>. QED  BY <1>1, <1>2, <1>3, <1>4 DEF KeyInv

LEMMA RemoveIndInv ==
  ASSUME TypeOK, IndInv, NEW c \in CRs, RemoveFinalizer(c)
  PROVE  IndInv'
<1>0. KeyInv(c)
  BY DEF IndInv
<1>1. work'[c] = Idle /\ UNCHANGED <<cache, nextUid, queue>>
  BY DEF RemoveFinalizer, Return, ReturnRequeue, TypeOK
<1>2. ASSUME cr' = [cr EXCEPT ![c] = NoCR]
      PROVE  KeyInv(c)'
  <2>1. cr'[c] = NoCR
    BY <1>2 DEF TypeOK
  <2>2. cache[c].fin => cache[c].del
    BY <1>0 DEF RemoveFinalizer, KeyInv, CopyIsUsable, At, Deleting
  <2>. QED  BY <1>0, <1>1, <2>1, <2>2, GoneKeyInv
<1>3. ASSUME UNCHANGED cr, ReturnRequeue(c)
      PROVE  KeyInv(c)'
  <2>1. Remembered(c)'
    BY <1>3 DEF Remembered, ReturnRequeue, TypeOK
  <2>. QED  BY <1>0, <1>1, <1>3, <2>1, EndsKeyInv DEF KeyInv, CacheLags
<1>4. KeyInv(c)'
  BY <1>2, <1>3 DEF RemoveFinalizer
<1>5. ASSUME NEW d \in CRs \ {c}
      PROVE  Elsewhere(d)
  BY DEF RemoveFinalizer, Return, ReturnRequeue, Elsewhere, TypeOK
<1>. QED  BY <1>1, <1>4, <1>5, OthersKeyInv DEF TypeOK

LEMMA BeginsIndInv ==
  ASSUME TypeOK, IndInv, NEW c \in CRs, Begins(c)
  PROVE  IndInv'
<1>. USE DEF At, App
<1>0. KeyInv(c)
  BY DEF IndInv
<1>1. Dequeue(c)
  BY DEF Begins, Ignore, BeginDeletion, BeginFinalizer, RejectTemplate, BeginSync
<1>2. At(c, "idle") /\ UNCHANGED <<cr, cache, nextUid>> /\ nextUid' \in Nat
  BY <1>1 DEF Dequeue, kubernetes, TypeOK
<1>3. ASSUME Ignore(c)
      PROVE  KeyInv(c)'
  <2>1. UidsAllocated(c)' /\ CacheLags(c)' /\ CopyIsUsable(c)' /\ Guarded(c)'
          /\ DirtyIsQueued(c)'
    BY <1>0, <1>2, <1>3 DEF Ignore, KeyInv, UidsAllocated, CacheLags, CopyIsUsable,
       Guarded, DirtyIsQueued
  <2>2. Remembered(c)'
    BY <1>0, <1>2, <1>3 DEF Ignore, Remembered, KeyInv, UidsAllocated, Exists
  <2>. QED  BY <2>1, <2>2 DEF KeyInv
<1>4. ASSUME NEW step \in Steps, NEW why, Begin(c, step, why),
             step = "addFinalizer" => ~cache[c].del,
             step = "report" => cache[c].fin /\ ~cache[c].del
                                  /\ cache[c].spec.template = "malformed",
             step \in Deleting => cache[c].del /\ cache[c].fin,
             step \in Syncing => cache[c].fin /\ ~cache[c].del
      PROVE  KeyInv(c)'
  <2>1. work'[c].pc = step /\ work'[c].app = cache[c] /\ step # "idle"
    BY <1>4 DEF Begin, TypeOK, Steps, Deleting, Syncing
  <2>2. UidsAllocated(c)' /\ CacheLags(c)'
    BY <1>0, <1>2, <2>1 DEF KeyInv, UidsAllocated, CacheLags
  <2>3. CopyIsUsable(c)'
    BY <1>0, <1>2, <1>4, <2>1 DEF KeyInv, CopyIsUsable, CacheLags
  <2>4. Guarded(c)' /\ DirtyIsQueued(c)' /\ Remembered(c)'
    BY <1>0, <1>2, <1>4, <2>1 DEF KeyInv, Guarded, CacheLags, DirtyIsQueued, Remembered
  <2>. QED  BY <2>2, <2>3, <2>4 DEF KeyInv
<1>5. BeginDeletion(c) => KeyInv(c)'
  BY <1>4 DEF BeginDeletion, Steps, Deleting, Syncing
<1>6. BeginFinalizer(c) => KeyInv(c)'
  BY <1>4 DEF BeginFinalizer, Steps, Deleting, Syncing
<1>7. RejectTemplate(c) => KeyInv(c)'
  BY <1>4 DEF RejectTemplate, Steps, Deleting, Syncing
<1>8. BeginSync(c) => KeyInv(c)'
  BY <1>4 DEF BeginSync, Steps, Deleting, Syncing
<1>9. KeyInv(c)'
  BY <1>3, <1>5, <1>6, <1>7, <1>8 DEF Begins
<1>10. \A d \in CRs \ {c} : work'[d] = work[d]
  BY DEF Begins, Ignore, BeginDeletion, BeginFinalizer, RejectTemplate, BeginSync, Begin, TypeOK
<1>11. ASSUME NEW d \in CRs \ {c}
       PROVE  Elsewhere(d)
  BY <1>1, <1>2, <1>10 DEF Dequeue, Elsewhere, TypeOK
<1>. QED  BY <1>2, <1>9, <1>11, OthersKeyInv

LEMMA ManagerIndInv ==
  ASSUME TypeOK, IndInv, Manager
  PROVE  IndInv'
<1>. USE DEF At, App
<1>0. nextUid' = nextUid /\ nextUid \in Nat
  BY DEF Manager, WatchCR, TimerFires, WatchSecret, Restart, kubernetes, TypeOK
<1>1. ASSUME NEW c \in CRs, WatchCR(c)
      PROVE  IndInv'
  <2>0. KeyInv(c)
    BY DEF IndInv
  <2>1. /\ cr'[c] = cr[c] /\ cache'[c] = cr[c] /\ work'[c] = work[c] /\ c \in queue'
    BY <1>1 DEF WatchCR, TypeOK
  <2>2. UidsAllocated(c)' /\ CacheLags(c)'
    <3>1. cr[c].gen \in Nat
      BY NoCRFields DEF TypeOK
    <3>. QED  BY <1>0, <2>0, <2>1, <3>1 DEF KeyInv, UidsAllocated, CacheLags
  <2>3. CopyIsUsable(c)'
    BY <2>0, <2>1 DEF KeyInv, CopyIsUsable
  <2>4. Guarded(c)' /\ DirtyIsQueued(c)' /\ Remembered(c)'
    BY <2>0, <2>1 DEF KeyInv, Guarded, DirtyIsQueued, Remembered
  <2>5. KeyInv(c)'
    BY <2>2, <2>3, <2>4 DEF KeyInv
  <2>6. \A d \in CRs \ {c} : Elsewhere(d)
    BY <1>0, <1>1 DEF WatchCR, Elsewhere, TypeOK
  <2>. QED  BY <1>0, <2>5, <2>6, OthersKeyInv
<1>2. ASSUME NEW c \in CRs, TimerFires(c)
      PROVE  IndInv'
  <2>1. nextUid' >= nextUid
    BY <1>0
  <2>2. UNCHANGED <<cr, cache, work>>
    BY <1>2 DEF TimerFires, kubernetes
  <2>3. \A d \in CRs : Elsewhere(d)
    BY <1>2, <2>1, <2>2 DEF TimerFires, Elsewhere
  <2>. QED  BY <1>0, <2>3, ElsewhereKeyInv DEF IndInv
<1>3. ASSUME NEW n \in SecretNames, WatchSecret(n)
      PROVE  IndInv'
  <2>1. nextUid' >= nextUid
    BY <1>0
  <2>2. UNCHANGED <<cr, cache, work, timers>> /\ queue \subseteq queue'
    BY <1>3 DEF WatchSecret
  <2>3. \A d \in CRs : Elsewhere(d)
    BY <2>1, <2>2 DEF Elsewhere
  <2>. QED  BY <1>0, <2>3, ElsewhereKeyInv DEF IndInv
<1>4. ASSUME Restart, NEW c \in CRs
      PROVE  KeyInv(c)'
  <2>0. KeyInv(c)
    BY DEF IndInv
  <2>1. cr'[c] = cr[c] /\ cache'[c] = cr[c] /\ work'[c] = Idle
          /\ (Exists(cr[c]) => c \in queue')
    BY <1>4 DEF Restart
  <2>2. cr[c] \in CR
    BY DEF TypeOK
  <2>3. UidsAllocated(c)' /\ CacheLags(c)'
    BY <1>0, <2>0, <2>1, <2>2, NoCRFields DEF KeyInv, UidsAllocated, CacheLags
  <2>4. CopyIsUsable(c)' /\ Guarded(c)' /\ DirtyIsQueued(c)' /\ Remembered(c)'
    BY <2>1, NoCRFields DEF CopyIsUsable, Guarded, DirtyIsQueued, Remembered, Exists,
       Syncing, Deleting
  <2>. QED  BY <2>3, <2>4 DEF KeyInv
<1>. QED  BY <1>1, <1>2, <1>3, <1>4 DEF Manager, IndInv

\* A user's change: the cache cannot show it yet.
LEMMA UserIndInv ==
  ASSUME TypeOK, IndInv, NEW c \in CRs, CreateCR(c) \/ EditCR(c) \/ DeleteCR(c)
  PROVE  IndInv'
<1>. USE NoCRFields DEF At, App
<1>9. nextUid \in Nat /\ (nextUid' = nextUid \/ nextUid' = nextUid + 1)
  BY DEF TypeOK, CreateCR, EditCR, DeleteCR
<1>0. KeyInv(c) /\ cr[c] \in CR /\ cache[c] \in CR /\ nextUid \in Nat /\ nextUid' \in Nat
  BY <1>9 DEF IndInv, TypeOK
<1>10. UNCHANGED <<cache, queue, timers, work>>
  BY DEF CreateCR, EditCR, DeleteCR
<1>1. UNCHANGED <<cache, queue, timers, work>> /\ nextUid' >= nextUid
  BY <1>9, <1>10
<1>2. ~At(c, "idle") => App(c).uid # 0
  BY InProgress
<1>3. ASSUME CreateCR(c)
      PROVE  KeyInv(c)'
  <2>1. /\ cr'[c].uid = nextUid /\ ~cr'[c].fin /\ ~cr'[c].del /\ nextUid' = nextUid + 1
        /\ cr[c] = NoCR
    <3>1. PICK spec \in Specs[c] :
            cr' = [cr EXCEPT ![c] = [NoCR EXCEPT !.uid = nextUid, !.gen = 1, !.spec = spec]]
      BY <1>3 DEF CreateCR
    <3>2. cr'[c] = [NoCR EXCEPT !.uid = nextUid, !.gen = 1, !.spec = spec]
      BY <3>1 DEF TypeOK
    <3>3. cr'[c].uid = nextUid /\ cr'[c].fin = NoCR.fin /\ cr'[c].del = NoCR.del
      BY <3>2 DEF NoCR
    <3>. QED  BY <1>0, <1>3, <3>3 DEF CreateCR, Exists
  <2>2. cache[c].uid < nextUid /\ App(c).uid < nextUid
    BY <1>0 DEF KeyInv, UidsAllocated
  <2>3. App(c).uid \in Nat
    <3>1. CASE ~At(c, "idle")
      BY <3>1, InProgress
    <3>2. CASE At(c, "idle")
      <4>1. \A w \in [pc : Steps, app : Object, pid : Nat, why : Reasons] : w.pc # "idle"
        BY DEF Steps, Syncing, Deleting
      <4>2. work[c] = Idle
        BY <3>2, <4>1 DEF TypeOK, Work
      <4>. QED  BY <4>2
    <3>. QED  BY <3>1, <3>2
  <2>4. UidsAllocated(c)' /\ CacheLags(c)'
    BY <1>0, <1>1, <2>1, <2>2, <2>3 DEF KeyInv, UidsAllocated, CacheLags
  <2>5. CopyIsUsable(c)' /\ Guarded(c)' /\ DirtyIsQueued(c)' /\ Remembered(c)'
    BY <1>0, <1>1, <2>1, <2>2 DEF KeyInv, CopyIsUsable, Guarded, DirtyIsQueued, Remembered
  <2>. QED  BY <2>4, <2>5 DEF KeyInv
<1>4. ASSUME cr[c] \in Object, cr'[c].uid = cr[c].uid, cr'[c].fin = cr[c].fin,
             cr'[c].del = cr[c].del \/ (cr'[c].del /\ cr'[c].fin),
             cr'[c].gen = cr[c].gen + 1, UNCHANGED nextUid
      PROVE  KeyInv(c)'
  <2>1. cr[c].gen \in Nat /\ cache[c].gen \in Nat
    BY <1>0
  <2>2. cache[c] # cr'[c]
    BY <1>0, <1>4, <2>1 DEF KeyInv, CacheLags
  <2>3. UidsAllocated(c)' /\ CacheLags(c)'
    BY <1>0, <1>1, <1>4, <2>1 DEF KeyInv, UidsAllocated, CacheLags
  <2>4. CopyIsUsable(c)' /\ Guarded(c)' /\ DirtyIsQueued(c)' /\ Remembered(c)'
    BY <1>0, <1>1, <1>4, <2>2 DEF KeyInv, CopyIsUsable, Guarded, DirtyIsQueued, Remembered
  <2>. QED  BY <2>3, <2>4 DEF KeyInv
<1>5. ASSUME EditCR(c)
      PROVE  KeyInv(c)'
  <2>1. cr[c] \in Object
    BY <1>5, Present DEF EditCR, TypeOK
  <2>2. PICK spec \in Specs[c] : cr' = [cr EXCEPT ![c].spec = spec, ![c].gen = @ + 1]
    BY <1>5 DEF EditCR
  <2>3. /\ cr'[c].uid = cr[c].uid /\ cr'[c].fin = cr[c].fin /\ cr'[c].del = cr[c].del
        /\ cr'[c].gen = cr[c].gen + 1
    BY <2>1, <2>2 DEF TypeOK, Object
  <2>. QED  BY <1>4, <1>5, <2>1, <2>3 DEF EditCR
<1>6. ASSUME DeleteCR(c)
      PROVE  KeyInv(c)'
  <2>1. cr[c] \in Object
    BY <1>6, Present DEF DeleteCR, TypeOK
  <2>2. ASSUME cr[c].fin
        PROVE  KeyInv(c)'
    <3>1. cr'[c] = [cr[c] EXCEPT !.del = TRUE, !.gen = @ + 1]
      BY <1>6, <2>2 DEF DeleteCR, TypeOK
    <3>2. /\ cr'[c].uid = cr[c].uid /\ cr'[c].fin = cr[c].fin /\ cr'[c].del
          /\ cr'[c].gen = cr[c].gen + 1
      BY <2>1, <3>1 DEF Object
    <3>. QED  BY <1>4, <1>6, <2>1, <2>2, <3>2 DEF DeleteCR
  <2>3. ASSUME ~cr[c].fin
        PROVE  KeyInv(c)'
    <3>1. cr'[c] = NoCR
      BY <1>6, <2>3 DEF DeleteCR, TypeOK
    <3>2. cache[c].fin => cache[c].del
      BY <1>0, <2>3 DEF KeyInv, CacheLags
    <3>3. work[c].pc \notin Syncing
      BY <1>0, <2>3 DEF KeyInv, Guarded
    <3>. QED  BY <1>0, <1>1, <1>6, <3>1, <3>2, <3>3, GoneKeyInv DEF DeleteCR
  <2>. QED  BY <2>2, <2>3
<1>7. KeyInv(c)'
  BY <1>3, <1>5, <1>6
<1>8. \A d \in CRs \ {c} : Elsewhere(d)
  BY <1>0, <1>1 DEF CreateCR, EditCR, DeleteCR, Elsewhere, TypeOK
<1>. QED  BY <1>0, <1>7, <1>8, OthersKeyInv

LEMMA CallsIndInv ==
  ASSUME TypeOK, IndInv, NEW c \in CRs, Calls(c)
  PROVE  IndInv'
<1>1. Syncs(c) => IndInv'
  BY SyncsMove, MovesIndInv
<1>2. Deletes(c) => IndInv'
  BY DeletesMove, MovesIndInv
<1>. QED  BY <1>1, <1>2, AddFinalizerIndInv, PublishIndInv, ReportIndInv, RemoveIndInv
          DEF Calls, Syncs, Deletes

LEMMA EnvironmentIndInv ==
  ASSUME TypeOK, IndInv, Environment
  PROVE  IndInv'
<1>1. CASE \E c \in CRs : CreateCR(c) \/ EditCR(c) \/ DeleteCR(c)
  BY <1>1, UserIndInv
<1>2. CASE UNCHANGED <<cr, cache, work, queue, timers, nextUid>>
  <2>1. nextUid' \in Nat /\ nextUid' >= nextUid
    BY <1>2 DEF TypeOK
  <2>2. \A c \in CRs : Elsewhere(c)
    BY <1>2, <2>1 DEF Elsewhere
  <2>. QED  BY <2>1, <2>2, ElsewhereKeyInv DEF IndInv
<1>3. UNCHANGED <<cr, cache, work, queue, timers, nextUid>>
        \/ \E c \in CRs : CreateCR(c) \/ EditCR(c) \/ DeleteCR(c)
  BY DEF Environment, CollectSecret, Drift, DriftSecret, DriftApp, DriftProvider
<1>. QED  BY <1>1, <1>2, <1>3

LEMMA InitIndInv == Init => IndInv
<1> SUFFICES ASSUME Init, NEW c \in CRs
             PROVE  KeyInv(c)
  BY DEF IndInv
<1>1. cr[c] = NoCR /\ cache[c] = NoCR /\ work[c] = Idle /\ nextUid = 1
  BY DEF Init
<1>. QED  BY <1>1, NoCRFields DEF KeyInv, UidsAllocated, CacheLags, CopyIsUsable, Guarded,
          DirtyIsQueued, Remembered, Exists, At, App, Syncing, Deleting

LEMMA IndStep ==
  TypeOK /\ IndInv /\ [Next]_vars => IndInv'
<1> SUFFICES ASSUME TypeOK, IndInv, [Next]_vars
             PROVE  IndInv'
  OBVIOUS
<1>1. CASE UNCHANGED vars
  <2>1. nextUid' \in Nat /\ nextUid' >= nextUid
    BY <1>1 DEF TypeOK, vars, kubernetes
  <2>2. \A c \in CRs : Elsewhere(c)
    BY <1>1, <2>1 DEF vars, kubernetes, Elsewhere
  <2>. QED  BY <2>1, <2>2, ElsewhereKeyInv DEF IndInv
<1>. QED  BY <1>1, NextCases, BeginsIndInv, CallsIndInv, ManagerIndInv, EnvironmentIndInv

\* What each key's resource, cached copy, reconcile, queue and timers have to do
\* with one another, in every reachable state.
THEOREM Inductive == Spec => []IndInv
<1>1. TypeOK /\ IndInv /\ [Next]_vars => IndInv'
  BY IndStep
<1>. QED  BY <1>1, InitIndInv, TypeCorrect, PTL DEF Spec

\* Nothing is written to Authentik or to a secret on behalf of a resource whose
\* finalizer is not in the API server: whatever the cache showed when the
\* reconcile began, and however often the key was re-created since.
THEOREM GuardedWrites == Spec => []WritesGuarded
<1>1. IndInv => WritesGuarded
  BY DEF IndInv, KeyInv, WritesGuarded
<1>. QED  BY <1>1, Inductive, PTL

\* No resource in the cluster is without a pending event, queued key, timer or
\* reconcile, unless it waits for its user to mend a malformed template.
THEOREM NothingForgotten == Spec => []NeverForgotten
<1>1. IndInv => NeverForgotten
  BY DEF IndInv, KeyInv, NeverForgotten
<1>. QED  BY <1>1, Inductive, PTL

-----------------------------------------------------------------------------
(* A secret stays with the resource that wrote it, although resources may name
   the same secret and write through stale caches *)

\* A secret in the API server has an owner.
SecretsOwned == \A n \in SecretNames : Exists(secrets[n]) => secrets[n].key # ""

\* What a step may do to a secret: leave it, delete it, or write it for a resource
\* that found it without an owner or owns it.
Treated(n) ==
  \/ secrets'[n] \in {secrets[n], NoSecret}
  \/ \E c \in CRs : secrets'[n].key = c /\ secrets[n].key \in {"", c}

LEMMA CallsTreat ==
  ASSUME TypeOK, NEW c \in CRs, Calls(c), NEW n \in SecretNames
  PROVE  Treated(n)
<1>0. secrets \in [SecretNames -> Secret]
  BY DEF TypeOK
<1>1. CASE UNCHANGED secrets
  BY <1>1 DEF Treated
<1>2. CASE DeleteStaleSecret(c)
  BY <1>0, <1>2 DEF DeleteStaleSecret, Treated
<1>3. CASE WriteSecret(c)
  <2>1. CASE UNCHANGED secrets
    BY <1>1, <2>1
  <2>2. CASE ~UNCHANGED secrets
    <3>1. PICK m \in SecretNames : m = App(c).spec.secret
      BY <1>3, InProgress DEF WriteSecret, At, CRSpec
    <3>2. MayWriteSecret(c, m)
          /\ secrets' = [secrets EXCEPT ![m] =
               [key |-> c, uid |-> App(c).uid, data |-> RenderedData(c),
                labels |-> secrets[m].labels \cup {App(c).spec.labels}]]
      BY <1>3, <2>2, <3>1 DEF WriteSecret
    <3>3. secrets[m].key \in {"", c}
      BY <3>2 DEF MayWriteSecret
    <3>. QED  BY <1>0, <3>2, <3>3 DEF Treated
  <2>. QED  BY <2>1, <2>2
<1>. QED
  BY <1>1, <1>2, <1>3 DEF Calls, AddFinalizer, FindProvider, CreateProvider, UpdateProvider,
     FindApp, CreateApp, UpdateApp, WriteApp, GetURLs, PublishStatus, ReportFailure,
     FindAppToDelete, DeleteApp, FindProviderToDelete, DeleteProvider, RemoveFinalizer,
     kubernetes

LEMMA StepTreats ==
  ASSUME TypeOK, [Next]_vars, NEW n \in SecretNames
  PROVE  Treated(n)
<1>0. secrets \in [SecretNames -> Secret]
  BY DEF TypeOK
<1>1. CASE UNCHANGED secrets
  BY <1>1 DEF Treated
<1>2. CASE UNCHANGED vars
  BY <1>1, <1>2 DEF vars, kubernetes
<1>3. ASSUME NEW c \in CRs, Begins(c)
      PROVE  UNCHANGED secrets
  BY <1>3 DEF Begins, Ignore, BeginDeletion, BeginFinalizer, RejectTemplate, BeginSync,
     Dequeue, kubernetes
<1>4. CASE Manager
  BY <1>1, <1>4 DEF Manager, WatchCR, TimerFires, WatchSecret, Restart, kubernetes
<1>5. CASE Environment
  BY <1>0, <1>1, <1>5 DEF Environment, CreateCR, EditCR, DeleteCR, CollectSecret, DriftSecret,
     DriftApp, DriftProvider, Treated
<1>. QED  BY <1>1, <1>2, <1>3, <1>4, <1>5, CallsTreat, NextCases

LEMMA InitOwned == Init => SecretsOwned
<1>1. NoSecret.uid = 0
  BY DEF NoSecret
<1>. QED  BY <1>1 DEF Init, SecretsOwned, Exists

LEMMA OwnedStep ==
  TypeOK /\ SecretsOwned /\ [Next]_vars => SecretsOwned'
<1> SUFFICES ASSUME TypeOK, SecretsOwned, [Next]_vars, NEW n \in SecretNames
             PROVE  (Exists(secrets[n]) => secrets[n].key # "")'
  BY DEF SecretsOwned
<1>1. Treated(n)
  BY StepTreats
<1>2. NoSecret.uid = 0 /\ "" \notin CRs
  BY ConstantsAssumption DEF NoSecret
<1>. QED  BY <1>1, <1>2 DEF Treated, SecretsOwned, Exists

LEMMA OwnedInvariant == Spec => []SecretsOwned
BY InitOwned, OwnedStep, TypeCorrect, PTL DEF Spec

\* A secret never passes from one resource to another without being deleted:
\* CreateOrUpdate and SetControllerReference hold it, for any number of resources
\* that name it and however old the cached copy is.
THEOREM SecretsKept == Spec => SecretNotTakenOver
<1>. DEFINE A == \A n \in SecretNames : Exists(secrets[n]) =>
                   secrets'[n].key \in {"", secrets[n].key}
<1>1. TypeOK /\ SecretsOwned /\ [Next]_vars => [A]_vars
  <2> SUFFICES ASSUME TypeOK, SecretsOwned, [Next]_vars,
                      NEW n \in SecretNames, Exists(secrets[n])
               PROVE  secrets'[n].key \in {"", secrets[n].key}
    OBVIOUS
  <2>1. Treated(n)
    BY StepTreats
  <2>2. NoSecret.key = ""
    BY DEF NoSecret
  <2>. QED  BY <2>1, <2>2 DEF Treated, SecretsOwned
<1>. QED  BY <1>1, TypeCorrect, OwnedInvariant, PTL DEF Spec, SecretNotTakenOver
=============================================================================
