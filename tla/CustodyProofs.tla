---------------------------- MODULE CustodyProofs ----------------------------
(***************************************************************************)
(* The reconcile loop implements Custody: every step of it is a step of    *)
(* Custody, or changes nothing that Custody speaks of; and it does so, and *)
(* keeps its invariants, next to the admission webhook too.                *)
(***************************************************************************)
EXTENDS Admission, ReadyProofs

\* The uids given out are those of Custody.
UidsBounded == nextUid <= MaxUids + 1

\* The bound on the uids is a number.
LEMMA UidBoundNat == MaxUids \in Nat
  BY ConstantsAssumption, Zenon

\* What Custody sees of a step that leaves the resources or the applications alone.
LEMMA SameCR ==
  ASSUME \A c \in CRs : cr'[c].fin = cr[c].fin /\ cr'[c].del = cr[c].del
                          /\ (cr[c].fin => cr'[c].uid = cr[c].uid)
  PROVE  UNCHANGED <<Held, Leaving>>
BY DEF Held, Leaving

LEMMA SameOwners ==
  ASSUME \A s \in Slugs : applications'[s].uid = applications[s].uid
  PROVE  UNCHANGED Owner
BY DEF Owner

Stutters == UNCHANGED <<Held, Leaving, Owner>>

LEMMA StutterAllowed ==
  ASSUME Stutters
  PROVE  [Promised!Next]_(Promised!vars)
BY DEF Stutters, Promised!vars

LEMMA NextAllowed ==
  ASSUME Promised!Next
  PROVE  [Promised!Next]_(Promised!vars)
OBVIOUS

\* A resource that gets the finalizer has a uid that is in no one's custody.
LEMMA AddFinalizerHolds ==
  ASSUME TypeOK, CleanupInv, UidsBounded, NEW c \in CRs, AddFinalizer(c)
  PROVE  [Promised!Next]_(Promised!vars)
<1>1. UNCHANGED applications
  BY DEF AddFinalizer, authentik
<1>2. CASE UNCHANGED cr
  BY <1>1, <1>2, StutterAllowed DEF Stutters, Held, Leaving, Owner
<1>3. ASSUME Current(c), cr' = [cr EXCEPT ![c].fin = TRUE]
      PROVE  [Promised!Next]_(Promised!vars)
  <2>1. cr[c] \in Object /\ cr[c].uid \in Nat \ {0}
    BY <1>3, InProgress DEF AddFinalizer, Current, At
  <2>2. cr \in [CRs -> CR]
    BY DEF TypeOK
  <2>3. cr'[c].uid = cr[c].uid /\ cr'[c].fin = TRUE /\ cr'[c].del = cr[c].del
    BY <1>3, <2>1, <2>2 DEF Object
  <2>4. \A d \in CRs \ {c} : cr'[d] = cr[d]
    BY <1>3, <2>2
  <2>5. UNCHANGED <<Leaving, Owner>>
    BY <1>1, <2>3, <2>4 DEF Leaving, Owner
  <2>6. CASE cr[c].fin
    BY <1>1, <2>3, <2>4, <2>6, SameCR, SameOwners, StutterAllowed DEF Stutters
  <2>7. CASE ~cr[c].fin
    <3>1. Held[c] = 0 /\ Held' = [Held EXCEPT ![c] = cr[c].uid]
      BY <2>3, <2>4, <2>7 DEF Held
    <3>2. \A d \in CRs : Held[d] # cr[c].uid
      <4>1. \A d \in CRs \ {c} : cr[d].uid # cr[c].uid
        BY <2>1 DEF CleanupInv, UidsApart, Copies, Exists
      <4>. QED  BY <2>1, <2>7, <4>1 DEF Held
    <3>3. \A s \in Slugs : Owner[s] # cr[c].uid
      <4>1. ASSUME NEW s \in Slugs, applications[s].uid = cr[c].uid
            PROVE  FALSE
        <5>1. PICK d \in CRs : cr[d].fin /\ cr[d].uid = cr[c].uid
          BY <2>1, <4>1 DEF CleanupInv, Owned, Exists
        <5>2. d # c
          BY <2>7, <5>1
        <5>. QED  BY <2>1, <5>1, <5>2 DEF CleanupInv, UidsApart, Copies, Exists
      <4>. QED  BY <4>1 DEF Owner
    <3>4. cr[c].uid \in 1 .. MaxUids
      <4>1. cr[c].uid < nextUid
        BY <2>1 DEF CleanupInv, UidsApart, Copies, Exists
      <4>. QED  BY <2>1, <4>1, UidBoundNat DEF UidsBounded, TypeOK
    <3>5. Promised!Hold(c, cr[c].uid)
      BY <2>5, <3>1, <3>2, <3>3 DEF Promised!Hold
    <3>. QED  BY <3>4, <3>5, NextAllowed DEF Promised!Next
  <2>. QED  BY <2>6, <2>7
<1>. QED  BY <1>2, <1>3 DEF AddFinalizer

\* The finalizer goes with the last application of the resource.
LEMMA RemoveFinalizerLetsGo ==
  ASSUME TypeOK, IndInv, CleanupInv, FixedSlugs, NEW c \in CRs, RemoveFinalizer(c)
  PROVE  [Promised!Next]_(Promised!vars)
<1>1. UNCHANGED applications
  BY DEF RemoveFinalizer, authentik
<1>2. CASE UNCHANGED cr
  BY <1>1, <1>2, StutterAllowed DEF Stutters, Held, Leaving, Owner
<1>3. ASSUME Current(c), cr' = [cr EXCEPT ![c] = NoCR]
      PROVE  [Promised!Next]_(Promised!vars)
  <2>1. cr'[c].fin = FALSE /\ cr'[c].del = FALSE /\ \A d \in CRs \ {c} : cr'[d] = cr[d]
    BY <1>3, NoCRFields DEF TypeOK
  <2>2. cr[c] = App(c) /\ App(c).uid # 0
    BY <1>3, InProgress DEF Current, RemoveFinalizer, At
  <2>3. cr[c].del /\ cr[c].fin
    BY <2>2 DEF IndInv, KeyInv, CopyIsUsable, RemoveFinalizer, At, Deleting
  <2>4. Held' = [Held EXCEPT ![c] = 0] /\ Leaving' = Leaving \ {c} /\ Owner' = Owner
    BY <1>1, <2>1 DEF Held, Leaving, Owner
  <2>5. c \in Leaving /\ Held[c] = cr[c].uid
    BY <2>3 DEF Held, Leaving
  <2>6. ASSUME NEW s \in Slugs, applications[s].uid = cr[c].uid
        PROVE  FALSE
    <3>1. PICK d \in CRs : cr[d].uid = cr[c].uid /\ cr[d].spec.slug = s
      BY <2>2, <2>6 DEF CleanupInv, Owned, Exists
    <3>2. d = c
      BY <2>2, <3>1 DEF CleanupInv, UidsApart, Copies, Exists
    <3>. QED  BY <2>2, <2>6, <3>1, <3>2 DEF CleanupInv, AppDeletedFirst, RemoveFinalizer, At
  <2>7. Promised!LetGo(c)
    BY <2>4, <2>5, <2>6 DEF Promised!LetGo, Owner
  <2>. QED  BY <2>7, NextAllowed DEF Promised!Next
<1>. QED  BY <1>2, <1>3 DEF RemoveFinalizer

\* An application is written for a resource in custody.
LEMMA WriteAppWrites ==
  ASSUME TypeOK, IndInv, NEW c \in CRs, CreateApp(c) \/ UpdateApp(c)
  PROVE  [Promised!Next]_(Promised!vars)
<1>. DEFINE slug == App(c).spec.slug
<1>1. UNCHANGED cr
  BY DEF CreateApp, UpdateApp, WriteApp, kubernetes
<1>2. UNCHANGED <<Held, Leaving>>
  BY <1>1 DEF Held, Leaving
<1>3. slug \in Slugs /\ App(c).uid # 0
  BY InProgress DEF CreateApp, UpdateApp, At, CRSpec
<1>4. Held[c] = App(c).uid
  BY DEF IndInv, KeyInv, Guarded, CreateApp, UpdateApp, At, Syncing, Held
<1>5. CASE UNCHANGED applications
  BY <1>2, <1>5, StutterAllowed DEF Stutters, Owner
<1>6. ASSUME applications' = [applications EXCEPT ![slug] =
               [provider |-> work[c].pid, uid |-> App(c).uid, gen |-> App(c).gen]]
      PROVE  [Promised!Next]_(Promised!vars)
  <2>1. Owner' = [Owner EXCEPT ![slug] = Held[c]]
    BY <1>3, <1>4, <1>6 DEF Owner, TypeOK
  <2>2. Promised!Write(c, slug)
    BY <1>2, <1>3, <1>4, <2>1 DEF Promised!Write
  <2>. QED  BY <1>3, <2>2, NextAllowed DEF Promised!Next
<1>. QED  BY <1>5, <1>6 DEF CreateApp, UpdateApp, WriteApp

LEMMA Withdrawn ==
  ASSUME TypeOK, UNCHANGED cr, NEW s \in Slugs,
         applications' = [applications EXCEPT ![s] = NoApplication]
  PROVE  [Promised!Next]_(Promised!vars)
<1>1. Owner' = [Owner EXCEPT ![s] = 0]
  BY DEF Owner, NoApplication, TypeOK
<1>2. UNCHANGED <<Held, Leaving>>
  BY DEF Held, Leaving
<1>3. Promised!Withdraw(s)
  BY <1>1, <1>2 DEF Promised!Withdraw
<1>. QED  BY <1>3, NextAllowed DEF Promised!Next

LEMMA DeletesWithdraw ==
  ASSUME TypeOK, NEW c \in CRs, Deletes(c)
  PROVE  [Promised!Next]_(Promised!vars)
<1>1. UNCHANGED cr
  BY DeletesMove DEF Moves
<1>2. CASE DeleteApp(c)
  <2>1. App(c).spec.slug \in Slugs
    BY <1>2, InProgress DEF DeleteApp, At, CRSpec
  <2>2. CASE UNCHANGED applications
    BY <1>1, <2>2, StutterAllowed DEF Stutters, Held, Leaving, Owner
  <2>3. CASE applications' = [applications EXCEPT ![App(c).spec.slug] = NoApplication]
    BY <1>1, <2>1, <2>3, Withdrawn
  <2>. QED  BY <1>2, <2>2, <2>3 DEF DeleteApp
<1>3. CASE ~DeleteApp(c)
  <2>1. \A s \in Slugs : applications'[s].uid = applications[s].uid
    BY <1>3, DestroyKeepsUids DEF Deletes, FindAppToDelete, FindProviderToDelete, DeleteProvider,
       authentik
  <2>. QED  BY <1>1, <2>1, SameOwners, StutterAllowed DEF Stutters, Held, Leaving
<1>. QED  BY <1>2, <1>3

\* The users and the administrator.
LEMMA EnvironmentAllowed ==
  ASSUME TypeOK, Environment
  PROVE  [Promised!Next]_(Promised!vars)
<1>0. cr \in [CRs -> CR]
  BY DEF TypeOK
<1>1. ASSUME NEW c \in CRs, CreateCR(c)
      PROVE  [Promised!Next]_(Promised!vars)
  <2>1. PICK spec \in Specs[c] :
          cr' = [cr EXCEPT ![c] = [NoCR EXCEPT !.uid = nextUid, !.gen = 1, !.spec = spec]]
    BY <1>1 DEF CreateCR
  <2>2. cr'[c].fin = FALSE /\ cr'[c].del = FALSE /\ \A d \in CRs \ {c} : cr'[d] = cr[d]
    BY <1>0, <2>1 DEF NoCR
  <2>3. cr[c].fin = FALSE /\ cr[c].del = FALSE
    BY <1>0, <1>1, NoCRFields DEF CreateCR, Exists
  <2>4. UNCHANGED applications
    BY <1>1 DEF CreateCR, authentik
  <2>. QED  BY <2>2, <2>3, <2>4, SameCR, StutterAllowed DEF Stutters, Owner
<1>2. ASSUME NEW c \in CRs, EditCR(c)
      PROVE  [Promised!Next]_(Promised!vars)
  <2>1. cr[c] \in Object
    BY <1>0, <1>2, Present DEF EditCR
  <2>2. PICK spec \in Specs[c] : cr' = [cr EXCEPT ![c].spec = spec, ![c].gen = @ + 1]
    BY <1>2 DEF EditCR
  <2>3. /\ cr'[c].fin = cr[c].fin /\ cr'[c].del = cr[c].del /\ cr'[c].uid = cr[c].uid
        /\ \A d \in CRs \ {c} : cr'[d] = cr[d]
    BY <1>0, <2>1, <2>2 DEF Object
  <2>4. UNCHANGED applications
    BY <1>2 DEF EditCR, authentik
  <2>. QED  BY <2>3, <2>4, SameCR, StutterAllowed DEF Stutters, Owner
<1>3. ASSUME NEW c \in CRs, DeleteCR(c)
      PROVE  [Promised!Next]_(Promised!vars)
  <2>1. cr[c] \in Object
    BY <1>0, <1>3, Present DEF DeleteCR
  <2>2. cr'[c] = (IF cr[c].fin THEN [cr[c] EXCEPT !.del = TRUE, !.gen = @ + 1] ELSE NoCR)
    BY <1>0, <1>3 DEF DeleteCR
  <2>3. \A d \in CRs \ {c} : cr'[d] = cr[d]
    BY <1>0, <1>3 DEF DeleteCR
  <2>4. UNCHANGED Owner
    BY <1>3 DEF DeleteCR, Owner, authentik
  <2>5. CASE cr[c].fin
    <3>1. cr'[c].fin /\ cr'[c].del /\ cr'[c].uid = cr[c].uid
      BY <2>1, <2>2, <2>5 DEF Object
    <3>2. UNCHANGED Held /\ Leaving' = Leaving \cup {c} /\ Held[c] # 0
      BY <1>3, <2>3, <2>5, <3>1 DEF Held, Leaving, DeleteCR, Exists
    <3>3. Promised!AskToLeave(c)
      BY <2>4, <3>2 DEF Promised!AskToLeave
    <3>. QED  BY <3>3, NextAllowed DEF Promised!Next
  <2>6. CASE ~cr[c].fin
    <3>1. cr'[c].fin = FALSE /\ cr'[c].del = FALSE
      BY <2>2, <2>6, NoCRFields
    <3>2. cr[c].fin = FALSE /\ cr[c].del = FALSE
      BY <1>3, <2>1, <2>6 DEF DeleteCR, Object
    <3>. QED  BY <2>3, <2>4, <3>1, <3>2, SameCR, StutterAllowed DEF Stutters
  <2>. QED  BY <2>5, <2>6
<1>4. ASSUME NEW n \in SecretNames, CollectSecret(n) \/ DriftSecret(n)
      PROVE  [Promised!Next]_(Promised!vars)
  BY <1>4, StutterAllowed DEF CollectSecret, DriftSecret, Drift, authentik, Stutters, Held, Leaving,
     Owner
<1>5. ASSUME NEW s \in Slugs, DriftApp(s)
      PROVE  [Promised!Next]_(Promised!vars)
  BY <1>5, Withdrawn DEF DriftApp, Drift
<1>6. CASE DriftProvider
  <2>1. \A s \in Slugs : applications'[s].uid = applications[s].uid
    BY <1>6, DestroyKeepsUids DEF DriftProvider
  <2>. QED  BY <1>6, <2>1, SameOwners, StutterAllowed DEF DriftProvider, Drift, Stutters, Held,
            Leaving
<1>. QED  BY <1>1, <1>2, <1>3, <1>4, <1>5, <1>6 DEF Environment

LEMMA CallsAllowed ==
  ASSUME TypeOK, IndInv, CleanupInv, UidsBounded, FixedSlugs, NEW c \in CRs, Calls(c)
  PROVE  [Promised!Next]_(Promised!vars)
<1>1. CASE PublishStatus(c) \/ ReportFailure(c)
  <2>1. UNCHANGED applications
    BY <1>1 DEF PublishStatus, ReportFailure, authentik
  <2>2. \A d \in CRs : /\ cr'[d].fin = cr[d].fin /\ cr'[d].del = cr[d].del
                       /\ cr'[d].uid = cr[d].uid
    BY <1>1, CallsOthers, StatusKeeps DEF KeepsButStatus, Calls
  <2>. QED  BY <2>1, <2>2, SameCR, StutterAllowed DEF Stutters, Owner
<1>2. CASE Syncs(c) /\ ~CreateApp(c) /\ ~UpdateApp(c)
  <2>1. UNCHANGED cr
    BY <1>2, SyncsMove DEF Moves
  <2>2. UNCHANGED applications
    BY <1>2 DEF Syncs, FindProvider, CreateProvider, UpdateProvider, FindApp, DeleteStaleSecret,
       GetURLs, WriteSecret, authentik
  <2>. QED  BY <2>1, <2>2, StutterAllowed DEF Stutters, Held, Leaving, Owner
<1>. QED  BY <1>1, <1>2, AddFinalizerHolds, RemoveFinalizerLetsGo, WriteAppWrites, DeletesWithdraw
          DEF Calls, Syncs, Deletes

LEMMA UidsStep ==
  TypeOK /\ UidsBounded /\ [Next]_vars => UidsBounded'
<1> SUFFICES ASSUME TypeOK, UidsBounded, [Next]_vars
             PROVE  UidsBounded'
  OBVIOUS
<1>1. UNCHANGED nextUid \/ \E c \in CRs : CreateCR(c)
  <2>1. ASSUME NEW c \in CRs, Begins(c) \/ Calls(c)
        PROVE  UNCHANGED nextUid
    BY <2>1, CallsOthers, BeginsWork
  <2>2. Manager \/ UNCHANGED vars => UNCHANGED nextUid
    BY DEF Manager, WatchCR, TimerFires, WatchSecret, Restart, kubernetes, vars
  <2>3. Environment => UNCHANGED nextUid \/ \E c \in CRs : CreateCR(c)
    BY DEF Environment, EditCR, DeleteCR, CollectSecret, Drift, DriftSecret, DriftApp,
       DriftProvider
  <2>. QED  BY <2>1, <2>2, <2>3, NextCases
<1>2. \A c \in CRs : CreateCR(c) => nextUid' = nextUid + 1 /\ nextUid <= MaxUids
  BY DEF CreateCR
<1>3. nextUid \in Nat /\ MaxUids \in Nat
  BY ConstantsAssumption DEF TypeOK
<1>. QED  BY <1>1, <1>2, <1>3 DEF UidsBounded

\* Every step of the loop is a step of Custody, or none.
LEMMA CustodyStep ==
  ASSUME FixedSlugs
  PROVE  TypeOK /\ IndInv /\ CleanupInv /\ UidsBounded /\ [Next]_vars
           => [Promised!Next]_(Promised!vars)
<1> SUFFICES ASSUME TypeOK, IndInv, CleanupInv, UidsBounded, [Next]_vars
             PROVE  [Promised!Next]_(Promised!vars)
  OBVIOUS
<1>1. ASSUME NEW c \in CRs, Begins(c)
      PROVE  [Promised!Next]_(Promised!vars)
  BY <1>1, BeginsWork, StutterAllowed DEF Stutters, Held, Leaving, Owner, authentik
<1>2. Manager \/ UNCHANGED vars => Stutters
  BY DEF Manager, WatchCR, TimerFires, WatchSecret, Restart, kubernetes, authentik, vars, Stutters,
     Held, Leaving, Owner
<1>. QED  BY <1>1, <1>2, CallsAllowed, EnvironmentAllowed, StutterAllowed, NextCases

LEMMA InitCustody ==
  Init => Promised!Init /\ UidsBounded
<1>1. Init => Promised!Init
  BY NoCRFields DEF Init, Promised!Init, Held, Leaving, Owner, NoApplication
<1>2. Init => UidsBounded
  BY UidBoundNat DEF Init, UidsBounded
<1>. QED  BY <1>1, <1>2

\* As long as no user edits a slug, the reconcile loop with all its stale copies,
\* conflicts, faults and restarts implements Custody: a resource is in custody
\* before anything is written for it and is let go when nothing of it is left.
THEOREM Implementation ==
  ASSUME FixedSlugs
  PROVE  Spec => KeepsCustody
<1>1. Init => Promised!Init
  BY InitCustody
<1>2. Init => UidsBounded
  BY InitCustody
<1>3. TypeOK /\ UidsBounded /\ [Next]_vars => UidsBounded'
  BY UidsStep
<1>4. TypeOK /\ IndInv /\ CleanupInv /\ UidsBounded /\ [Next]_vars
        => [Promised!Next]_(Promised!vars)
  BY CustodyStep
<1>5. Spec => []UidsBounded
  BY <1>2, <1>3, TypeCorrect, PTL DEF Spec
<1>. QED  BY <1>1, <1>4, <1>5, TypeCorrect, Inductive, CleanupInvariant, PTL
          DEF Spec, KeepsCustody, Promised!Spec

-----------------------------------------------------------------------------
(* The reconcile loop keeps all of this next to the admission webhook, which only
   takes steps away, but for the refusal of an update of the finalizer: that ends
   a reconcile with an error *)

\* A step is one the loop takes without the webhook, or a refusal.
LEMMA AdmissionCases ==
  ASSUME [AdmissionNext]_admissionVars
  PROVE  [Next]_vars \/ \E c \in CRs : RefuseUpdate(c)
BY DEF AdmissionNext, admissionVars, Configure

\* A refusal ends the reconcile of c with a delayed add and changes nothing else.
LEMMA RefusalEnds ==
  ASSUME TypeOK, NEW c \in CRs, RefuseUpdate(c)
  PROVE  /\ ~At(c, "idle") /\ work'[c] = Idle /\ c \in timers'
         /\ \A d \in CRs \ {c} : work'[d] = work[d]
         /\ timers \subseteq timers' /\ UNCHANGED <<queue, kubernetes, authentik, spent>>
BY DEF RefuseUpdate, ReturnRequeue, At, TypeOK

LEMMA RefusalTypes ==
  ASSUME TypeOK, NEW c \in CRs, RefuseUpdate(c)
  PROVE  TypeOK'
<1>1. ControlTypes'
  BY TypeParts, ReturnTypes DEF RefuseUpdate
<1>2. UNCHANGED <<kubernetes, authentik, spent>>
  BY DEF RefuseUpdate
<1>3. KubernetesTypes' /\ AuthentikTypes' /\ SpentType'
  BY <1>2 DEF kubernetes, authentik, KubernetesTypes, AuthentikTypes, SpentType, TypeOK
<1>. QED  BY <1>1, <1>3 DEF TypeOK, KubernetesTypes, AuthentikTypes, ControlTypes, SpentType

LEMMA RefusalIndInv ==
  ASSUME TypeOK, IndInv, NEW c \in CRs, RefuseUpdate(c)
  PROVE  IndInv'
<1>0. KeyInv(c)
  BY DEF IndInv
<1>1. UNCHANGED <<cr, cache, nextUid, queue>> /\ work'[c] = Idle /\ c \in timers'
  BY RefusalEnds DEF kubernetes
<1>2. cr'[c].fin => cache[c].uid = cr'[c].uid
  BY <1>0, <1>1 DEF KeyInv, CacheLags
<1>3. Remembered(c)'
  BY <1>1 DEF Remembered
<1>4. KeyInv(c)'
  BY <1>0, <1>1, <1>2, <1>3, EndsKeyInv
<1>5. nextUid' \in Nat /\ nextUid' >= nextUid
  BY <1>1 DEF TypeOK
<1>6. ASSUME NEW d \in CRs \ {c}
      PROVE  Elsewhere(d)
  BY <1>1, <1>5, RefusalEnds DEF Elsewhere
<1>. QED  BY <1>4, <1>5, <1>6, OthersKeyInv

LEMMA RefusalCleanupInv ==
  ASSUME TypeOK, CleanupInv, NEW c \in CRs, RefuseUpdate(c)
  PROVE  CleanupInv'
<1>1. UNCHANGED <<cr, cache, nextUid, applications>>
  BY RefusalEnds DEF kubernetes, authentik
<1>2. work'[c] = Idle /\ \A d \in CRs \ {c} : work'[d] = work[d]
  BY RefusalEnds
<1>3. \A d \in CRs : \A o \in Copies(d)' : Exists(o) => o \in Copies(d)
  BY <1>1, <1>2, NoCRFields DEF Copies, App, Exists
<1>4. ASSUME NEW d \in CRs
      PROVE  UidsApart(d)'
  BY <1>1, <1>3 DEF CleanupInv, UidsApart, Exists
<1>5. ASSUME NEW d \in CRs
      PROVE  AppDeletedFirst(d)'
  BY <1>1, <1>2, NoCRFields DEF CleanupInv, AppDeletedFirst, App
<1>6. \A s \in Slugs : Owned(s)'
  BY <1>1 DEF CleanupInv, Owned
<1>. QED  BY <1>4, <1>5, <1>6 DEF CleanupInv

\* After a refusal a reconcile is where it was or over, and no copy is a new one.
LEMMA RefusalForgets ==
  ASSUME TypeOK, NEW c \in CRs, RefuseUpdate(c), NEW d \in CRs
  PROVE  /\ work'[d] = work[d] \/ work'[d] = Idle
         /\ App(d)' = App(d) \/ App(d)' = NoCR
         /\ Pids(d)' \subseteq Pids(d) \cup {0}
<1>1. Idle.app = NoCR /\ Idle.pid = 0 /\ NoCR.status.pid = 0
  BY DEF Idle, NoCR, NoStatus
<1>2. work'[d] = work[d] \/ work'[d] = Idle
  BY RefusalEnds
<1>3. UNCHANGED <<cr, cache>>
  BY RefusalEnds DEF kubernetes
<1>. QED  BY <1>1, <1>2, <1>3 DEF App, Pids

LEMMA RefusalVersions ==
  ASSUME TypeOK, VersionInv, NEW c \in CRs, RefuseUpdate(c)
  PROVE  VersionInv'
<1> SUFFICES ASSUME NEW d \in CRs
             PROVE  Versions(d)'
  BY DEF VersionInv
<1>1. UNCHANGED <<cr, cache>> /\ Versions(d)
  BY RefusalEnds DEF kubernetes, VersionInv
<1>2. CASE work'[d] = work[d]
  BY <1>1, <1>2 DEF Versions, Numbered, HonestlyReported, Specified, CopiesLag, Published,
     Copies, App, At, Exists
<1>3. CASE work'[d] = Idle
  <2>1. Idle.pc = "idle" /\ Idle.app = NoCR /\ NoCR.uid = 0
    BY NoCRStatus DEF Idle
  <2>. QED  BY <1>1, <1>3, <2>1 DEF Versions, Numbered, HonestlyReported, Specified, CopiesLag,
            Published, Copies, App, At, Exists
<1>. QED  BY <1>2, <1>3, RefusalForgets

LEMMA RefusalKeys ==
  ASSUME TypeOK, ProviderInv, NameInv, NEW c \in CRs, RefuseUpdate(c)
  PROVE  ProviderInv' /\ NameInv'
<1>1. UNCHANGED <<cr, cache, providers, nextPid>>
  BY RefusalEnds DEF kubernetes, authentik
<1>2. Idle.pc = "idle" /\ \A p \in providers : p.id # 0
  BY DEF Idle, ProviderInv, KeysSpent
<1>3. 0 < nextPid
  BY DEF TypeOK
<1>4. ASSUME NEW d \in CRs
      PROVE  ProviderKnown(d)' /\ NamesKnown(d)'
  <2>1. ProviderKnown(d) /\ NamesKnown(d)
    BY DEF ProviderInv, NameInv
  <2>2. Pids(d)' \subseteq Pids(d) \cup {0} /\ (work'[d] = work[d] \/ work'[d] = Idle)
    BY RefusalForgets
  <2>. QED  BY <1>1, <1>2, <1>3, <2>1, <2>2 DEF ProviderKnown, NamesKnown, At, App, OwnKind
<1>. QED  BY <1>1, <1>4 DEF ProviderInv, KeysSpent, NameInv, NamesUnique

LEMMA RefusalServed ==
  ASSUME TypeOK, NEW c \in CRs, RefuseUpdate(c)
  PROVE  (ProvidersServed => ProvidersServed') /\ (ApplicationsServed => ApplicationsServed')
<1>1. UNCHANGED <<cr, providers, applications, spent>>
  BY RefusalEnds DEF kubernetes, authentik
<1>2. Idle.pc \notin AfterProvider /\ Idle.pc \notin AfterApplication
  BY DEF Idle, AfterProvider, AfterApplication
<1>3. \A d \in CRs : work'[d] = work[d] \/ work'[d] = Idle
  BY RefusalForgets
<1>4. ASSUME NEW d \in CRs
      PROVE  /\ ProviderServed(d) => ProviderServed(d)'
             /\ ApplicationServed(d) => ApplicationServed(d)'
  <2>1. \A pid : ProviderFor(d, cr[d], pid)' = ProviderFor(d, cr[d], pid)
                /\ ApplicationFor(cr[d], pid)' = ApplicationFor(cr[d], pid)
    BY <1>1 DEF ProviderFor, ApplicationFor
  <2>2. Ready(d)' = Ready(d)
    BY <1>1 DEF Ready, Exists
  <2>3. CASE work'[d] = Idle
    BY <1>1, <1>2, <2>1, <2>2, <2>3 DEF ProviderServed, ApplicationServed
  <2>4. CASE work'[d] = work[d]
    BY <1>1, <2>2, <2>4 DEF ProviderServed, ApplicationServed, ProviderFor, ApplicationFor, App
  <2>. QED  BY <1>3, <2>3, <2>4
<1>. QED  BY <1>1, <1>4 DEF ProvidersServed, ApplicationsServed

LEMMA RefusalKeyed ==
  ASSUME TypeOK, SecretsOwned, KeyedInv, NEW c \in CRs, RefuseUpdate(c)
  PROVE  SecretsOwned' /\ KeyedInv'
<1>1. UNCHANGED <<cr, cache, secrets, secretCache, providers, nextPid>>
  BY RefusalEnds DEF kubernetes, authentik
<1>2. Idle.pc = "idle"
  BY DEF Idle
<1>3. ASSUME NEW d \in CRs
      PROVE  SecretPids(d)' = SecretPids(d) /\ Known(d)' \subseteq Known(d) \cup {0}
  <2>1. SecretPids(d)' = SecretPids(d)
    BY <1>1 DEF SecretPids
  <2>. QED  BY <2>1, RefusalForgets DEF Known
<1>4. ASSUME NEW d \in CRs
      PROVE  SecretKnown(d)' /\ KnownApart(d)' /\ Carries(d)'
  <2>1. SecretKnown(d) /\ KnownApart(d) /\ Carries(d)
    BY DEF KeyedInv
  <2>2. work'[d] = work[d] \/ work'[d] = Idle
    BY RefusalForgets
  <2>. QED  BY <1>1, <1>2, <1>3, <2>1, <2>2 DEF SecretKnown, KnownApart, Carries, At, App, OwnKind,
            AfterProvider, AfterApplication
<1>. QED  BY <1>1, <1>4 DEF SecretsOwned, KeyedInv, KeysAgree, ConstantOwned, Exists

LEMMA RefusalKept ==
  ASSUME TypeOK, KeptInv, NEW c \in CRs, RefuseUpdate(c)
  PROVE  KeptInv'
<1> SUFFICES ASSUME NEW d \in CRs
             PROVE  ProviderKept(d)' /\ ApplicationKept(d)'
  BY DEF KeptInv
<1>1. UNCHANGED <<cr, providers, applications>>
  BY RefusalEnds DEF kubernetes, authentik
<1>2. Idle.pc \notin AfterProvider /\ Idle.pc \notin AfterApplication
  BY DEF Idle, AfterProvider, AfterApplication
<1>3. ProviderKept(d) /\ ApplicationKept(d) /\ (Ready(d)' <=> Ready(d))
  BY <1>1 DEF KeptInv, Ready, Exists
<1>4. CASE work'[d] = work[d]
  BY <1>1, <1>3, <1>4 DEF ProviderKept, ApplicationKept, ProviderCurrent, ApplicationCurrent, App,
     Exists, OwnKind
<1>5. CASE work'[d] = Idle
  BY <1>1, <1>2, <1>3, <1>5 DEF ProviderKept, ApplicationKept, ProviderCurrent, ApplicationCurrent,
     Exists, OwnKind
<1>. QED  BY <1>4, <1>5, RefusalForgets

\* The finalizer of a Ready resource is there and stays, so that the webhook is not
\* asked in its reconcile, unless the copy is an old one and the key is queued.
LEMMA RefusalSecrets ==
  ASSUME TypeOK, IndInv, VersionInv, KeyedInv, SecretsServed, NEW c \in CRs, RefuseUpdate(c)
  PROVE  SecretsServed'
<1> SUFFICES ASSUME spent'.faults = 0, NEW d \in CRs
             PROVE  SecretServed(d)'
  BY DEF SecretsServed
<1>1. UNCHANGED <<cr, cache, secrets, secretCache, spent, queue>>
  BY RefusalEnds DEF kubernetes
<1>2. SecretServed(d)
  BY <1>1 DEF SecretsServed
<1>3. CASE work'[d] = work[d]
  BY <1>1, <1>2, <1>3 DEF SecretServed, SecretInPlace, OwnData, At, App, Ready,
     Exists
<1>4. CASE d = c
  <2>1. work'[c] = Idle /\ ~At(c, "idle") /\ Idle.pc = "idle"
    BY RefusalEnds DEF Idle
  <2>2. ASSUME Ready(c), cache[c] = cr[c]
        PROVE  c \in queue
    <3>1. c \notin queue => App(c) = cr[c]
      BY <2>1, <2>2 DEF IndInv, KeyInv, DirtyIsQueued
    <3>2. At(c, "addFinalizer") => App(c) # cr[c]
      BY <2>2 DEF KeyedInv, Carries, VersionInv, Versions, HonestlyReported, Ready
    <3>3. ~At(c, "removeFinalizer")
      BY <2>2, ReadyCopy DEF At, Deleting
    <3>. QED  BY <3>1, <3>2, <3>3 DEF RefuseUpdate, At
  <2>. QED  BY <1>1, <1>4, <2>1, <2>2 DEF SecretServed, SecretInPlace, LookedAfter, OwnData, At,
            Ready, Exists
<1>. QED  BY <1>3, <1>4, RefusalEnds

-----------------------------------------------------------------------------

LEMMA AdmissionInductive == AdmissionSpec => [](TypeOK /\ IndInv)
<1>1. AdmissionInit => TypeOK /\ IndInv
  BY InitTypes, InitIndInv DEF AdmissionInit
<1>2. TypeOK /\ IndInv /\ [AdmissionNext]_admissionVars => TypeOK' /\ IndInv'
  BY AdmissionCases, TypeStep, IndStep, RefusalTypes, RefusalIndInv
<1>. QED  BY <1>1, <1>2, PTL DEF AdmissionSpec

\* With the webhook, switched on and off at any time, writes stay guarded by the
\* finalizer, also when its update is refused,
THEOREM AdmissionGuardsWrites == AdmissionSpec => []WritesGuarded
<1>1. IndInv => WritesGuarded
  BY DEF IndInv, KeyInv, WritesGuarded
<1>. QED  BY <1>1, AdmissionInductive, PTL

\* no resource is forgotten by a refusal, so that a blocked deletion goes on when
\* the webhook lets it,
THEOREM AdmissionForgetsNothing == AdmissionSpec => []NeverForgotten
<1>1. IndInv => NeverForgotten
  BY DEF IndInv, KeyInv, NeverForgotten
<1>. QED  BY <1>1, AdmissionInductive, PTL

\* and while no user edits a slug custody is kept.
THEOREM AdmissionKeepsCustody ==
  ASSUME FixedSlugs
  PROVE  AdmissionSpec => KeepsCustody
<1>. DEFINE Inv == TypeOK /\ IndInv /\ CleanupInv /\ UidsBounded
<1>1. AdmissionInit => Promised!Init /\ Inv
  BY InitTypes, InitIndInv, InitCleanupInv, InitCustody DEF AdmissionInit
<1>2. ASSUME Inv, [AdmissionNext]_admissionVars
      PROVE  Inv' /\ [Promised!Next]_(Promised!vars)
  <2>1. CASE [Next]_vars
    BY <1>2, <2>1, TypeStep, IndStep, CleanupStep, UidsStep, CustodyStep
  <2>2. ASSUME NEW c \in CRs, RefuseUpdate(c)
        PROVE  Inv' /\ [Promised!Next]_(Promised!vars)
    <3>1. UNCHANGED <<cr, applications, nextUid>>
      BY <1>2, <2>2, RefusalEnds DEF kubernetes, authentik
    <3>2. Stutters /\ UidsBounded'
      BY <1>2, <3>1 DEF Stutters, Held, Leaving, Owner, UidsBounded
    <3>. QED  BY <1>2, <2>2, <3>2, RefusalTypes, RefusalIndInv, RefusalCleanupInv,
              StutterAllowed
  <2>. QED  BY <1>2, <2>1, <2>2, AdmissionCases
<1>3. Inv /\ [AdmissionNext]_admissionVars => Inv' /\ [Promised!Next]_(Promised!vars)
  BY <1>2
<1>. QED  BY <1>1, <1>3, PTL DEF AdmissionSpec, KeepsCustody, Promised!Spec

LEMMA AdmissionKeys == AdmissionSpec => [](VersionInv /\ ProviderInv /\ NameInv)
<1>. DEFINE Keys == VersionInv /\ ProviderInv /\ NameInv
<1>1. AdmissionInit => Keys
  BY InitVersions, InitProviderInv, InitNames DEF AdmissionInit
<1>2. ASSUME TypeOK, IndInv, Keys, [AdmissionNext]_admissionVars
      PROVE  Keys'
  <2>1. CASE [Next]_vars
    <3>1. ProviderInv'
      BY <1>2, <2>1, NextCases, CallsProviderInv, OthersProviderInv
    <3>. QED  BY <1>2, <2>1, <3>1, VersionStep, NextCases, CallsNameInv, OthersNameInv
  <2>. QED  BY <1>2, <2>1, AdmissionCases, RefusalVersions, RefusalKeys
<1>3. TypeOK /\ IndInv /\ Keys /\ [AdmissionNext]_admissionVars => Keys'
  BY <1>2
<1>. QED  BY <1>1, <1>3, AdmissionInductive, PTL DEF AdmissionSpec

\* The provider that a status names is gone before its resource, also when the webhook
\* has refused to let the resource go any number of times before.
THEOREM AdmissionProviderBeforeResource == AdmissionSpec => RecordedProviderDeleted
<1>. DEFINE A == \A c \in CRs : cr[c].fin /\ cr'[c].uid # cr[c].uid =>
                   \A p \in providers : p.id # cr[c].status.pid
<1>1. TypeOK /\ ProviderInv /\ [AdmissionNext]_admissionVars => [A]_vars
  <2> SUFFICES ASSUME TypeOK, ProviderInv, [AdmissionNext]_admissionVars,
                      NEW c \in CRs, cr[c].fin, cr'[c].uid # cr[c].uid
               PROVE  \A p \in providers : p.id # cr[c].status.pid
    OBVIOUS
  <2>1. ~(\E d \in CRs : RefuseUpdate(d))
    BY RefusalEnds DEF kubernetes
  <2>2. Next
    BY <2>1, AdmissionCases DEF vars, kubernetes
  <2>. QED  BY <2>2, ProviderGone
<1>. QED  BY <1>1, AdmissionInductive, AdmissionKeys, PTL
          DEF AdmissionSpec, RecordedProviderDeleted

\* Ready tells the truth next to the webhook,
THEOREM AdmissionReadyTellsTheTruth ==
  ASSUME SeparateSlugs
  PROVE  AdmissionSpec => []ReadyMeansSynced
<1>. DEFINE Served == ProvidersServed /\ ApplicationsServed
            Rest == TypeOK /\ IndInv /\ VersionInv /\ ProviderInv /\ NameInv
<1>0. SeparateByKind
  BY DEF SeparateSlugs, SeparateByKind
<1>1. AdmissionInit => Served
  BY InitServed DEF AdmissionInit, ProvidersServed, ApplicationsServed
<1>2. Rest /\ Served /\ [AdmissionNext]_admissionVars => Served'
  BY <1>0, AdmissionCases, ProvidersStep, ApplicationsStep, RefusalServed
<1>3. Served => ReadyMeansSynced
  BY DEF ProvidersServed, ProviderServed, ProviderFor, ApplicationsServed, ApplicationServed,
     ApplicationFor, ReadyMeansSynced, ProviderSynced, ApplicationSynced
<1>. QED  BY <1>1, <1>2, <1>3, AdmissionInductive, AdmissionKeys, PTL DEF AdmissionSpec

\* whatever is left of it after a deletion by an administrator is current,
THEOREM AdmissionIsNeverOutdated ==
  ASSUME SeparateSlugs
  PROVE  AdmissionSpec => []ReadyNeverOutdated
<1>. DEFINE Rest == TypeOK /\ IndInv /\ VersionInv /\ ProviderInv /\ NameInv
<1>1. AdmissionInit => KeptInv
  BY InitKept DEF AdmissionInit
<1>2. Rest /\ KeptInv /\ [AdmissionNext]_admissionVars => KeptInv'
  BY AdmissionCases, KeptStep, RefusalKept
<1>3. KeptInv => ReadyNeverOutdated
  BY DEF KeptInv, ProviderKept, ApplicationKept, ReadyNeverOutdated
<1>. QED  BY <1>1, <1>2, <1>3, AdmissionInductive, AdmissionKeys, PTL DEF AdmissionSpec

\* and the secret of a Ready resource is seen to, but for resources that render the
\* same constant data into one secret (OwnData): the refusal of an update of the
\* finalizer, which requeues with a delay, never strikes a Ready resource whose key
\* is not in the queue already.
THEOREM AdmissionSecretSeenTo ==
  ASSUME SeparateByKind
  PROVE  AdmissionSpec => []SecretSeenTo
<1>. DEFINE Secrets == SecretsOwned /\ KeyedInv /\ SecretsServed
            Rest == TypeOK /\ IndInv /\ VersionInv /\ ProviderInv /\ NameInv
<1>1. AdmissionInit => Secrets
  BY InitOwned, InitKeyed, InitSecretsServed DEF AdmissionInit
<1>2. ASSUME Rest, Secrets, [AdmissionNext]_admissionVars
      PROVE  Secrets'
  <2>1. CASE [Next]_vars
    BY <1>2, <2>1, OwnedStep, KeyedStep, SecretsStep
  <2>. QED  BY <1>2, <2>1, AdmissionCases, RefusalKeyed, RefusalSecrets
<1>3. Rest /\ Secrets /\ [AdmissionNext]_admissionVars => Secrets'
  BY <1>2
<1>4. Secrets => SecretSeenTo
  BY DEF SecretsServed, SecretServed, SecretInPlace, LookedAfter, SecretSeenTo, SecretSynced
<1>. QED  BY <1>1, <1>3, <1>4, AdmissionInductive, AdmissionKeys, PTL DEF AdmissionSpec
=============================================================================
