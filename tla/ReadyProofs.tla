----------------------------- MODULE ReadyProofs -----------------------------
(***************************************************************************)
(* Proofs that Ready tells the truth: while resources do not share slugs   *)
(* and no administrator deletes anything in Authentik, a resource that is  *)
(* Ready for its current generation has its provider and its application   *)
(* there, with the settings of that very generation, however old the copy  *)
(* of the reconcile was that published it; after such a deletion something *)
(* may be missing, and nothing is of another generation.  Its secret is    *)
(* what its spec asks for, or the next reconcile is on its way.            *)
(***************************************************************************)
EXTENDS CleanupProofs

SlugsOf(c) == {a.slug : a \in Specs[c]}

\* Resources of one kind do not share slugs; those of two kinds may.
SeparateByKind ==
  \A c, d \in CRs : c # d /\ Kind(c) = Kind(d) => SlugsOf(c) \cap SlugsOf(d) = {}

SeparateSlugs == \A c, d \in CRs : c # d => SlugsOf(c) \cap SlugsOf(d) = {}

-----------------------------------------------------------------------------
(* The invariant *)

\* Generations count from 1, and a status is never ahead of its resource.
Numbered(c) ==
  /\ Exists(cr[c]) => cr[c].gen >= 1
  /\ cr[c].status.gen <= cr[c].gen

\* Success is published only with the finalizer in place, and never by a report.
HonestlyReported(c) ==
  /\ cr[c].status.reason = "Succeeded" => cr[c].fin
  /\ At(c, "report") => work[c].why # "Succeeded"

Specified(c) == \A o \in Copies(c) : Exists(o) => o.spec \in Specs[c]

\* A copy of the same uid is of this generation and spec, or of an older one.
CopiesLag(c) ==
  Exists(cr[c]) =>
    /\ cache[c].uid = cr[c].uid /\ cache[c].gen = cr[c].gen => cache[c].spec = cr[c].spec
    /\ ~At(c, "idle") /\ App(c).uid = cr[c].uid =>
         /\ App(c).gen <= cache[c].gen
         /\ App(c).gen = cr[c].gen => App(c).spec = cr[c].spec

\* Once a generation is published, no copy of an older one is in use.
Published(c) ==
  Exists(cr[c]) /\ cr[c].status.gen = cr[c].gen =>
    /\ cache[c].uid = cr[c].uid /\ cache[c].gen = cr[c].gen
    /\ ~At(c, "idle") => App(c).uid = cr[c].uid /\ App(c).gen = cr[c].gen

Versions(c) ==
  Numbered(c) /\ HonestlyReported(c) /\ Specified(c) /\ CopiesLag(c) /\ Published(c)

VersionInv == \A c \in CRs : Versions(c)

\* The names and keys of providers are unique, and a resource knows only keys of
\* providers that are named after a slug of its own.
NamesUnique == \A p, q \in providers : p.slug = q.slug \/ p.id = q.id => p = q

NamesKnown(c) ==
  \A p \in providers :
    /\ p.id \in Pids(c) => p.slug \in SlugsOf(c)
    /\ At(c, "updateProvider") /\ p.id = work[c].pid => p.slug = App(c).spec.slug

NameInv == NamesUnique /\ \A c \in CRs : NamesKnown(c)

\* The provider with key pid has the settings of version o of resource c; the
\* application has those of o, and that provider.
ProviderFor(c, o, pid) ==
  \E p \in providers :
    /\ p.id = pid /\ OwnKind(c, p) /\ p.slug = o.spec.slug
    /\ p.uid = o.uid /\ p.gen = o.gen

ApplicationFor(o, pid) ==
  applications[o.spec.slug] = [provider |-> pid, uid |-> o.uid, gen |-> o.gen]

AfterApplication == {"deleteStaleSecret", "getURLs", "writeSecret", "publish"}
AfterProvider == {"findApp", "createApp", "updateApp"} \cup AfterApplication

ProviderServed(c) ==
  /\ work[c].pc \in AfterProvider => ProviderFor(c, App(c), work[c].pid)
  /\ Ready(c) => ProviderFor(c, cr[c], cr[c].status.pid)

ApplicationServed(c) ==
  /\ work[c].pc \in AfterApplication => ApplicationFor(App(c), work[c].pid)
  /\ Ready(c) => ApplicationFor(cr[c], cr[c].status.pid)

-----------------------------------------------------------------------------
(* Frames of the steps *)

LEMMA NoCRStatus ==
  /\ NoCR.status.gen = 0 /\ NoCR.uid = 0 /\ NoCR.gen = 0
  /\ NoCR.status.reason # "Succeeded"
BY DEF NoCR, NoStatus

LEMMA CopyNumbers ==
  ASSUME TypeOK, NEW c \in CRs
  PROVE  /\ cr[c].uid \in Nat /\ cr[c].gen \in Nat /\ cr[c].status.gen \in Nat
         /\ cache[c].uid \in Nat /\ cache[c].gen \in Nat
         /\ App(c).uid \in Nat /\ App(c).gen \in Nat
<1>1. \A o \in CR : o.uid \in Nat /\ o.gen \in Nat /\ o.status.gen \in Nat
  <2>1. \A o \in Object : o.uid \in Nat /\ o.gen \in Nat /\ o.status.gen \in Nat
    BY DEF Object, Status
  <2>. QED  BY <2>1, NoCRStatus DEF CR
<1>2. cr[c] \in CR /\ cache[c] \in CR /\ App(c) \in CR
  BY CopyTypes DEF Copies
<1>. QED  BY <1>1, <1>2

\* What a call does to its resource.
Finalized(c) == cr'[c] = [cr[c] EXCEPT !.fin = TRUE]

Succeeded(c) ==
  /\ At(c, "publish") /\ work'[c] = Idle
  /\ cr'[c] = [cr[c] EXCEPT !.status =
       [pid |-> work[c].pid, secret |-> App(c).spec.secret, gen |-> App(c).gen,
        reason |-> "Succeeded"]]

Reported(c) ==
  /\ At(c, "report") /\ work'[c] = Idle
  /\ cr'[c] = [cr[c] EXCEPT !.status.reason = work[c].why]

LEMMA CallsResource ==
  ASSUME TypeOK, NEW c \in CRs, Calls(c)
  PROVE  \/ cr'[c] = cr[c]
         \/ cr'[c] = NoCR /\ work'[c] = Idle
         \/ /\ Current(c) /\ cr[c] \in Object
            /\ Finalized(c) \/ Succeeded(c) \/ Reported(c)
<1>0. cr \in [CRs -> CR]
  BY DEF TypeOK
<1>1. CASE Syncs(c) \/ Deletes(c)
  BY <1>1, SyncsMove, DeletesMove DEF Moves
<1>2. ASSUME AddFinalizer(c) \/ PublishStatus(c) \/ ReportFailure(c), Current(c)
      PROVE  cr[c] \in Object
  BY <1>2, InProgress DEF Current, AddFinalizer, PublishStatus, ReportFailure, At
<1>3. CASE AddFinalizer(c)
  BY <1>0, <1>2, <1>3 DEF AddFinalizer, Finalized
<1>4. CASE PublishStatus(c)
  BY <1>0, <1>2, <1>4, ReturnIdles DEF PublishStatus, Succeeded
<1>5. CASE ReportFailure(c)
  BY <1>0, <1>2, <1>5, ReturnIdles DEF ReportFailure, Reported
<1>6. CASE RemoveFinalizer(c)
  BY <1>0, <1>6, ReturnIdles DEF RemoveFinalizer
<1>. QED  BY <1>1, <1>3, <1>4, <1>5, <1>6 DEF Calls, Syncs, Deletes

LEMMA CallsBusy ==
  ASSUME NEW c \in CRs, Calls(c)
  PROVE  ~At(c, "idle")
BY DEF Calls, AddFinalizer, FindProvider, CreateProvider, UpdateProvider, FindApp, CreateApp,
   UpdateApp, DeleteStaleSecret, GetURLs, WriteSecret, PublishStatus, ReportFailure,
   FindAppToDelete, DeleteApp, FindProviderToDelete, DeleteProvider, RemoveFinalizer, At

\* No call reports a success as the reason of a failure.
LEMMA CallsReport ==
  ASSUME TypeOK, NEW c \in CRs, Calls(c)
  PROVE  At(c, "report")' => work'[c].why # "Succeeded"
<1>. DEFINE goes == \E step \in Syncing \cup Deleting :
                      \E pid : Goto(c, step) \/ GotoWith(c, step, pid)
            fails == \E why \in {"AuthentikError", "SecretError", "DeletionFailed"} : Fail(c, why)
            ends == Return(c) \/ ReturnRequeue(c)
<1>1. goes \/ fails \/ ends
  <2>1. FindProvider(c) \/ CreateProvider(c) \/ UpdateProvider(c) => goes \/ fails
    BY DEF FindProvider, CreateProvider, UpdateProvider, Syncing
  <2>2. FindApp(c) \/ CreateApp(c) \/ UpdateApp(c) => goes \/ fails
    BY DEF FindApp, CreateApp, UpdateApp, WriteApp, AfterApp, Syncing
  <2>3. DeleteStaleSecret(c) \/ GetURLs(c) \/ WriteSecret(c) => goes \/ fails
    BY DEF DeleteStaleSecret, GetURLs, WriteSecret, Syncing
  <2>4. FailDeletion(c) => fails \/ ends
    BY DEF FailDeletion
  <2>5. Deletes(c) => goes \/ FailDeletion(c)
    BY DEF Deletes, FindAppToDelete, DeleteApp, FindProviderToDelete, DeleteProvider,
       AfterAppDeleted, Deleting
  <2>6. AddFinalizer(c) \/ PublishStatus(c) \/ ReportFailure(c) \/ RemoveFinalizer(c) => ends
    BY DEF AddFinalizer, PublishStatus, ReportFailure, RemoveFinalizer
  <2>. QED  BY <2>1, <2>2, <2>3, <2>4, <2>5, <2>6 DEF Calls, Deletes
<1>2. ~At(c, "idle")
  BY CallsBusy
<1>3. work \in [CRs -> Work] /\ work[c] \in [pc : Steps, app : Object, pid : Nat, why : Reasons]
  BY <1>2, Busy DEF At, TypeOK
<1>4. goes => work'[c].pc # "report"
  BY <1>3 DEF Goto, GotoWith, Syncing, Deleting
<1>5. fails => work'[c].why # "Succeeded"
  BY <1>3 DEF Fail
<1>6. ends => work'[c].pc # "report"
  BY ReturnIdles, NoCRFields
<1>. QED  BY <1>1, <1>4, <1>5, <1>6 DEF At

\* A resource after a step of a user: created, edited or marked for deletion, or gone.
Bumped(c) ==
  /\ Exists(cr[c]) /\ cr'[c].uid = cr[c].uid /\ cr'[c].gen = cr[c].gen + 1
  /\ cr'[c].status = cr[c].status /\ cr'[c].fin = cr[c].fin
  /\ cr'[c].spec = cr[c].spec \/ cr'[c].spec \in Specs[c]

Born(c) ==
  /\ cr'[c].uid = nextUid /\ cr'[c].gen = 1 /\ cr'[c].spec \in Specs[c]
  /\ cr'[c].status = NoStatus

\* The steps that are not calls, as one key sees them.
Untouched(c) == cr'[c] = cr[c] /\ cache'[c] = cache[c] /\ work'[c] = work[c]

Begun(c) ==
  /\ cr'[c] = cr[c] /\ cache'[c] = cache[c]
  /\ work'[c].app = cache[c] /\ work'[c].pid = 0 /\ work'[c].why # "Succeeded"
  /\ work'[c].pc \in {"findAppToDelete", "addFinalizer", "report", "findProvider"}

Delivered(c) ==
  /\ cr'[c] = cr[c] /\ cache'[c] = cr[c]
  /\ work'[c] \in {work[c], Idle}

ByUser(c) ==
  /\ cache'[c] = cache[c] /\ work'[c] = work[c]
  /\ cr'[c] = NoCR \/ Born(c) \/ Bumped(c)

LEMMA OthersSteps ==
  ASSUME TypeOK, NEW c \in CRs,
         (\E d \in CRs : Begins(d)) \/ Manager \/ Environment \/ UNCHANGED vars
  PROVE  Untouched(c) \/ Begun(c) \/ Delivered(c) \/ ByUser(c)
<1>0. cr \in [CRs -> CR] /\ cache \in [CRs -> CR] /\ work \in [CRs -> Work]
  BY DEF TypeOK
<1>1. CASE UNCHANGED <<cr, cache, work>>
  BY <1>1 DEF Untouched
<1>2. ASSUME NEW d \in CRs, Begins(d)
      PROVE  Untouched(c) \/ Begun(c)
  <2>1. work'[d] = work[d] \/ \E why \in {"", "TemplateError"} : work'[d].why = why
    <3>1. ASSUME NEW step, NEW why, Begin(d, step, why)
          PROVE  work'[d].why = why
      BY <1>0, <3>1 DEF Begin
    <3>. QED  BY <1>2, <3>1 DEF Begins, Ignore, BeginDeletion, BeginFinalizer, RejectTemplate,
              BeginSync
  <2>. QED  BY <1>2, <2>1, BeginsWork DEF Untouched, Begun
<1>3. ASSUME NEW d \in CRs, WatchCR(d)
      PROVE  Untouched(c) \/ Delivered(c)
  BY <1>0, <1>3 DEF WatchCR, Untouched, Delivered
<1>4. CASE Restart
  BY <1>0, <1>4 DEF Restart, Delivered
<1>5. ASSUME NEW d \in CRs, CreateCR(d) \/ EditCR(d) \/ DeleteCR(d)
      PROVE  Untouched(c) \/ ByUser(c)
  <2>1. UNCHANGED <<cache, work>>
    BY <1>5 DEF CreateCR, EditCR, DeleteCR
  <2>2. CASE c # d
    BY <1>0, <1>5, <2>1, <2>2 DEF CreateCR, EditCR, DeleteCR, Untouched
  <2>3. ASSUME c = d, CreateCR(c)
        PROVE  Born(c)
    <3>1. PICK spec \in Specs[c] :
            cr' = [cr EXCEPT ![c] = [NoCR EXCEPT !.uid = nextUid, !.gen = 1, !.spec = spec]]
      BY <2>3 DEF CreateCR
    <3>. QED  BY <1>0, <3>1 DEF Born, NoCR
  <2>4. ASSUME c = d, EditCR(c)
        PROVE  Bumped(c)
    <3>1. cr[c] \in Object
      BY <1>0, <2>4, Present DEF EditCR
    <3>2. PICK spec \in Specs[c] : cr' = [cr EXCEPT ![c].spec = spec, ![c].gen = @ + 1]
      BY <2>4 DEF EditCR
    <3>. QED  BY <1>0, <2>4, <3>1, <3>2 DEF EditCR, Bumped, Object
  <2>5. ASSUME c = d, DeleteCR(c)
        PROVE  cr'[c] = NoCR \/ Bumped(c)
    <3>1. cr[c] \in Object
      BY <1>0, <2>5, Present DEF DeleteCR
    <3>2. cr'[c] = IF cr[c].fin THEN [cr[c] EXCEPT !.del = TRUE, !.gen = @ + 1] ELSE NoCR
      BY <1>0, <2>5 DEF DeleteCR
    <3>3. Exists(cr[c])
      BY <2>5 DEF DeleteCR
    <3>4. ASSUME cr'[c] = [cr[c] EXCEPT !.del = TRUE, !.gen = @ + 1]
          PROVE  /\ cr'[c].uid = cr[c].uid /\ cr'[c].gen = cr[c].gen + 1
                 /\ cr'[c].status = cr[c].status /\ cr'[c].fin = cr[c].fin
                 /\ cr'[c].spec = cr[c].spec
      BY <3>1, <3>4 DEF Object
    <3>. QED  BY <3>2, <3>3, <3>4 DEF Bumped
  <2>. QED  BY <1>5, <2>1, <2>2, <2>3, <2>4, <2>5 DEF ByUser
<1>6. \/ UNCHANGED <<cr, cache, work>>
      \/ \E d \in CRs : Begins(d) \/ WatchCR(d) \/ CreateCR(d) \/ EditCR(d) \/ DeleteCR(d)
      \/ Restart
  BY DEF Manager, TimerFires, WatchSecret, Environment, CollectSecret, Drift, DriftSecret,
     DriftApp, DriftProvider, kubernetes, vars
<1>. QED  BY <1>1, <1>2, <1>3, <1>4, <1>5, <1>6

-----------------------------------------------------------------------------
(* Versions *)

LEMMA SameVersions ==
  ASSUME NEW c \in CRs, Versions(c), Untouched(c)
  PROVE  Versions(c)'
BY DEF Versions, Numbered, HonestlyReported, Specified, CopiesLag, Published, Copies, App, At,
   Exists, Untouched

LEMMA CallsVersions ==
  ASSUME TypeOK, IndInv, NEW c \in CRs, Versions(c), Calls(c)
  PROVE  Versions(c)'
<1>n. /\ cr[c].uid \in Nat /\ cr[c].gen \in Nat /\ cr[c].status.gen \in Nat
      /\ cache[c].uid \in Nat /\ cache[c].gen \in Nat
      /\ App(c).uid \in Nat /\ App(c).gen \in Nat
  BY CopyNumbers
<1>0. Idle.pc = "idle" /\ Idle.app.uid = 0 /\ Idle.app = NoCR /\ cache'[c] = cache[c]
  BY NoCRFields, CallsOthers DEF Idle
<1>1. work'[c] = Idle \/ (~At(c, "idle") /\ App(c)' = App(c))
  <2>1. ~At(c, "idle")
    BY CallsBusy
  <2>. QED  BY <2>1, CallsApp
<1>2. At(c, "report")' => work'[c].why # "Succeeded"
  BY CallsReport
<1>3. CASE cr'[c] = cr[c]
  <2>1. Numbered(c)' /\ HonestlyReported(c)'
    BY <1>n, <1>2, <1>3, NoCRStatus DEF Versions, Numbered, HonestlyReported, Exists
  <2>2. Specified(c)'
    BY <1>n, <1>0, <1>1, <1>3, NoCRStatus DEF Versions, Specified, Copies, App, Exists
  <2>3. CopiesLag(c)' /\ Published(c)'
    BY <1>n, <1>0, <1>1, <1>3, NoCRStatus DEF Versions, CopiesLag, Published, At, App, Exists
  <2>. QED  BY <2>1, <2>2, <2>3 DEF Versions
<1>4. CASE cr'[c] = NoCR /\ work'[c] = Idle
  BY <1>n, <1>0, <1>4, NoCRStatus DEF Versions, Numbered, HonestlyReported, Specified,
     CopiesLag, Published, Copies, At, App, Exists
<1>5. ASSUME Current(c), cr[c] \in Object, Finalized(c) \/ Reported(c)
      PROVE  Versions(c)'
  <2>1. /\ cr'[c].uid = cr[c].uid /\ cr'[c].gen = cr[c].gen /\ cr'[c].spec = cr[c].spec
        /\ cr'[c].status.gen = cr[c].status.gen
    BY <1>5 DEF Finalized, Reported, Object, Status
  <2>2. cr'[c].status.reason = "Succeeded" => cr'[c].fin
    <3>1. CASE Finalized(c)
      BY <1>5, <3>1 DEF Finalized, Object
    <3>2. CASE Reported(c)
      BY <1>5, <3>2 DEF Reported, Object, Status, Versions, HonestlyReported
    <3>. QED  BY <1>5, <3>1, <3>2
  <2>3. Numbered(c)' /\ HonestlyReported(c)'
    BY <1>n, <1>2, <2>1, <2>2, NoCRStatus DEF Versions, Numbered, HonestlyReported, Exists
  <2>4. Specified(c)'
    BY <1>n, <1>0, <1>1, <2>1, NoCRStatus DEF Versions, Specified, Copies, App, Exists
  <2>5. CopiesLag(c)' /\ Published(c)'
    BY <1>n, <1>0, <1>1, <2>1, NoCRStatus DEF Versions, CopiesLag, Published, At, App, Exists
  <2>. QED  BY <2>3, <2>4, <2>5 DEF Versions
<1>6. ASSUME Current(c), cr[c] \in Object, Succeeded(c)
      PROVE  Versions(c)'
  <2>1. /\ cr'[c].uid = cr[c].uid /\ cr'[c].gen = cr[c].gen /\ cr'[c].spec = cr[c].spec
        /\ cr'[c].fin = cr[c].fin /\ cr'[c].status.gen = cr[c].gen
    <3>1. App(c).gen = cr[c].gen
      BY <1>6 DEF Current
    <3>. QED  BY <1>6, <3>1 DEF Succeeded, Object
  <2>2. work'[c] = Idle /\ ~At(c, "idle") /\ work[c].pc \in Syncing
    BY <1>6 DEF Succeeded, At, Syncing
  <2>3. cr[c].fin /\ cr[c].uid = App(c).uid /\ cache[c].uid = cr[c].uid
        /\ cache[c].gen <= cr[c].gen
    BY <2>2 DEF IndInv, KeyInv, Guarded, CacheLags
  <2>4. Exists(cr[c])
    BY <1>6 DEF Object, Exists
  <2>5. cache[c].gen = cr[c].gen
    BY <1>n, <1>6, <2>2, <2>3, <2>4, NoCRStatus DEF Versions, CopiesLag, Current
  <2>6. Numbered(c)' /\ HonestlyReported(c)'
    BY <1>n, <1>0, <2>1, <2>2, <2>3, NoCRStatus DEF Versions, Numbered, HonestlyReported, Exists, At
  <2>7. Specified(c)'
    BY <1>n, <1>0, <2>1, <2>2, NoCRStatus DEF Versions, Specified, Copies, App, Exists
  <2>8. CopiesLag(c)' /\ Published(c)'
    BY <1>n, <1>0, <2>1, <2>2, <2>3, <2>5, NoCRStatus DEF Versions, CopiesLag, Published, At,
       App, Exists
  <2>. QED  BY <2>6, <2>7, <2>8 DEF Versions
<1>. QED  BY <1>3, <1>4, <1>5, <1>6, CallsResource

LEMMA OthersVersions ==
  ASSUME TypeOK, IndInv, NEW c \in CRs, Versions(c), Begun(c) \/ Delivered(c) \/ ByUser(c)
  PROVE  Versions(c)'
<1>n. /\ cr[c].uid \in Nat /\ cr[c].gen \in Nat /\ cr[c].status.gen \in Nat
      /\ cache[c].uid \in Nat /\ cache[c].gen \in Nat
      /\ App(c).uid \in Nat /\ App(c).gen \in Nat
  BY CopyNumbers
<1>v. Numbered(c) /\ HonestlyReported(c) /\ Specified(c) /\ CopiesLag(c) /\ Published(c)
  BY DEF Versions
<1>0. Idle.pc = "idle" /\ Idle.app.uid = 0 /\ Idle.app = NoCR
  BY NoCRFields DEF Idle
<1>1. /\ cache[c].uid = cr[c].uid => cache[c].gen <= cr[c].gen
      /\ ~At(c, "idle") /\ App(c).uid = cr[c].uid => cache[c].uid = cr[c].uid
      /\ cache[c].uid < nextUid /\ App(c).uid < nextUid
  BY DEF IndInv, KeyInv, CacheLags, UidsAllocated
<1>2. CASE Begun(c)
  <2>1. Numbered(c)'
    BY <1>v, <1>2 DEF Numbered, Begun, Exists
  <2>2. HonestlyReported(c)'
    BY <1>v, <1>2 DEF HonestlyReported, Begun, At
  <2>3. Specified(c)'
    BY <1>v, <1>2 DEF Specified, Copies, Begun, App
  <2>4. CopiesLag(c)'
    BY <1>n, <1>v, <1>2 DEF CopiesLag, Begun, App, At, Exists
  <2>5. Published(c)'
    BY <1>v, <1>2 DEF Published, Begun, App, Exists
  <2>. QED  BY <2>1, <2>2, <2>3, <2>4, <2>5 DEF Versions
<1>3. CASE Delivered(c)
  <2>1. work'[c] = Idle \/ (work'[c] = work[c] /\ App(c)' = App(c))
    BY <1>3 DEF Delivered, App
  <2>2. Numbered(c)'
    BY <1>v, <1>3 DEF Numbered, Delivered, Exists
  <2>3. HonestlyReported(c)'
    BY <1>v, <1>0, <1>3 DEF HonestlyReported, Delivered, At
  <2>4. Specified(c)'
    <3>1. ~Exists(App(c)') \/ App(c)' = App(c)
      BY <1>0, <2>1 DEF App, Exists
    <3>. QED  BY <1>v, <1>3, <3>1 DEF Specified, Copies, Delivered
  <2>5. CopiesLag(c)'
    <3>1. At(c, "idle")' \/ (~At(c, "idle") /\ App(c)' = App(c))
      BY <1>0, <2>1 DEF At
    <3>. QED  BY <1>n, <1>v, <1>1, <1>3, <3>1 DEF CopiesLag, Delivered, Exists
  <2>6. Published(c)'
    <3>1. At(c, "idle")' \/ (~At(c, "idle") /\ App(c)' = App(c))
      BY <1>0, <2>1 DEF At
    <3>. QED  BY <1>v, <1>3, <3>1 DEF Published, Delivered, Exists
  <2>. QED  BY <2>2, <2>3, <2>4, <2>5, <2>6 DEF Versions
<1>4. ASSUME ByUser(c)
      PROVE  Versions(c)'
  <2>0. /\ cache'[c] = cache[c] /\ work'[c] = work[c]
        /\ App(c)' = App(c) /\ (At(c, "idle")' <=> At(c, "idle"))
        /\ cr'[c] = NoCR \/ Born(c) \/ Bumped(c)
    BY <1>4 DEF ByUser, App, At
  <2>1. CASE cr'[c] = NoCR
    <3>1. Numbered(c)' /\ CopiesLag(c)' /\ Published(c)'
      BY <2>1, NoCRStatus DEF Numbered, CopiesLag, Published, Exists
    <3>2. HonestlyReported(c)'
      BY <1>v, <2>0, <2>1, NoCRStatus DEF HonestlyReported, At
    <3>3. Specified(c)'
      BY <1>v, <2>0, <2>1, NoCRStatus DEF Specified, Copies, Exists
    <3>. QED  BY <3>1, <3>2, <3>3 DEF Versions
  <2>2. CASE Born(c)
    <3>1. nextUid \in Nat /\ cr'[c].uid = nextUid /\ cr'[c].gen = 1
      BY <2>2 DEF Born, TypeOK
    <3>2. NoStatus.gen = 0 /\ NoStatus.reason # "Succeeded"
      BY DEF NoStatus
    <3>3. cr'[c].status.gen = 0 /\ cr'[c].status.reason # "Succeeded"
      BY <2>2, <3>2 DEF Born
    <3>4. Numbered(c)'
      BY <3>1, <3>3 DEF Numbered
    <3>5. HonestlyReported(c)'
      BY <1>v, <2>0, <3>3 DEF HonestlyReported, At
    <3>6. Specified(c)'
      BY <1>v, <2>0, <2>2 DEF Specified, Copies, Born
    <3>7. CopiesLag(c)'
      BY <1>n, <1>1, <2>0, <3>1 DEF CopiesLag
    <3>8. Published(c)'
      BY <3>1, <3>3 DEF Published
    <3>. QED  BY <3>4, <3>5, <3>6, <3>7, <3>8 DEF Versions
  <2>3. CASE Bumped(c)
    <3>1. Numbered(c)'
      BY <1>n, <1>v, <2>3 DEF Numbered, Bumped
    <3>2. HonestlyReported(c)'
      BY <1>v, <2>0, <2>3 DEF HonestlyReported, Bumped, At
    <3>3. Specified(c)'
      BY <1>v, <2>0, <2>3 DEF Specified, Copies, Bumped, Exists
    <3>4. CopiesLag(c)'
      BY <1>n, <1>v, <1>1, <2>0, <2>3 DEF CopiesLag, Bumped
    <3>5. Published(c)'
      BY <1>n, <1>v, <2>3 DEF Numbered, Published, Bumped
    <3>. QED  BY <3>1, <3>2, <3>3, <3>4, <3>5 DEF Versions
  <2>. QED  BY <2>0, <2>1, <2>2, <2>3
<1>. QED  BY <1>2, <1>3, <1>4

LEMMA VersionStep ==
  TypeOK /\ IndInv /\ VersionInv /\ [Next]_vars => VersionInv'
<1> SUFFICES ASSUME TypeOK, IndInv, VersionInv, [Next]_vars, NEW c \in CRs
             PROVE  Versions(c)'
  BY DEF VersionInv
<1>1. Versions(c)
  BY DEF VersionInv
<1>2. ASSUME NEW d \in CRs, Calls(d)
      PROVE  Versions(c)'
  <2>1. d # c => Untouched(c)
    BY <1>2, CallsOthers DEF Untouched, TypeOK
  <2>. QED  BY <1>1, <1>2, <2>1, SameVersions, CallsVersions
<1>. QED  BY <1>1, <1>2, NextCases, OthersSteps, OthersVersions, SameVersions

LEMMA InitVersions == Init => VersionInv
<1> SUFFICES ASSUME Init, NEW c \in CRs
             PROVE  Versions(c)
  BY DEF VersionInv
<1>1. cr[c] = NoCR /\ cache[c] = NoCR /\ work[c] = Idle
  BY DEF Init
<1>2. Idle.pc = "idle" /\ Idle.app = NoCR
  BY DEF Idle
<1>3. ~Exists(cr[c]) /\ ~Exists(cache[c]) /\ ~Exists(App(c)) /\ At(c, "idle")
  BY <1>1, <1>2, NoCRStatus DEF Exists, App, At
<1>4. Numbered(c)
  BY <1>1, <1>3, NoCRStatus DEF Numbered
<1>5. HonestlyReported(c)
  BY <1>1, <1>2, NoCRStatus DEF HonestlyReported, At
<1>6. Specified(c) /\ CopiesLag(c) /\ Published(c)
  BY <1>3 DEF Specified, CopiesLag, Published, Copies
<1>. QED  BY <1>4, <1>5, <1>6 DEF Versions

LEMMA VersionsKnown == Spec => []VersionInv
<1>1. Init => VersionInv
  BY InitVersions
<1>. QED  BY <1>1, VersionStep, TypeCorrect, Inductive, PTL DEF Spec

-----------------------------------------------------------------------------
(* Names *)

\* What the calls do to the providers.
Created(c) ==
  /\ At(c, "createProvider")
  /\ providers' = providers \cup
       {[id |-> nextPid, kind |-> Kind(c), slug |-> App(c).spec.slug,
         uid |-> App(c).uid, gen |-> App(c).gen]}
  /\ \A p \in providers : p.slug # App(c).spec.slug

Updated(c) ==
  LET found == {p \in providers : p.id = work[c].pid} IN
  /\ At(c, "updateProvider") /\ found # {}
  /\ providers' = (providers \ found) \cup
       {[p EXCEPT !.uid = App(c).uid, !.gen = App(c).gen] : p \in found}

Destroyed(c) ==
  /\ At(c, "deleteProvider") /\ DestroyProvider(App(c).status.pid)
  /\ HasProvider(App(c).status.pid)

LEMMA CallsProviders ==
  ASSUME NEW c \in CRs, Calls(c)
  PROVE  UNCHANGED providers \/ Created(c) \/ Updated(c) \/ Destroyed(c)
<1>1. CreateProvider(c) => UNCHANGED providers \/ Created(c)
  BY DEF CreateProvider, Created
<1>2. UpdateProvider(c) => UNCHANGED providers \/ Updated(c)
  BY DEF UpdateProvider, Updated
<1>3. DeleteProvider(c) => UNCHANGED providers \/ Destroyed(c)
  BY DEF DeleteProvider, Destroyed
<1>4. ASSUME ~CreateProvider(c), ~UpdateProvider(c), ~DeleteProvider(c)
      PROVE  UNCHANGED providers
  BY <1>4 DEF Calls, AddFinalizer, FindProvider, FindApp, CreateApp, UpdateApp, WriteApp,
     DeleteStaleSecret, GetURLs, WriteSecret, PublishStatus, ReportFailure, FindAppToDelete,
     DeleteApp, FindProviderToDelete, RemoveFinalizer, authentik
<1>. QED  BY <1>1, <1>2, <1>3, <1>4

\* The fields of a provider that an update leaves alone.
LEMMA UpdateKeeps ==
  ASSUME TypeOK, NEW c \in CRs, NEW p \in providers
  PROVE  LET q == [p EXCEPT !.uid = App(c).uid, !.gen = App(c).gen] IN
         /\ q.id = p.id /\ q.kind = p.kind /\ q.slug = p.slug
         /\ q.uid = App(c).uid /\ q.gen = App(c).gen
BY DEF TypeOK, Provider

NamesOnlyAdded ==
  \A q \in providers' : (\E p \in providers : p.id = q.id /\ p.slug = q.slug) \/ q.id = nextPid

LEMMA CallsNames ==
  ASSUME TypeOK, KeysSpent, NamesUnique, NEW c \in CRs, Calls(c)
  PROVE  NamesOnlyAdded /\ NamesUnique'
<1>1. CASE providers' \subseteq providers
  BY <1>1 DEF NamesOnlyAdded, NamesUnique
<1>2. CASE Created(c)
  <2>1. \A p \in providers : p.id < nextPid /\ p.id \in Nat /\ nextPid \in Nat
    BY DEF KeysSpent, TypeOK, Provider
  <2>2. \A q \in providers' : q \in providers \/ (q.id = nextPid /\ q.slug = App(c).spec.slug)
    BY <1>2 DEF Created
  <2>3. ASSUME NEW p \in providers', NEW q \in providers', p.slug = q.slug \/ p.id = q.id
        PROVE  p = q
    <3>1. CASE p \in providers /\ q \in providers
      BY <2>3, <3>1 DEF NamesUnique
    <3>2. ASSUME NEW r \in providers, NEW t \in providers' \ providers
          PROVE  r.slug # t.slug /\ r.id # t.id
      <4>1. t.id = nextPid /\ t.slug = App(c).spec.slug
        BY <2>2, <3>2
      <4>. QED  BY <1>2, <2>1, <4>1 DEF Created
    <3>3. CASE p \notin providers /\ q \notin providers
      BY <1>2, <3>3 DEF Created
    <3>. QED  BY <2>3, <3>1, <3>2, <3>3
  <2>. QED  BY <2>2, <2>3 DEF NamesOnlyAdded, NamesUnique
<1>3. CASE Updated(c)
  <2>. DEFINE new(p) == [p EXCEPT !.uid = App(c).uid, !.gen = App(c).gen]
  <2>1. \A q \in providers' : \E p \in providers :
          /\ p.id = q.id /\ p.slug = q.slug
          /\ q = IF p.id = work[c].pid THEN new(p) ELSE p
    <3>1. ASSUME NEW q \in providers', q \in providers, q.id # work[c].pid
          PROVE  \E p \in providers :
                   /\ p.id = q.id /\ p.slug = q.slug
                   /\ q = IF p.id = work[c].pid THEN new(p) ELSE p
      BY <3>1
    <3>2. ASSUME NEW q, NEW p \in providers, p.id = work[c].pid, q = new(p)
          PROVE  p.id = q.id /\ p.slug = q.slug
      BY <3>2, UpdateKeeps
    <3>. QED  BY <1>3, <3>1, <3>2 DEF Updated
  <2>2. ASSUME NEW q \in providers', NEW r \in providers', q.slug = r.slug \/ q.id = r.id
        PROVE  q = r
    <3>1. PICK p \in providers :
            /\ p.id = q.id /\ p.slug = q.slug
            /\ q = IF p.id = work[c].pid THEN new(p) ELSE p
      BY <2>1
    <3>2. PICK o \in providers :
            /\ o.id = r.id /\ o.slug = r.slug
            /\ r = IF o.id = work[c].pid THEN new(o) ELSE o
      BY <2>1
    <3>3. p = o
      BY <2>2, <3>1, <3>2 DEF NamesUnique
    <3>. QED  BY <3>1, <3>2, <3>3
  <2>3. NamesOnlyAdded
    BY <2>1 DEF NamesOnlyAdded
  <2>. QED  BY <2>2, <2>3 DEF NamesUnique
<1>. QED  BY <1>1, <1>2, <1>3, CallsProviders DEF Destroyed, DestroyProvider

\* How a reconcile comes to the key of a provider.
Found(c) ==
  \E p \in providers :
    /\ p.slug = App(c).spec.slug /\ OwnKind(c, p)
    /\ work'[c].app = App(c) /\ work'[c].pid = p.id /\ work'[c].pc = "updateProvider"
    /\ UNCHANGED <<cr, cache, providers>>

Made(c) ==
  /\ Created(c) /\ UNCHANGED <<cr, cache>>
  /\ work'[c].app = App(c) /\ work'[c].pid = nextPid /\ work'[c].pc = "findApp"

LEMMA CallsLearn ==
  ASSUME TypeOK, NEW c \in CRs, Calls(c)
  PROVE  (Kept(c) /\ work'[c].pc # "updateProvider") \/ Found(c) \/ Made(c)
<1>. USE GotoMovesOn, GotoWithMovesOn, FailMovesOn, ReturnIdles, FailDeletionMovesOn
     DEF At, Kept
<1>0. Idle.pc # "updateProvider"
  BY DEF Idle
<1>1. ASSUME FindProvider(c)
      PROVE  (Kept(c) /\ work'[c].pc # "updateProvider") \/ Found(c)
  BY <1>1 DEF FindProvider, Found, kubernetes, authentik
<1>2. ASSUME CreateProvider(c)
      PROVE  (Kept(c) /\ work'[c].pc # "updateProvider") \/ Made(c)
  <2>1. CASE \E why : Fail(c, why)
    BY <1>2, <2>1 DEF CreateProvider
  <2>2. CASE GotoWith(c, "findApp", nextPid)
    BY <1>2, <2>2 DEF CreateProvider, Made, Created, kubernetes, Fail
  <2>. QED  BY <1>2, <2>1, <2>2 DEF CreateProvider
<1>3. ASSUME ~FindProvider(c), ~CreateProvider(c)
      PROVE  Kept(c) /\ work'[c].pc # "updateProvider"
  <2>1. UpdateProvider(c) \/ FindApp(c) => work'[c].pc # "updateProvider"
    <3>1. UpdateProvider(c) => ~At(c, "idle") /\ (Goto(c, "findApp") \/ \E why : Fail(c, why))
      BY DEF UpdateProvider
    <3>2. FindApp(c) => /\ ~At(c, "idle")
                        /\ \/ Goto(c, "updateApp") \/ Goto(c, "createApp")
                           \/ \E why : Fail(c, why)
      BY DEF FindApp
    <3>. QED  BY <3>1, <3>2
  <2>5. CreateApp(c) \/ UpdateApp(c) => work'[c].pc # "updateProvider"
    BY DEF CreateApp, UpdateApp, WriteApp, AfterApp
  <2>2. DeleteStaleSecret(c) \/ GetURLs(c) \/ WriteSecret(c) => work'[c].pc # "updateProvider"
    BY DEF DeleteStaleSecret, GetURLs, WriteSecret
  <2>3. AddFinalizer(c) \/ PublishStatus(c) \/ ReportFailure(c) \/ RemoveFinalizer(c)
          => work'[c].pc # "updateProvider"
    BY <1>0 DEF AddFinalizer, PublishStatus, ReportFailure, RemoveFinalizer
  <2>4. Deletes(c) => work'[c].pc # "updateProvider"
    BY <1>0 DEF Deletes, FindAppToDelete, DeleteApp, FindProviderToDelete, DeleteProvider,
       AfterAppDeleted
  <2>. QED  BY <1>3, <2>1, <2>2, <2>3, <2>4, <2>5, CallsKept DEF Calls, Deletes
<1>. QED  BY <1>1, <1>2, <1>3

LEMMA NamesFrame ==
  ASSUME TypeOK, KeysSpent, KeysSpent', NamesOnlyAdded,
         NEW c \in CRs, ProviderKnown(c), NamesKnown(c),
         Pids(c)' \subseteq Pids(c) \cup {0},
         At(c, "updateProvider")' => work'[c] = work[c]
  PROVE  NamesKnown(c)'
<1> SUFFICES ASSUME NEW q \in providers'
             PROVE  /\ q.id \in Pids(c)' => q.slug \in SlugsOf(c)
                    /\ At(c, "updateProvider")' /\ q.id = work'[c].pid =>
                         q.slug = work'[c].app.spec.slug
  BY DEF NamesKnown, SlugsOf, App
<1>1. nextPid \notin Pids(c) /\ q.id # 0 /\ work[c].pid \in Pids(c)
  BY PidTypes DEF ProviderKnown, KeysSpent, Pids, TypeOK
<1>2. ASSUME NEW p \in providers, p.id = q.id, p.slug = q.slug
      PROVE  /\ q.id \in Pids(c)' => q.slug \in SlugsOf(c)
             /\ At(c, "updateProvider")' /\ q.id = work'[c].pid =>
                  q.slug = work'[c].app.spec.slug
  BY <1>1, <1>2 DEF NamesKnown, At, App
<1>3. ASSUME q.id = nextPid
      PROVE  q.id \notin Pids(c)' /\ (At(c, "updateProvider")' => q.id # work'[c].pid)
  BY <1>1, <1>3
<1>. QED  BY <1>2, <1>3 DEF NamesOnlyAdded

LEMMA CallsNameInv ==
  ASSUME TypeOK, VersionInv, ProviderInv, ProviderInv', NameInv, NEW c \in CRs, Calls(c)
  PROVE  NameInv'
<1>n. NamesOnlyAdded /\ NamesUnique'
  BY CallsNames DEF ProviderInv, NameInv
<1>s. UNCHANGED cache /\ \A d \in CRs \ {c} : cr'[d] = cr[d] /\ work'[d] = work[d]
  BY CallsOthers
<1>1. ASSUME NEW d \in CRs \ {c}
      PROVE  NamesKnown(d)'
  <2>1. Pids(d)' \subseteq Pids(d) \cup {0}
    BY <1>s DEF Pids, App
  <2>. QED  BY <1>n, <1>s, <2>1, NamesFrame DEF ProviderInv, NameInv
<1>2. CASE Kept(c) /\ work'[c].pc # "updateProvider"
  <2>1. Idle.app.status.pid = 0 /\ Idle.pid = 0
    BY DEF Idle, NoCR, NoStatus
  <2>2. Pids(c)' \subseteq Pids(c) \cup {0}
    BY <1>s, <1>2, <2>1, StatusPids DEF Kept, MovesOn, Pids, App
  <2>3. NamesKnown(c)'
    BY <1>n, <1>2, <2>2, NamesFrame DEF ProviderInv, NameInv, At
  <2>. QED  BY <1>n, <1>1, <2>3 DEF NameInv
<1>u. ~At(c, "idle") => App(c).spec.slug \in SlugsOf(c)
  <2>1. ~At(c, "idle") => Exists(App(c))
    BY InProgress DEF Exists
  <2>. QED  BY <2>1 DEF VersionInv, Versions, Specified, Copies, SlugsOf
<1>i. ~At(c, "idle")
  BY CallsBusy
<1>3. ASSUME Found(c)
      PROVE  NameInv'
  <2>1. PICK p \in providers :
          /\ p.slug = App(c).spec.slug
          /\ work'[c].app = App(c) /\ work'[c].pid = p.id /\ UNCHANGED <<cr, cache, providers>>
    BY <1>3 DEF Found
  <2>2. Pids(c)' \subseteq Pids(c) \cup {p.id}
    BY <2>1 DEF Pids, App
  <2>3. \A q \in providers : q.id = p.id => q.slug = App(c).spec.slug
    BY <2>1 DEF NameInv, NamesUnique
  <2>4. NamesKnown(c)'
    BY <1>u, <1>i, <2>1, <2>2, <2>3 DEF NameInv, NamesKnown, App, SlugsOf
  <2>. QED  BY <1>n, <1>1, <2>4 DEF NameInv
<1>4. ASSUME Made(c)
      PROVE  NameInv'
  <2>1. Pids(c)' \subseteq Pids(c) \cup {nextPid}
    BY <1>4 DEF Made, Pids, App
  <2>2. \A p \in providers : p.id # nextPid
    BY DEF ProviderInv, KeysSpent, TypeOK, Provider
  <2>3. \A q \in providers' : q \in providers \/ q.slug = App(c).spec.slug
    BY <1>4 DEF Made, Created
  <2>4. work'[c].pc # "updateProvider"
    BY <1>4 DEF Made
  <2>5. NamesKnown(c)'
    BY <1>u, <1>i, <2>1, <2>2, <2>3, <2>4 DEF NameInv, NamesKnown, At, SlugsOf
  <2>. QED  BY <1>n, <1>1, <2>5 DEF NameInv
<1>. QED  BY <1>2, <1>3, <1>4, CallsLearn

LEMMA OthersNameInv ==
  ASSUME TypeOK, ProviderInv, ProviderInv', NameInv,
         (\E c \in CRs : Begins(c)) \/ Manager \/ Environment \/ UNCHANGED vars
  PROVE  NameInv'
<1>1. providers' \subseteq providers
  BY DEF Begins, Ignore, BeginDeletion, BeginFinalizer, RejectTemplate, BeginSync, Dequeue,
     Manager, WatchCR, TimerFires, WatchSecret, Restart, Environment, CreateCR, EditCR, DeleteCR,
     CollectSecret, Drift, DriftSecret, DriftApp, DriftProvider, DestroyProvider, authentik, vars
<1>2. NamesOnlyAdded /\ NamesUnique'
  BY <1>1 DEF NamesOnlyAdded, NameInv, NamesUnique
<1>3. ASSUME NEW c \in CRs
      PROVE  NamesKnown(c)'
  <2>0. Idle.app.status.pid = 0 /\ Idle.pid = 0 /\ Idle.pc = "idle"
        /\ NoCR.status.pid = 0 /\ NoStatus.pid = 0
    BY DEF Idle, NoCR, NoStatus
  <2>1. Untouched(c) \/ Begun(c) \/ Delivered(c) \/ ByUser(c)
    BY OthersSteps
  <2>2. Pids(c)' \subseteq Pids(c) \cup {0}
    <3>1. Untouched(c) \/ Begun(c) => Pids(c)' \subseteq Pids(c) \cup {0}
      BY DEF Untouched, Begun, Pids, App
    <3>2. Delivered(c) => Pids(c)' \subseteq Pids(c) \cup {0}
      BY <2>0 DEF Delivered, Pids, App
    <3>3. ASSUME ByUser(c)
          PROVE  Pids(c)' \subseteq Pids(c) \cup {0}
      <4>1. cr'[c].status.pid \in {cr[c].status.pid, 0}
        BY <2>0, <3>3 DEF ByUser, Born, Bumped
      <4>. QED  BY <3>3, <4>1 DEF ByUser, Pids, App
    <3>. QED  BY <2>1, <3>1, <3>2, <3>3
  <2>3. At(c, "updateProvider")' => work'[c] = work[c]
    BY <2>0, <2>1 DEF Untouched, Begun, Delivered, ByUser, At
  <2>. QED  BY <1>2, <2>2, <2>3, NamesFrame DEF ProviderInv, NameInv
<1>. QED  BY <1>2, <1>3 DEF NameInv

LEMMA InitNames == Init => NameInv
BY DEF Init, NameInv, NamesUnique, NamesKnown

LEMMA NamesAreKnown == Spec => []NameInv
<1>1. Init => NameInv
  BY InitNames
<1>2. TypeOK /\ VersionInv /\ ProviderInv /\ ProviderInv' /\ NameInv /\ [Next]_vars => NameInv'
  BY NextCases, CallsNameInv, OthersNameInv
<1>. QED  BY <1>1, <1>2, TypeCorrect, VersionsKnown, ProviderKeys, PTL DEF Spec

-----------------------------------------------------------------------------
(* What a Ready resource has *)

\* A call of one key spares the providers of the others.
LEMMA ProvidersSpared ==
  ASSUME TypeOK, NEW c \in CRs, Calls(c), NEW p \in providers, p.id \notin Pids(c)
  PROVE  p \in providers'
<1>1. p.id # work[c].pid /\ p.id # App(c).status.pid
  BY DEF Pids
<1>. QED  BY <1>1, CallsProviders DEF Created, Updated, Destroyed, DestroyProvider

\* A provider for c that the call of another resource finds belongs to that other one.
LEMMA ProviderNotKnown ==
  ASSUME SeparateByKind, ProviderInv, NameInv, NEW c \in CRs, NEW d \in CRs \ {c},
         NEW p \in providers, OwnKind(c, p), p.slug \in SlugsOf(c)
  PROVE  p.id \notin Pids(d)
<1> SUFFICES ASSUME p.id \in Pids(d)
             PROVE  FALSE
  OBVIOUS
<1>1. OwnKind(d, p) /\ p.slug \in SlugsOf(d)
  BY DEF ProviderInv, ProviderKnown, NameInv, NamesKnown
<1>. QED  BY <1>1 DEF SeparateByKind, OwnKind

LEMMA SlugOfCopy ==
  ASSUME TypeOK, VersionInv, NEW c \in CRs
  PROVE  /\ ~At(c, "idle") => App(c).spec.slug \in SlugsOf(c)
         /\ Exists(cr[c]) => cr[c].spec.slug \in SlugsOf(c)
<1>1. ~At(c, "idle") => Exists(App(c))
  BY InProgress DEF Exists
<1>. QED  BY <1>1 DEF VersionInv, Versions, Specified, Copies, SlugsOf

LEMMA OthersProviderServed ==
  ASSUME SeparateByKind, TypeOK, VersionInv, ProviderInv, NameInv,
         NEW c \in CRs, NEW d \in CRs \ {c}, ProviderServed(c), Calls(d)
  PROVE  ProviderServed(c)'
<1>1. cr'[c] = cr[c] /\ work'[c] = work[c]
  BY CallsOthers
<1>2. ASSUME NEW o, NEW pid, o.spec.slug \in SlugsOf(c), ProviderFor(c, o, pid)
      PROVE  \E p \in providers' :
               /\ p.id = pid /\ OwnKind(c, p) /\ p.slug = o.spec.slug
               /\ p.uid = o.uid /\ p.gen = o.gen
  BY <1>2, ProviderNotKnown, ProvidersSpared DEF ProviderFor
<1>3. work[c].pc \in AfterProvider => ~At(c, "idle")
  BY DEF At, AfterProvider, AfterApplication
<1>4. Ready(c)' <=> Ready(c)
  BY <1>1 DEF Ready, Exists
<1>5. Ready(c) => Exists(cr[c])
  BY DEF Ready
<1>6. work'[c].pc \in AfterProvider => ProviderFor(c, App(c), work[c].pid)'
  <2>1. work[c].pc \in AfterProvider =>
          App(c).spec.slug \in SlugsOf(c) /\ ProviderFor(c, App(c), work[c].pid)
    BY <1>3, SlugOfCopy DEF ProviderServed
  <2>. QED  BY <1>1, <1>2, <2>1 DEF ProviderFor, App, OwnKind, Kind
<1>7. Ready(c)' => ProviderFor(c, cr[c], cr[c].status.pid)'
  <2>1. Ready(c) => cr[c].spec.slug \in SlugsOf(c) /\ ProviderFor(c, cr[c], cr[c].status.pid)
    BY <1>5, SlugOfCopy DEF ProviderServed
  <2>. QED  BY <1>1, <1>2, <1>4, <2>1 DEF ProviderFor, OwnKind, Kind
<1>. QED  BY <1>6, <1>7 DEF ProviderServed

\* How a call gets past reconcileProvider, or on from there.
LEMMA CallsPassProvider ==
  ASSUME TypeOK, NEW c \in CRs, Calls(c), work'[c].pc \in AfterProvider
  PROVE  \/ Made(c)
         \/ Updated(c) /\ MovesOn(c)
         \/ work[c].pc \in AfterProvider /\ MovesOn(c) /\ UNCHANGED providers
<1>. USE GotoMovesOn, GotoWithMovesOn, FailMovesOn, ReturnIdles, FailDeletionMovesOn
     DEF At
<1>0. Idle.pc \notin AfterProvider /\ "report" \notin AfterProvider
  BY DEF Idle, AfterProvider, AfterApplication
<1>1. ASSUME CreateProvider(c)
      PROVE  Made(c)
  <2>1. \A why : ~Fail(c, why)
    BY <1>0, <1>1 DEF CreateProvider
  <2>. QED  BY <1>1, <2>1 DEF CreateProvider, Made, Created, kubernetes
<1>2. ASSUME UpdateProvider(c)
      PROVE  Updated(c) /\ MovesOn(c)
  <2>1. \A why : ~Fail(c, why)
    BY <1>0, <1>2 DEF UpdateProvider
  <2>. QED  BY <1>2, <2>1 DEF UpdateProvider, Updated
<1>3. FindProvider(c) => FALSE
  BY <1>0 DEF FindProvider, AfterProvider, AfterApplication
<1>4. ASSUME FindApp(c) \/ CreateApp(c) \/ UpdateApp(c) \/ DeleteStaleSecret(c) \/ GetURLs(c)
               \/ WriteSecret(c)
      PROVE  work[c].pc \in AfterProvider /\ MovesOn(c) /\ UNCHANGED providers
  <2>1. work[c].pc \in AfterProvider
    BY <1>4 DEF FindApp, CreateApp, UpdateApp, DeleteStaleSecret, GetURLs, WriteSecret,
       AfterProvider, AfterApplication
  <2>2. UNCHANGED providers
    BY <1>4 DEF FindApp, CreateApp, UpdateApp, WriteApp, DeleteStaleSecret, GetURLs, WriteSecret,
       authentik
  <2>3. Kept(c)
    BY <1>4, CallsKept DEF FindApp, CreateApp, UpdateApp, DeleteStaleSecret, GetURLs,
       WriteSecret, FindProvider, CreateProvider
  <2>. QED  BY <1>0, <2>1, <2>2, <2>3 DEF Kept
<1>5. ~AddFinalizer(c) /\ ~PublishStatus(c) /\ ~ReportFailure(c) /\ ~RemoveFinalizer(c)
  BY <1>0 DEF AddFinalizer, PublishStatus, ReportFailure, RemoveFinalizer
<1>6. ~Deletes(c)
  BY <1>0, DeletesMove DEF Moves, Deleting, AfterProvider, AfterApplication
<1>. QED  BY <1>1, <1>2, <1>3, <1>4, <1>5, <1>6 DEF Calls, Deletes

\* The reconcile of a Ready resource works on the very version that was published,
\* and is not deleting anything.
LEMMA ReadyCopy ==
  ASSUME IndInv, VersionInv, NEW c \in CRs, Ready(c)
  PROVE  /\ ~At(c, "idle") => /\ App(c).uid = cr[c].uid /\ App(c).gen = cr[c].gen
                              /\ App(c).spec = cr[c].spec
         /\ work[c].pc \notin Deleting
<1>1. HonestlyReported(c) /\ CopiesLag(c) /\ Published(c)
  BY DEF VersionInv, Versions
<1>2. CopyIsUsable(c)
  BY DEF IndInv, KeyInv
<1>3. Exists(cr[c]) /\ cr[c].status.gen = cr[c].gen /\ cr[c].fin /\ ~cr[c].del
  BY <1>1 DEF Ready, HonestlyReported
<1>. QED  BY <1>1, <1>2, <1>3 DEF CopiesLag, Published, CopyIsUsable

\* The calls that leave a resource Ready, or make it so.
LEMMA CallsReady ==
  ASSUME TypeOK, VersionInv, NEW c \in CRs, Calls(c), Ready(c)'
  PROVE  \/ cr'[c] = cr[c] /\ Ready(c)
         \/ /\ At(c, "publish") /\ work'[c] = Idle
            /\ cr'[c].uid = App(c).uid /\ cr'[c].gen = App(c).gen /\ cr'[c].spec = App(c).spec
            /\ cr'[c].status.pid = work[c].pid
<1>1. HonestlyReported(c)
  BY DEF VersionInv, Versions
<1>2. CASE cr'[c] = cr[c]
  BY <1>2 DEF Ready, Exists
<1>3. CASE cr'[c] = NoCR
  BY <1>3, NoCRStatus DEF Ready, Exists
<1>4. ASSUME cr[c] \in Object, Finalized(c)
      PROVE  cr'[c] = cr[c]
  <2>1. cr'[c].status = cr[c].status /\ (cr[c].fin => cr'[c] = cr[c])
    BY <1>4 DEF Finalized, Object
  <2>. QED  BY <1>1, <2>1 DEF Ready, HonestlyReported
<1>5. ASSUME Current(c), cr[c] \in Object, Succeeded(c)
      PROVE  /\ At(c, "publish") /\ work'[c] = Idle
             /\ cr'[c].uid = App(c).uid /\ cr'[c].gen = App(c).gen /\ cr'[c].spec = App(c).spec
             /\ cr'[c].status.pid = work[c].pid
  BY <1>5 DEF Succeeded, Current, Object
<1>6. ASSUME cr[c] \in Object, Reported(c)
      PROVE  FALSE
  <2>1. cr'[c].status.reason = work[c].why
    BY <1>6 DEF Reported, Object, Status
  <2>. QED  BY <1>1, <1>6, <2>1 DEF Ready, Reported, HonestlyReported
<1>. QED  BY <1>2, <1>3, <1>4, <1>5, <1>6, CallsResource

LEMMA OwnProviderServed ==
  ASSUME TypeOK, IndInv, VersionInv, ProviderInv, NameInv, NEW c \in CRs, ProviderServed(c),
         Calls(c)
  PROVE  ProviderServed(c)'
<1>u. ASSUME Updated(c)
      PROVE  \A p \in providers :
               LET q == [p EXCEPT !.uid = App(c).uid, !.gen = App(c).gen] IN
               /\ q.id = p.id /\ q.slug = p.slug /\ (OwnKind(c, q) <=> OwnKind(c, p))
               /\ q.uid = App(c).uid /\ q.gen = App(c).gen
               /\ p.id = work[c].pid => q \in providers'
               /\ p.id # work[c].pid => p \in providers'
  BY <1>u, UpdateKeeps DEF Updated, OwnKind
<1>1. work'[c].pc \in AfterProvider => ProviderFor(c, App(c), work[c].pid)'
  <2>1. ASSUME Made(c)
        PROVE  ProviderFor(c, App(c), work[c].pid)'
    <3>. DEFINE p == [id |-> nextPid, kind |-> Kind(c), slug |-> App(c).spec.slug,
                      uid |-> App(c).uid, gen |-> App(c).gen]
    <3>1. p \in providers' /\ work'[c].app = App(c) /\ work'[c].pid = nextPid
      BY <2>1 DEF Made, Created
    <3>. QED  BY <3>1 DEF ProviderFor, App, OwnKind, Kind
  <2>2. ASSUME Updated(c), MovesOn(c)
        PROVE  ProviderFor(c, App(c), work[c].pid)'
    <3>1. PICK p \in providers : p.id = work[c].pid
      BY <2>2 DEF Updated
    <3>2. OwnKind(c, p) /\ p.slug = App(c).spec.slug
      BY <2>2, <3>1 DEF Updated, ProviderInv, ProviderKnown, Pids, NameInv, NamesKnown
    <3>. DEFINE q == [p EXCEPT !.uid = App(c).uid, !.gen = App(c).gen]
    <3>3. /\ q \in providers' /\ q.id = work[c].pid /\ OwnKind(c, q)
          /\ q.slug = App(c).spec.slug /\ q.uid = App(c).uid /\ q.gen = App(c).gen
      BY <1>u, <2>2, <3>1, <3>2
    <3>. QED  BY <2>2, <3>3 DEF ProviderFor, MovesOn, App, OwnKind, Kind
  <2>3. ASSUME work[c].pc \in AfterProvider, MovesOn(c), UNCHANGED providers
        PROVE  ProviderFor(c, App(c), work[c].pid)'
    BY <2>3 DEF ProviderServed, ProviderFor, MovesOn, App, OwnKind, Kind
  <2>. QED  BY <2>1, <2>2, <2>3, CallsPassProvider
<1>2. ASSUME Ready(c)'
      PROVE  ProviderFor(c, cr[c], cr[c].status.pid)'
  <2>1. ASSUME cr'[c] = cr[c], Ready(c)
        PROVE  ProviderFor(c, cr[c], cr[c].status.pid)'
    <3>1. PICK p \in providers :
            /\ p.id = cr[c].status.pid /\ OwnKind(c, p) /\ p.slug = cr[c].spec.slug
            /\ p.uid = cr[c].uid /\ p.gen = cr[c].gen
      BY <2>1 DEF ProviderServed, ProviderFor
    <3>2. CASE p \in providers'
      BY <2>1, <3>1, <3>2 DEF ProviderFor, OwnKind, Kind
    <3>3. CASE Updated(c) /\ p.id = work[c].pid
      <4>1. App(c).uid = cr[c].uid /\ App(c).gen = cr[c].gen
        BY <2>1, <3>3, ReadyCopy DEF Updated, At
      <4>. DEFINE q == [p EXCEPT !.uid = App(c).uid, !.gen = App(c).gen]
      <4>2. /\ q \in providers' /\ q.id = p.id /\ OwnKind(c, q)
            /\ q.slug = p.slug /\ q.uid = App(c).uid /\ q.gen = App(c).gen
        BY <1>u, <3>1, <3>3
      <4>. QED  BY <2>1, <3>1, <4>1, <4>2 DEF ProviderFor, OwnKind, Kind
    <3>4. ~Destroyed(c)
      BY <2>1, ReadyCopy DEF Destroyed, At, Deleting
    <3>. QED  BY <1>u, <3>2, <3>3, <3>4, CallsProviders DEF Created
  <2>2. ASSUME At(c, "publish"), cr'[c].uid = App(c).uid, cr'[c].gen = App(c).gen,
               cr'[c].spec = App(c).spec, cr'[c].status.pid = work[c].pid
        PROVE  ProviderFor(c, cr[c], cr[c].status.pid)'
    <3>1. UNCHANGED providers
      BY <2>2, CallsProviders DEF Created, Updated, Destroyed, At
    <3>2. ProviderFor(c, App(c), work[c].pid)
      BY <2>2 DEF ProviderServed, AfterProvider, AfterApplication, At
    <3>. QED  BY <2>2, <3>1, <3>2 DEF ProviderFor, OwnKind, Kind
  <2>. QED  BY <1>2, <2>1, <2>2, CallsReady
<1>. QED  BY <1>1, <1>2 DEF ProviderServed

\* What the calls do to the applications.
Wrote(c) ==
  /\ work[c].pc \in {"createApp", "updateApp"}
  /\ applications' = [applications EXCEPT ![App(c).spec.slug] =
       [provider |-> work[c].pid, uid |-> App(c).uid, gen |-> App(c).gen]]

Removed(c) ==
  /\ At(c, "deleteApp")
  /\ applications' = [applications EXCEPT ![App(c).spec.slug] = NoApplication]

LEMMA CallsApplications ==
  ASSUME NEW c \in CRs, Calls(c)
  PROVE  UNCHANGED applications \/ Wrote(c) \/ Removed(c) \/ Destroyed(c)
<1>1. CreateApp(c) \/ UpdateApp(c) => UNCHANGED applications \/ Wrote(c)
  BY DEF CreateApp, UpdateApp, WriteApp, Wrote, At
<1>2. DeleteApp(c) => UNCHANGED applications \/ Removed(c)
  BY DEF DeleteApp, Removed
<1>3. DeleteProvider(c) => UNCHANGED applications \/ Destroyed(c)
  BY DEF DeleteProvider, Destroyed
<1>4. ASSUME ~CreateApp(c), ~UpdateApp(c), ~DeleteApp(c), ~DeleteProvider(c)
      PROVE  UNCHANGED applications
  BY <1>4 DEF Calls, AddFinalizer, FindProvider, CreateProvider, UpdateProvider, FindApp,
     DeleteStaleSecret, GetURLs, WriteSecret, PublishStatus, ReportFailure, FindAppToDelete,
     FindProviderToDelete, RemoveFinalizer, authentik
<1>. QED  BY <1>1, <1>2, <1>3, <1>4

LEMMA OthersApplicationServed ==
  ASSUME SeparateSlugs, TypeOK, VersionInv, ProviderInv, NameInv,
         NEW c \in CRs, NEW d \in CRs \ {c}, ProviderServed(c), ApplicationServed(c), Calls(d)
  PROVE  ApplicationServed(c)'
<1>1. cr'[c] = cr[c] /\ work'[c] = work[c]
  BY CallsOthers
<1>2. SeparateByKind
  BY DEF SeparateSlugs, SeparateByKind
<1>3. ASSUME NEW o, NEW pid, o.spec.slug \in SlugsOf(c), o.spec.slug \in Slugs,
             ProviderFor(c, o, pid), ApplicationFor(o, pid)
      PROVE  applications'[o.spec.slug] = [provider |-> pid, uid |-> o.uid, gen |-> o.gen]
  <2>. DEFINE s == o.spec.slug
  <2>0. applications \in [Slugs -> Application]
    BY DEF TypeOK
  <2>1. ~At(d, "idle") => App(d).spec.slug # s
    BY <1>3, SlugOfCopy DEF SeparateSlugs
  <2>2. CASE Wrote(d)
    <3>1. App(d).spec.slug # s
      BY <2>1, <2>2 DEF Wrote, At
    <3>. QED  BY <1>3, <2>0, <2>2, <3>1 DEF Wrote, ApplicationFor
  <2>3. CASE Removed(d)
    <3>1. App(d).spec.slug # s
      BY <2>1, <2>3 DEF Removed, At
    <3>. QED  BY <1>3, <2>0, <2>3, <3>1 DEF Removed, ApplicationFor
  <2>4. CASE Destroyed(d)
    <3>1. pid \notin Pids(d)
      BY <1>2, <1>3, ProviderNotKnown DEF ProviderFor
    <3>2. applications[s].provider # App(d).status.pid
      BY <1>3, <3>1 DEF ApplicationFor, Pids
    <3>3. applications'[s] = [applications[s] EXCEPT !.provider = @]
      BY <1>3, <2>4, <3>2 DEF Destroyed, DestroyProvider
    <3>. QED  BY <1>3, <3>3 DEF ApplicationFor
  <2>. QED  BY <1>3, <2>2, <2>3, <2>4, CallsApplications DEF ApplicationFor
<1>4. work'[c].pc \in AfterApplication => ApplicationFor(App(c), work[c].pid)'
  <2>1. ASSUME work[c].pc \in AfterApplication
        PROVE  /\ ProviderFor(c, App(c), work[c].pid) /\ ApplicationFor(App(c), work[c].pid)
               /\ App(c).spec.slug \in SlugsOf(c) /\ App(c).spec.slug \in Slugs
    <3>1. ~At(c, "idle") /\ work[c].pc \in AfterProvider
      BY <2>1 DEF At, AfterProvider, AfterApplication
    <3>2. App(c).spec.slug \in Slugs
      BY <3>1, InProgress DEF CRSpec
    <3>. QED  BY <2>1, <3>1, <3>2, SlugOfCopy DEF ProviderServed, ApplicationServed
  <2>. QED  BY <1>1, <1>3, <2>1 DEF ApplicationFor, App
<1>5. Ready(c)' => ApplicationFor(cr[c], cr[c].status.pid)'
  <2>1. Ready(c)' <=> Ready(c)
    BY <1>1 DEF Ready, Exists
  <2>2. ASSUME Ready(c)
        PROVE  /\ ProviderFor(c, cr[c], cr[c].status.pid)
               /\ ApplicationFor(cr[c], cr[c].status.pid)
               /\ cr[c].spec.slug \in SlugsOf(c) /\ cr[c].spec.slug \in Slugs
    <3>1. cr[c] \in Object
      BY <2>2, Present DEF Ready, TypeOK
    <3>2. cr[c].spec.slug \in Slugs
      BY <3>1 DEF Object, CRSpec
    <3>. QED  BY <2>2, <3>2, SlugOfCopy DEF ProviderServed, ApplicationServed, Ready
  <2>. QED  BY <1>1, <1>3, <2>1, <2>2 DEF ApplicationFor
<1>. QED  BY <1>4, <1>5 DEF ApplicationServed

\* How a call gets past reconcileApplication, or on from there.
LEMMA CallsPassApplication ==
  ASSUME TypeOK, NEW c \in CRs, Calls(c), work'[c].pc \in AfterApplication
  PROVE  /\ MovesOn(c) /\ work[c].pc \in AfterProvider
         /\ Wrote(c) \/ (work[c].pc \in AfterApplication /\ UNCHANGED applications)
<1>. USE GotoMovesOn, FailMovesOn DEF At
<1>0. "report" \notin AfterApplication /\ "findApp" \notin AfterApplication
      /\ AfterApplication \subseteq AfterProvider
  BY DEF AfterApplication, AfterProvider
<1>1. ASSUME FindApp(c)
      PROVE  FALSE
  <2>1. Goto(c, "updateApp") \/ Goto(c, "createApp") \/ Fail(c, "AuthentikError")
    BY <1>1 DEF FindApp
  <2>. QED  BY <1>0, <1>1, <2>1 DEF FindApp, AfterApplication
<1>2. ASSUME UpdateProvider(c)
      PROVE  FALSE
  <2>1. Goto(c, "findApp") \/ Fail(c, "AuthentikError")
    BY <1>2 DEF UpdateProvider
  <2>. QED  BY <1>0, <1>2, <2>1 DEF UpdateProvider
<1>3. ~Made(c)
  BY <1>0 DEF Made
<1>4. ~UpdateProvider(c) => ~Updated(c)
  BY DEF Updated, Calls, AddFinalizer, FindProvider, CreateProvider, FindApp, CreateApp,
     UpdateApp, DeleteStaleSecret, GetURLs, WriteSecret, PublishStatus, ReportFailure,
     FindAppToDelete, DeleteApp, FindProviderToDelete, DeleteProvider, RemoveFinalizer
<1>5. work[c].pc \in AfterProvider /\ MovesOn(c)
  BY <1>0, <1>2, <1>3, <1>4, CallsPassProvider
<1>6. ASSUME CreateApp(c) \/ UpdateApp(c)
      PROVE  Wrote(c)
  <2>1. ~Fail(c, "AuthentikError")
    BY <1>0, <1>6 DEF CreateApp, UpdateApp
  <2>. QED  BY <1>6, <2>1 DEF CreateApp, UpdateApp, WriteApp, Wrote
<1>7. ASSUME DeleteStaleSecret(c) \/ GetURLs(c) \/ WriteSecret(c) \/ PublishStatus(c)
      PROVE  work[c].pc \in AfterApplication /\ UNCHANGED applications
  BY <1>7 DEF DeleteStaleSecret, GetURLs, WriteSecret, PublishStatus, AfterApplication, authentik
<1>8. \/ FindApp(c) \/ CreateApp(c) \/ UpdateApp(c)
      \/ DeleteStaleSecret(c) \/ GetURLs(c) \/ WriteSecret(c) \/ PublishStatus(c)
  BY <1>5 DEF AfterProvider, AfterApplication, Calls, AddFinalizer, FindProvider, CreateProvider,
     UpdateProvider, ReportFailure, FindAppToDelete, DeleteApp, FindProviderToDelete,
     DeleteProvider, RemoveFinalizer
<1>. QED  BY <1>1, <1>5, <1>6, <1>7, <1>8

LEMMA OwnApplicationServed ==
  ASSUME TypeOK, IndInv, VersionInv, NameInv, NEW c \in CRs,
         ProviderServed(c), ApplicationServed(c), Calls(c)
  PROVE  ApplicationServed(c)'
<1>0. applications \in [Slugs -> Application]
  BY DEF TypeOK
<1>w. ASSUME Wrote(c)
      PROVE  applications'[App(c).spec.slug] =
               [provider |-> work[c].pid, uid |-> App(c).uid, gen |-> App(c).gen]
  <2>1. App(c).spec.slug \in Slugs
    BY <1>w, InProgress DEF Wrote, At, CRSpec
  <2>. QED  BY <1>0, <1>w, <2>1 DEF Wrote
<1>1. ASSUME work'[c].pc \in AfterApplication
      PROVE  ApplicationFor(App(c), work[c].pid)'
  <2>1. CASE Wrote(c)
    BY <1>w, <1>1, <2>1, CallsPassApplication DEF ApplicationFor, MovesOn, App
  <2>2. CASE work[c].pc \in AfterApplication /\ UNCHANGED applications
    BY <1>1, <2>2, CallsPassApplication DEF ApplicationServed, ApplicationFor, MovesOn, App
  <2>. QED  BY <1>1, <2>1, <2>2, CallsPassApplication
<1>2. ASSUME Ready(c)'
      PROVE  ApplicationFor(cr[c], cr[c].status.pid)'
  <2>1. ASSUME cr'[c] = cr[c], Ready(c)
        PROVE  ApplicationFor(cr[c], cr[c].status.pid)'
    <3>1. ApplicationFor(cr[c], cr[c].status.pid) /\ ProviderFor(c, cr[c], cr[c].status.pid)
      BY <2>1 DEF ProviderServed, ApplicationServed
    <3>2. ~Removed(c) /\ ~Destroyed(c)
      BY <2>1, ReadyCopy DEF Removed, Destroyed, At, Deleting
    <3>3. CASE Wrote(c)
      <4>1. App(c).uid = cr[c].uid /\ App(c).gen = cr[c].gen /\ App(c).spec = cr[c].spec
        BY <2>1, <3>3, ReadyCopy DEF Wrote, At
      <4>2. ProviderFor(c, App(c), work[c].pid)
        BY <3>3 DEF Wrote, ProviderServed, AfterProvider
      <4>3. work[c].pid = cr[c].status.pid
        BY <3>1, <4>1, <4>2 DEF ProviderFor, NameInv, NamesUnique
      <4>. QED  BY <1>w, <2>1, <3>3, <4>1, <4>3 DEF ApplicationFor
    <3>. QED  BY <2>1, <3>1, <3>2, <3>3, CallsApplications DEF ApplicationFor
  <2>2. ASSUME At(c, "publish"), cr'[c].uid = App(c).uid, cr'[c].gen = App(c).gen,
               cr'[c].spec = App(c).spec, cr'[c].status.pid = work[c].pid
        PROVE  ApplicationFor(cr[c], cr[c].status.pid)'
    <3>1. UNCHANGED applications
      BY <2>2, CallsApplications DEF Wrote, Removed, Destroyed, At
    <3>2. ApplicationFor(App(c), work[c].pid)
      BY <2>2 DEF ApplicationServed, AfterApplication, At
    <3>. QED  BY <2>2, <3>1, <3>2 DEF ApplicationFor
  <2>. QED  BY <1>2, <2>1, <2>2, CallsReady
<1>. QED  BY <1>1, <1>2 DEF ApplicationServed

\* Without drift, only the calls of a reconcile change anything in Authentik.
LEMMA DriftCounted ==
  ASSUME TypeOK, (\E d \in CRs : Begins(d)) \/ Manager \/ Environment \/ UNCHANGED vars
  PROVE  /\ UNCHANGED <<providers, applications>> \/ spent'.drifts > 0
         /\ spent'.drifts = 0 => spent.drifts = 0
<1>0. spent \in [edits : Nat, faults : Nat, drifts : Nat, crashes : Nat]
  BY DEF TypeOK
<1>1. Drift => spent'.drifts > 0
  BY <1>0 DEF Drift
<1>2. CASE (\E d \in CRs : Begins(d)) \/ UNCHANGED vars
  BY <1>2 DEF Begins, Ignore, BeginDeletion, BeginFinalizer, RejectTemplate, BeginSync, Dequeue,
     authentik, vars
<1>3. CASE Manager
  BY <1>0, <1>3 DEF Manager, WatchCR, TimerFires, WatchSecret, Restart, authentik
<1>4. CASE Environment
  <2>1. ASSUME NEW d \in CRs, CreateCR(d) \/ EditCR(d) \/ DeleteCR(d)
        PROVE  UNCHANGED <<providers, applications>> /\ spent'.drifts = spent.drifts
    BY <1>0, <2>1 DEF CreateCR, EditCR, DeleteCR, authentik
  <2>2. ASSUME NEW n \in SecretNames, CollectSecret(n)
        PROVE  UNCHANGED <<providers, applications>> /\ spent'.drifts = spent.drifts
    BY <2>2 DEF CollectSecret, authentik
  <2>3. ASSUME DriftProvider \/ (\E s \in Slugs : DriftApp(s))
                 \/ \E n \in SecretNames : DriftSecret(n)
        PROVE  spent'.drifts > 0
    BY <1>1, <2>3 DEF DriftProvider, DriftApp, DriftSecret
  <2>. QED  BY <1>4, <2>1, <2>2, <2>3 DEF Environment
<1>. QED  BY <1>2, <1>3, <1>4

LEMMA OthersReady ==
  ASSUME TypeOK, VersionInv, NEW c \in CRs, Ready(c)',
         (\E d \in CRs : Begins(d)) \/ Manager \/ Environment \/ UNCHANGED vars
  PROVE  cr'[c] = cr[c] /\ Ready(c)
<1>1. CASE cr'[c] = cr[c]
  BY <1>1 DEF Ready, Exists
<1>2. CASE cr'[c] = NoCR
  BY <1>2, NoCRStatus DEF Ready, Exists
<1>3. CASE Born(c)
  <2>1. NoStatus.reason # "Succeeded"
    BY DEF NoStatus
  <2>. QED  BY <1>3, <2>1 DEF Ready, Born
<1>4. CASE Bumped(c)
  <2>1. cr[c].status.gen <= cr[c].gen
    BY DEF VersionInv, Versions, Numbered
  <2>2. cr'[c].status.gen = cr[c].status.gen /\ cr'[c].gen = cr[c].gen + 1
    BY <1>4 DEF Bumped
  <2>3. cr[c].status.gen \in Nat /\ cr[c].gen \in Nat
    BY CopyNumbers
  <2>4. cr'[c].status.gen # cr'[c].gen
    BY <2>1, <2>2, <2>3
  <2>. QED  BY <2>4 DEF Ready
<1>. QED  BY <1>1, <1>2, <1>3, <1>4, OthersSteps DEF Untouched, Begun, Delivered, ByUser

LEMMA OthersServed ==
  ASSUME TypeOK, VersionInv, NEW c \in CRs, UNCHANGED <<providers, applications>>,
         (\E d \in CRs : Begins(d)) \/ Manager \/ Environment \/ UNCHANGED vars
  PROVE  /\ ProviderServed(c) => ProviderServed(c)'
         /\ ApplicationServed(c) => ApplicationServed(c)'
<1>1. work'[c] = work[c] \/ work'[c].pc \notin AfterProvider
  BY OthersSteps, NoCRFields DEF Untouched, Begun, Delivered, ByUser, Idle, AfterProvider,
     AfterApplication
<1>2. Ready(c)' => cr'[c] = cr[c] /\ Ready(c)
  BY OthersReady
<1>3. AfterApplication \subseteq AfterProvider
  BY DEF AfterProvider
<1>4. ProviderServed(c) => ProviderServed(c)'
  BY <1>1, <1>2 DEF ProviderServed, ProviderFor, OwnKind, Kind, App
<1>5. ApplicationServed(c) => ApplicationServed(c)'
  BY <1>1, <1>2, <1>3 DEF ApplicationServed, ApplicationFor, App
<1>. QED  BY <1>4, <1>5

LEMMA CallsDrift ==
  ASSUME TypeOK, NEW c \in CRs, Calls(c)
  PROVE  spent'.drifts = spent.drifts
<1>1. spent \in [edits : Nat, faults : Nat, drifts : Nat, crashes : Nat]
  BY DEF TypeOK
<1>2. NoFault \/ Fault => spent'.drifts = spent.drifts
  BY <1>1 DEF NoFault, Fault
<1>3. \A accepted \in BOOLEAN : FailsUnless(accepted) => NoFault \/ Fault
  BY DEF FailsUnless
<1>. USE <1>2, <1>3
<1>4. FindProvider(c) \/ FindApp(c) \/ FindAppToDelete(c) \/ FindProviderToDelete(c)
        => spent'.drifts = spent.drifts
  BY DEF FindProvider, FindApp, FindAppToDelete, FindProviderToDelete
<1>5. CreateProvider(c) \/ UpdateProvider(c) => spent'.drifts = spent.drifts
  BY DEF CreateProvider, UpdateProvider, FailsUnless
<1>6. CreateApp(c) \/ UpdateApp(c) => spent'.drifts = spent.drifts
  BY DEF CreateApp, UpdateApp, WriteApp, FailsUnless
<1>7. DeleteStaleSecret(c) \/ GetURLs(c) \/ WriteSecret(c) => spent'.drifts = spent.drifts
  BY DEF DeleteStaleSecret, GetURLs, WriteSecret, FailsUnless
<1>8. AddFinalizer(c) \/ PublishStatus(c) \/ ReportFailure(c) \/ RemoveFinalizer(c)
        => spent'.drifts = spent.drifts
  BY DEF AddFinalizer, PublishStatus, ReportFailure, RemoveFinalizer, FailsUnless
<1>9. DeleteApp(c) \/ DeleteProvider(c) => spent'.drifts = spent.drifts
  BY DEF DeleteApp, DeleteProvider, FailsUnless
<1>. QED  BY <1>4, <1>5, <1>6, <1>7, <1>8, <1>9 DEF Calls

ProvidersServed == spent.drifts = 0 => \A c \in CRs : ProviderServed(c)
ApplicationsServed == spent.drifts = 0 => \A c \in CRs : ApplicationServed(c)

LEMMA InitServed ==
  ASSUME Init, NEW c \in CRs
  PROVE  ProviderServed(c) /\ ApplicationServed(c)
<1>1. cr[c] = NoCR /\ work[c] = Idle
  BY DEF Init
<1>2. Idle.pc \notin AfterProvider /\ Idle.pc \notin AfterApplication
  BY DEF Idle, AfterProvider, AfterApplication
<1>3. ~Ready(c)
  BY <1>1, NoCRStatus DEF Ready, Exists
<1>. QED  BY <1>1, <1>2, <1>3 DEF ProviderServed, ApplicationServed

LEMMA ProvidersStep ==
  ASSUME SeparateByKind, TypeOK, IndInv, VersionInv, ProviderInv, NameInv, ProvidersServed,
         [Next]_vars
  PROVE  ProvidersServed'
<1> SUFFICES ASSUME spent'.drifts = 0, NEW c \in CRs
             PROVE  ProviderServed(c)'
  BY DEF ProvidersServed
<1>1. ASSUME NEW d \in CRs, Calls(d)
      PROVE  ProviderServed(c)'
  <2>1. ProviderServed(c)
    BY <1>1, CallsDrift DEF ProvidersServed
  <2>. QED  BY <1>1, <2>1, OwnProviderServed, OthersProviderServed
<1>2. ASSUME (\E d \in CRs : Begins(d)) \/ Manager \/ Environment \/ UNCHANGED vars
      PROVE  ProviderServed(c)'
  <2>1. UNCHANGED <<providers, applications>> /\ spent.drifts = 0
    BY <1>2, DriftCounted
  <2>. QED  BY <1>2, <2>1, OthersServed DEF ProvidersServed
<1>. QED  BY <1>1, <1>2, NextCases

LEMMA ApplicationsStep ==
  ASSUME SeparateSlugs, TypeOK, IndInv, VersionInv, ProviderInv, NameInv, ProvidersServed,
         ApplicationsServed, [Next]_vars
  PROVE  ApplicationsServed'
<1> SUFFICES ASSUME spent'.drifts = 0, NEW c \in CRs
             PROVE  ApplicationServed(c)'
  BY DEF ApplicationsServed
<1>1. ASSUME NEW d \in CRs, Calls(d)
      PROVE  ApplicationServed(c)'
  <2>1. ProviderServed(c) /\ ApplicationServed(c)
    BY <1>1, CallsDrift DEF ProvidersServed, ApplicationsServed
  <2>. QED  BY <1>1, <2>1, OwnApplicationServed, OthersApplicationServed
<1>2. ASSUME (\E d \in CRs : Begins(d)) \/ Manager \/ Environment \/ UNCHANGED vars
      PROVE  ApplicationServed(c)'
  <2>1. UNCHANGED <<providers, applications>> /\ spent.drifts = 0
    BY <1>2, DriftCounted
  <2>. QED  BY <1>2, <2>1, OthersServed DEF ApplicationsServed
<1>. QED  BY <1>1, <1>2, NextCases

LEMMA ProvidersAreServed ==
  ASSUME SeparateByKind
  PROVE  Spec => []ProvidersServed
<1>1. Init => ProvidersServed
  BY InitServed DEF ProvidersServed
<1>2. TypeOK /\ IndInv /\ VersionInv /\ ProviderInv /\ NameInv /\ ProvidersServed /\ [Next]_vars
        => ProvidersServed'
  BY ProvidersStep
<1>. QED  BY <1>1, <1>2, TypeCorrect, Inductive, VersionsKnown, ProviderKeys, NamesAreKnown,
          PTL DEF Spec

\* A Ready resource keeps the provider its status names, with the settings of its
\* current generation, as long as no administrator deletes something: for every
\* number of resources of both kinds, as long as those of one kind do not share a
\* slug, whatever copies their reconciles read and whatever faults, restarts and
\* edits interfere.
THEOREM ReadyKeepsProvider ==
  ASSUME SeparateByKind
  PROVE  Spec => []ReadyProviderSynced
<1>1. ProvidersServed => ReadyProviderSynced
  BY DEF ProvidersServed, ProviderServed, ProviderFor, ReadyProviderSynced, ProviderSynced
<1>. QED  BY <1>1, ProvidersAreServed, PTL

\* Of resources that share no slug at all a Ready one has its provider and its
\* application, the one attached to the other, with the settings of the generation
\* the status names, as long as no administrator deletes something.
THEOREM ReadyTellsTheTruth ==
  ASSUME SeparateSlugs
  PROVE  Spec => []ReadyMeansSynced
<1>0. SeparateByKind
  BY DEF SeparateSlugs, SeparateByKind
<1>1. Init => ApplicationsServed
  BY InitServed DEF ApplicationsServed
<1>2. TypeOK /\ IndInv /\ VersionInv /\ ProviderInv /\ NameInv /\ ProvidersServed
        /\ ApplicationsServed /\ [Next]_vars => ApplicationsServed'
  BY ApplicationsStep
<1>3. ProvidersServed /\ ApplicationsServed => ReadyMeansSynced
  BY DEF ProvidersServed, ProviderServed, ProviderFor, ApplicationsServed, ApplicationServed,
     ApplicationFor, ReadyMeansSynced, ProviderSynced, ApplicationSynced
<1>4. Spec => []ProvidersServed
  BY <1>0, ProvidersAreServed
<1>. QED  BY <1>1, <1>2, <1>3, <1>4, TypeCorrect, Inductive, VersionsKnown, ProviderKeys,
          NamesAreKnown, PTL DEF Spec

-----------------------------------------------------------------------------
(* What is left of a Ready resource after deletions by an administrator *)

\* Past reconcileProvider (reconcileApplication) nothing of the copy's slug is of another
\* version; work[c].pid is no key but that provider's.
ProviderKept(c) ==
  /\ work[c].pc \in AfterProvider =>
       /\ ProviderCurrent(c, App(c))
       /\ \A p \in providers : p.id = work[c].pid => OwnKind(c, p) /\ p.slug = App(c).spec.slug
  /\ Ready(c) => ProviderCurrent(c, cr[c])

ApplicationKept(c) ==
  /\ work[c].pc \in AfterApplication => ApplicationCurrent(c, App(c))
  /\ Ready(c) => ApplicationCurrent(c, cr[c])

KeptInv == \A c \in CRs : ProviderKept(c) /\ ApplicationKept(c)

\* What an update makes of the providers.
LEMMA UpdatedFrom ==
  ASSUME TypeOK, NEW c \in CRs, Updated(c), NEW q \in providers'
  PROVE  \E p \in providers :
           /\ p.id = q.id /\ p.slug = q.slug /\ p.kind = q.kind
           /\ \/ p = q /\ p.id # work[c].pid
              \/ p.id = work[c].pid /\ q.uid = App(c).uid /\ q.gen = App(c).gen
<1>1. \/ q \in providers /\ q.id # work[c].pid
      \/ \E p \in providers :
           p.id = work[c].pid /\ q = [p EXCEPT !.uid = App(c).uid, !.gen = App(c).gen]
  BY DEF Updated
<1>2. ASSUME NEW p \in providers, p.id = work[c].pid,
             q = [p EXCEPT !.uid = App(c).uid, !.gen = App(c).gen]
      PROVE  /\ p.id = q.id /\ p.slug = q.slug /\ p.kind = q.kind
             /\ q.uid = App(c).uid /\ q.gen = App(c).gen
  BY <1>2, UpdateKeeps
<1>. QED  BY <1>1, <1>2

\* Of the providers after a call of d, one that c would take for its own is an old one.
LEMMA OthersAddNone ==
  ASSUME SeparateByKind, TypeOK, VersionInv, ProviderInv, NameInv,
         NEW c \in CRs, NEW d \in CRs \ {c}, Calls(d),
         NEW p \in providers', OwnKind(c, p), p.slug \in SlugsOf(c)
  PROVE  p \in providers
<1>1. ~At(d, "idle") => App(d).spec.slug \in SlugsOf(d)
  BY SlugOfCopy
<1>2. ASSUME Created(d)
      PROVE  p \in providers
  <2>1. p \in providers \/ (p.kind = Kind(d) /\ p.slug = App(d).spec.slug)
    BY <1>2 DEF Created
  <2>. QED  BY <1>1, <1>2, <2>1 DEF SeparateByKind, OwnKind, Created, At
<1>3. ASSUME Updated(d)
      PROVE  p \in providers
  <2>1. PICK q \in providers :
          /\ q.id = p.id /\ q.slug = p.slug /\ q.kind = p.kind
          /\ p = q \/ q.id = work[d].pid
    BY <1>3, UpdatedFrom
  <2>2. q.id # work[d].pid
    BY <2>1, ProviderNotKnown DEF OwnKind, Pids
  <2>. QED  BY <2>1, <2>2
<1>. QED  BY <1>2, <1>3, CallsProviders DEF Destroyed, DestroyProvider

LEMMA OthersProviderKept ==
  ASSUME SeparateByKind, TypeOK, VersionInv, ProviderInv, NameInv,
         NEW c \in CRs, NEW d \in CRs \ {c}, ProviderKept(c), Calls(d)
  PROVE  ProviderKept(c)'
<1>1. cr'[c] = cr[c] /\ work'[c] = work[c]
  BY CallsOthers
<1>2. ASSUME NEW o, o.spec.slug \in SlugsOf(c), ProviderCurrent(c, o)
      PROVE  \A p \in providers' : OwnKind(c, p) /\ p.slug = o.spec.slug =>
               p.uid = o.uid /\ p.gen = o.gen
  BY <1>2, OthersAddNone DEF ProviderCurrent
<1>3. Ready(c)' <=> Ready(c)
  BY <1>1 DEF Ready, Exists
<1>4. ASSUME Ready(c)
      PROVE  ProviderCurrent(c, cr[c])'
  <2>1. cr[c].spec.slug \in SlugsOf(c) /\ ProviderCurrent(c, cr[c])
    BY <1>4, SlugOfCopy DEF ProviderKept, Ready
  <2>. QED  BY <1>1, <1>2, <2>1 DEF ProviderCurrent, OwnKind, Kind
<1>5. ASSUME work[c].pc \in AfterProvider
      PROVE  /\ ProviderCurrent(c, App(c))'
             /\ \A p \in providers' : p.id = work[c].pid =>
                  OwnKind(c, p) /\ p.slug = App(c).spec.slug
  <2>1. ~At(c, "idle")
    BY <1>5 DEF At, AfterProvider, AfterApplication
  <2>2. App(c).spec.slug \in SlugsOf(c) /\ ProviderCurrent(c, App(c))
    BY <1>5, <2>1, SlugOfCopy DEF ProviderKept
  <2>3. ProviderCurrent(c, App(c))'
    BY <1>1, <1>2, <2>2 DEF ProviderCurrent, App, OwnKind, Kind
  <2>4. ASSUME NEW p \in providers', p.id = work[c].pid
        PROVE  OwnKind(c, p) /\ p.slug = App(c).spec.slug
    <3>1. p.id # nextPid
      BY <2>4, PidTypes DEF ProviderInv, ProviderKnown, Pids, TypeOK
    <3>2. \E q \in providers : q.id = p.id /\ q.slug = p.slug /\ q.kind = p.kind
      <4>1. CASE Updated(d)
        BY <4>1, UpdatedFrom
      <4>. QED  BY <3>1, <4>1, CallsProviders DEF Created, Destroyed, DestroyProvider
    <3>. QED  BY <1>5, <2>4, <3>2 DEF ProviderKept, OwnKind
  <2>. QED  BY <2>3, <2>4
<1>. QED  BY <1>1, <1>3, <1>4, <1>5 DEF ProviderKept, App, OwnKind, Kind

LEMMA OwnProviderKept ==
  ASSUME TypeOK, IndInv, VersionInv, ProviderInv, NameInv, NEW c \in CRs, ProviderKept(c),
         Calls(c)
  PROVE  ProviderKept(c)'
<1>1. ASSUME NEW o, Created(c), App(c).uid = o.uid, App(c).gen = o.gen,
             App(c).spec = o.spec
      PROVE  \A p \in providers' : p.slug = o.spec.slug => p.uid = o.uid /\ p.gen = o.gen
  BY <1>1 DEF Created
<1>2. ASSUME NEW o, Updated(c), App(c).uid = o.uid, App(c).gen = o.gen,
             App(c).spec = o.spec
      PROVE  \A p \in providers' : p.slug = o.spec.slug => p.uid = o.uid /\ p.gen = o.gen
  <2>1. PICK q \in providers : q.id = work[c].pid
    BY <1>2 DEF Updated
  <2>2. q.slug = o.spec.slug
    BY <1>2, <2>1 DEF Updated, NameInv, NamesKnown
  <2>3. \A p \in providers : p.slug = o.spec.slug => p.id = work[c].pid
    BY <2>1, <2>2 DEF NameInv, NamesUnique
  <2>. QED  BY <1>2, <2>3, UpdatedFrom
<1>3. ASSUME NEW o, providers' \subseteq providers, ProviderCurrent(c, o)
      PROVE  \A p \in providers' : OwnKind(c, p) /\ p.slug = o.spec.slug =>
               p.uid = o.uid /\ p.gen = o.gen
  BY <1>3 DEF ProviderCurrent
<1>4. ASSUME work'[c].pc \in AfterProvider
      PROVE  /\ ProviderCurrent(c, App(c))'
             /\ (\A p \in providers : p.id = work[c].pid =>
                   OwnKind(c, p) /\ p.slug = App(c).spec.slug)'
  <2>1. ASSUME Made(c)
        PROVE  /\ ProviderCurrent(c, App(c))'
               /\ (\A p \in providers : p.id = work[c].pid =>
                     OwnKind(c, p) /\ p.slug = App(c).spec.slug)'
    <3>1. Created(c) /\ work'[c].app = App(c) /\ work'[c].pid = nextPid
      BY <2>1 DEF Made
    <3>2. ProviderCurrent(c, App(c))'
      BY <1>1, <3>1 DEF ProviderCurrent, App
    <3>3. \A p \in providers : p.id # nextPid
      BY DEF ProviderInv, KeysSpent, TypeOK, Provider
    <3>4. \A p \in providers' : p.id = nextPid => OwnKind(c, p) /\ p.slug = App(c).spec.slug
      BY <3>1, <3>3 DEF Created, OwnKind
    <3>. QED  BY <3>1, <3>2, <3>4 DEF App, OwnKind, Kind
  <2>2. ASSUME Updated(c), MovesOn(c)
        PROVE  /\ ProviderCurrent(c, App(c))'
               /\ (\A p \in providers : p.id = work[c].pid =>
                     OwnKind(c, p) /\ p.slug = App(c).spec.slug)'
    <3>1. ProviderCurrent(c, App(c))'
      BY <1>2, <2>2 DEF ProviderCurrent, MovesOn, App
    <3>2. \A p \in providers : p.id = work[c].pid => OwnKind(c, p) /\ p.slug = App(c).spec.slug
      BY <2>2 DEF Updated, ProviderInv, ProviderKnown, Pids, NameInv, NamesKnown
    <3>3. \A p \in providers' : p.id = work[c].pid => OwnKind(c, p) /\ p.slug = App(c).spec.slug
      BY <2>2, <3>2, UpdatedFrom DEF OwnKind
    <3>. QED  BY <2>2, <3>1, <3>3 DEF MovesOn, App, OwnKind, Kind
  <2>3. ASSUME work[c].pc \in AfterProvider, MovesOn(c), UNCHANGED providers
        PROVE  /\ ProviderCurrent(c, App(c))'
               /\ (\A p \in providers : p.id = work[c].pid =>
                     OwnKind(c, p) /\ p.slug = App(c).spec.slug)'
    BY <2>3 DEF ProviderKept, ProviderCurrent, MovesOn, App, OwnKind, Kind
  <2>. QED  BY <1>4, <2>1, <2>2, <2>3, CallsPassProvider
<1>5. ASSUME Ready(c)'
      PROVE  ProviderCurrent(c, cr[c])'
  <2>1. ASSUME cr'[c] = cr[c], Ready(c)
        PROVE  ProviderCurrent(c, cr[c])'
    <3>1. ~At(c, "idle") => App(c).uid = cr[c].uid /\ App(c).gen = cr[c].gen
                            /\ App(c).spec = cr[c].spec
      BY <2>1, ReadyCopy
    <3>2. CASE Created(c) \/ Updated(c)
      BY <1>1, <1>2, <2>1, <3>1, <3>2 DEF ProviderCurrent, Created, Updated, At
    <3>3. CASE providers' \subseteq providers
      BY <1>3, <2>1, <3>3 DEF ProviderKept, ProviderCurrent, OwnKind, Kind
    <3>. QED  BY <3>2, <3>3, CallsProviders DEF Destroyed, DestroyProvider
  <2>2. ASSUME At(c, "publish"), cr'[c].uid = App(c).uid, cr'[c].gen = App(c).gen,
               cr'[c].spec = App(c).spec
        PROVE  ProviderCurrent(c, cr[c])'
    <3>1. UNCHANGED providers
      BY <2>2, CallsProviders DEF Created, Updated, Destroyed, At
    <3>2. ProviderCurrent(c, App(c))
      BY <2>2 DEF ProviderKept, AfterProvider, AfterApplication, At
    <3>. QED  BY <2>2, <3>1, <3>2 DEF ProviderCurrent, OwnKind, Kind
  <2>. QED  BY <1>5, <2>1, <2>2, CallsReady
<1>. QED  BY <1>4, <1>5 DEF ProviderKept

LEMMA CopySlugs ==
  ASSUME TypeOK, NEW c \in CRs
  PROVE  /\ ~At(c, "idle") => App(c).spec.slug \in Slugs
         /\ Exists(cr[c]) => cr[c].spec.slug \in Slugs
<1>1. ~At(c, "idle") => App(c).spec.slug \in Slugs
  BY InProgress DEF CRSpec
<1>2. ASSUME Exists(cr[c])
      PROVE  cr[c].spec.slug \in Slugs
  <2>1. cr[c] \in Object
    BY <1>2, Present DEF TypeOK
  <2>. QED  BY <2>1 DEF Object, CRSpec
<1>. QED  BY <1>1, <1>2

\* ApplicationCurrent after a step, of a version the step does not change.
StaysCurrent(c, o) ==
  LET app == applications'[o.spec.slug] IN
  Exists(app) =>
    /\ app.uid = o.uid /\ app.gen = o.gen
    /\ app.provider # 0 =>
         \E p \in providers' : p.id = app.provider /\ OwnKind(c, p) /\ p.slug = o.spec.slug

\* The deletion of any provider leaves what is there as it should be: what was attached to
\* it is attached to nothing,
LEMMA DestroyKeepsCurrent ==
  ASSUME TypeOK, NEW id, DestroyProvider(id), NEW c \in CRs, NEW o, o.spec.slug \in Slugs,
         ApplicationCurrent(c, o)
  PROVE  StaysCurrent(c, o)
<1>. DEFINE old == applications[o.spec.slug]
            app == applications'[o.spec.slug]
<1>1. app.uid = old.uid /\ app.gen = old.gen
      /\ app.provider = IF old.provider = id THEN 0 ELSE old.provider
  BY DEF DestroyProvider, TypeOK, Application
<1>2. providers' = {p \in providers : p.id # id}
  BY DEF DestroyProvider
<1>. QED  BY <1>1, <1>2 DEF ApplicationCurrent, StaysCurrent, Exists

\* and so does every other call that leaves the application alone.
LEMMA CallsKeepCurrent ==
  ASSUME TypeOK, NEW d \in CRs, Calls(d), NEW c \in CRs, NEW o, o.spec.slug \in Slugs,
         ApplicationCurrent(c, o),
         applications'[o.spec.slug] = applications[o.spec.slug] \/ Destroyed(d)
  PROVE  StaysCurrent(c, o)
<1>1. CASE Destroyed(d)
  BY <1>1, DestroyKeepsCurrent DEF Destroyed
<1>2. ASSUME ~Destroyed(d), NEW p \in providers
      PROVE  \E q \in providers' : q.id = p.id /\ q.kind = p.kind /\ q.slug = p.slug
  <2>1. CASE Updated(d)
    <3>. DEFINE q == [p EXCEPT !.uid = App(d).uid, !.gen = App(d).gen]
    <3>1. q.id = p.id /\ q.kind = p.kind /\ q.slug = p.slug
      BY UpdateKeeps
    <3>2. p.id = work[d].pid => q \in providers'
      BY <2>1 DEF Updated
    <3>3. p.id # work[d].pid => p \in providers'
      BY <2>1 DEF Updated
    <3>. QED  BY <3>1, <3>2, <3>3
  <2>. QED  BY <1>2, <2>1, CallsProviders DEF Created
<1>3. ASSUME ~Destroyed(d), applications'[o.spec.slug] = applications[o.spec.slug]
      PROVE  LET app == applications'[o.spec.slug] IN
             app.provider # 0 /\ Exists(app) =>
               \E q \in providers' : q.id = app.provider /\ OwnKind(c, q) /\ q.slug = o.spec.slug
  <2>. DEFINE app == applications[o.spec.slug]
  <2> SUFFICES ASSUME app.provider # 0, Exists(app)
               PROVE  \E q \in providers' :
                        q.id = app.provider /\ OwnKind(c, q) /\ q.slug = o.spec.slug
    BY <1>3
  <2>1. PICK p \in providers : p.id = app.provider /\ OwnKind(c, p) /\ p.slug = o.spec.slug
    BY DEF ApplicationCurrent
  <2>. QED  BY <1>2, <1>3, <2>1 DEF OwnKind
<1>. QED  BY <1>1, <1>3 DEF ApplicationCurrent, StaysCurrent, Exists

LEMMA OthersApplicationKept ==
  ASSUME SeparateSlugs, TypeOK, VersionInv,
         NEW c \in CRs, NEW d \in CRs \ {c}, ApplicationKept(c), Calls(d)
  PROVE  ApplicationKept(c)'
<1>1. cr'[c] = cr[c] /\ work'[c] = work[c]
  BY CallsOthers
<1>2. ASSUME NEW o, o.spec.slug \in SlugsOf(c), o.spec.slug \in Slugs
      PROVE  applications'[o.spec.slug] = applications[o.spec.slug] \/ Destroyed(d)
  <2>1. applications \in [Slugs -> Application]
    BY DEF TypeOK
  <2>2. ~At(d, "idle") => App(d).spec.slug # o.spec.slug
    BY <1>2, SlugOfCopy DEF SeparateSlugs
  <2>3. Wrote(d) \/ Removed(d) => App(d).spec.slug # o.spec.slug
    BY <2>2 DEF Wrote, Removed, At
  <2>. QED  BY <1>2, <2>1, <2>3, CallsApplications DEF Wrote, Removed
<1>3. ASSUME work[c].pc \in AfterApplication
      PROVE  ApplicationCurrent(c, App(c))'
  <2>1. ~At(c, "idle")
    BY <1>3 DEF At, AfterApplication
  <2>2. /\ App(c).spec.slug \in SlugsOf(c) /\ App(c).spec.slug \in Slugs
        /\ ApplicationCurrent(c, App(c))
    BY <1>3, <2>1, SlugOfCopy, CopySlugs DEF ApplicationKept
  <2>. QED  BY <1>1, <1>2, <2>2, CallsKeepCurrent
            DEF ApplicationCurrent, StaysCurrent, App, OwnKind, Kind, Exists
<1>4. ASSUME Ready(c)
      PROVE  ApplicationCurrent(c, cr[c])'
  <2>1. /\ cr[c].spec.slug \in SlugsOf(c) /\ cr[c].spec.slug \in Slugs
        /\ ApplicationCurrent(c, cr[c])
    BY <1>4, SlugOfCopy, CopySlugs DEF ApplicationKept, Ready
  <2>. QED  BY <1>1, <1>2, <2>1, CallsKeepCurrent
            DEF ApplicationCurrent, StaysCurrent, OwnKind, Kind, Exists
<1>5. Ready(c)' <=> Ready(c)
  BY <1>1 DEF Ready, Exists
<1>. QED  BY <1>1, <1>3, <1>4, <1>5 DEF ApplicationKept

\* An application is written only while its provider is there.
Attached(c) == Wrote(c) /\ HasProvider(work[c].pid) /\ UNCHANGED providers

LEMMA CallsAttach ==
  ASSUME TypeOK, NEW c \in CRs, Calls(c)
  PROVE  /\ UNCHANGED applications \/ Attached(c) \/ Removed(c) \/ Destroyed(c)
         /\ work'[c].pc \in AfterApplication =>
              \/ Attached(c)
              \/ work[c].pc \in AfterApplication /\ UNCHANGED <<providers, applications>>
<1>1. ASSUME CreateApp(c) \/ UpdateApp(c)
      PROVE  Attached(c) \/ (UNCHANGED applications /\ work'[c].pc = "report")
  <2>1. Fail(c, "AuthentikError") => work'[c].pc = "report"
    BY <1>1, FailMovesOn DEF CreateApp, UpdateApp, At
  <2>. QED  BY <1>1, <2>1 DEF CreateApp, UpdateApp, WriteApp, Attached, Wrote, At
<1>2. ASSUME work[c].pc \in AfterApplication
      PROVE  UNCHANGED <<providers, applications>>
  <2>1. DeleteStaleSecret(c) \/ GetURLs(c) \/ WriteSecret(c) \/ PublishStatus(c)
    BY <1>2 DEF AfterApplication, Calls, AddFinalizer, FindProvider, CreateProvider,
       UpdateProvider, FindApp, CreateApp, UpdateApp, ReportFailure, FindAppToDelete, DeleteApp,
       FindProviderToDelete, DeleteProvider, RemoveFinalizer, At
  <2>. QED  BY <2>1 DEF DeleteStaleSecret, GetURLs, WriteSecret, PublishStatus, authentik
<1>3. ~(CreateApp(c) \/ UpdateApp(c)) => ~Wrote(c)
  BY DEF Wrote, Calls, AddFinalizer, FindProvider, CreateProvider, UpdateProvider, FindApp,
     DeleteStaleSecret, GetURLs, WriteSecret, PublishStatus, ReportFailure, FindAppToDelete,
     DeleteApp, FindProviderToDelete, DeleteProvider, RemoveFinalizer, At
<1>4. "report" \notin AfterApplication
  BY DEF AfterApplication
<1>. QED  BY <1>1, <1>2, <1>3, <1>4, CallsApplications, CallsPassApplication

LEMMA OwnApplicationKept ==
  ASSUME TypeOK, IndInv, VersionInv, NEW c \in CRs, ProviderKept(c), ApplicationKept(c), Calls(c)
  PROVE  ApplicationKept(c)'
<1>1. ASSUME Attached(c), NEW o, o.uid = App(c).uid, o.gen = App(c).gen, o.spec = App(c).spec
      PROVE  LET app == applications'[o.spec.slug] IN
             /\ app.uid = o.uid /\ app.gen = o.gen
             /\ \E p \in providers' :
                  p.id = app.provider /\ OwnKind(c, p) /\ p.slug = o.spec.slug
  <2>1. work[c].pc \in AfterProvider /\ ~At(c, "idle")
    BY <1>1 DEF Attached, Wrote, AfterProvider, At
  <2>2. o.spec.slug \in Slugs /\ applications \in [Slugs -> Application]
    BY <1>1, <2>1, CopySlugs DEF TypeOK
  <2>3. applications'[o.spec.slug] =
          [provider |-> work[c].pid, uid |-> App(c).uid, gen |-> App(c).gen]
    BY <1>1, <2>2 DEF Attached, Wrote
  <2>4. PICK p \in providers : p.id = work[c].pid
    BY <1>1 DEF Attached, HasProvider
  <2>5. p \in providers' /\ OwnKind(c, p) /\ p.slug = o.spec.slug
    BY <1>1, <2>1, <2>4 DEF Attached, ProviderKept
  <2>. QED  BY <1>1, <2>3, <2>4, <2>5
<1>2. ASSUME work'[c].pc \in AfterApplication
      PROVE  ApplicationCurrent(c, App(c))'
  <2>1. App(c)' = App(c)
    BY <1>2, CallsPassApplication DEF MovesOn, App
  <2>2. CASE Attached(c)
    BY <1>1, <2>1, <2>2 DEF ApplicationCurrent, OwnKind, Kind
  <2>3. CASE work[c].pc \in AfterApplication /\ UNCHANGED <<providers, applications>>
    BY <2>1, <2>3 DEF ApplicationKept, ApplicationCurrent, OwnKind, Kind, Exists
  <2>. QED  BY <1>2, <2>2, <2>3, CallsAttach
<1>3. ASSUME Ready(c)'
      PROVE  ApplicationCurrent(c, cr[c])'
  <2>1. ASSUME cr'[c] = cr[c], Ready(c)
        PROVE  ApplicationCurrent(c, cr[c])'
    <3>1. ApplicationCurrent(c, cr[c]) /\ cr[c].spec.slug \in Slugs
      BY <2>1, CopySlugs DEF ApplicationKept, Ready
    <3>2. ~Removed(c)
      BY <2>1, ReadyCopy DEF Removed, At, Deleting
    <3>3. CASE Attached(c)
      <4>1. App(c).uid = cr[c].uid /\ App(c).gen = cr[c].gen /\ App(c).spec = cr[c].spec
        BY <2>1, <3>3, ReadyCopy DEF Attached, Wrote, At
      <4>. QED  BY <1>1, <2>1, <3>3, <4>1 DEF ApplicationCurrent, OwnKind, Kind
    <3>4. CASE UNCHANGED applications \/ Destroyed(c)
      BY <2>1, <3>1, <3>4, CallsKeepCurrent
         DEF ApplicationCurrent, StaysCurrent, OwnKind, Kind, Exists
    <3>. QED  BY <3>2, <3>3, <3>4, CallsAttach
  <2>2. ASSUME At(c, "publish"), cr'[c].uid = App(c).uid, cr'[c].gen = App(c).gen,
               cr'[c].spec = App(c).spec
        PROVE  ApplicationCurrent(c, cr[c])'
    <3>1. UNCHANGED <<providers, applications>>
      BY <2>2, CallsApplications, CallsProviders
         DEF Wrote, Removed, Created, Updated, Destroyed, At
    <3>2. ApplicationCurrent(c, App(c))
      BY <2>2 DEF ApplicationKept, AfterApplication, At
    <3>. QED  BY <2>2, <3>1, <3>2 DEF ApplicationCurrent, OwnKind, Kind, Exists
  <2>. QED  BY <1>3, <2>1, <2>2, CallsReady
<1>. QED  BY <1>2, <1>3 DEF ApplicationKept

\* The steps that are not calls change Authentik only where an administrator deletes.
LEMMA DriftDeletes ==
  ASSUME TypeOK, (\E d \in CRs : Begins(d)) \/ Manager \/ Environment \/ UNCHANGED vars
  PROVE  \/ UNCHANGED <<providers, applications>>
         \/ \E id : DestroyProvider(id)
         \/ UNCHANGED providers /\ \E s \in Slugs :
              applications' = [applications EXCEPT ![s] = NoApplication]
<1>1. CASE (\E d \in CRs : Begins(d)) \/ UNCHANGED vars
  BY <1>1 DEF Begins, Ignore, BeginDeletion, BeginFinalizer, RejectTemplate, BeginSync, Dequeue,
     authentik, vars
<1>2. CASE Manager
  BY <1>2 DEF Manager, WatchCR, TimerFires, WatchSecret, Restart, authentik
<1>3. CASE Environment
  BY <1>3 DEF Environment, CreateCR, EditCR, DeleteCR, CollectSecret, DriftSecret, DriftApp,
     DriftProvider, authentik
<1>. QED  BY <1>1, <1>2, <1>3

LEMMA OthersKept ==
  ASSUME TypeOK, VersionInv, NEW c \in CRs, ProviderKept(c), ApplicationKept(c),
         (\E d \in CRs : Begins(d)) \/ Manager \/ Environment \/ UNCHANGED vars
  PROVE  ProviderKept(c)' /\ ApplicationKept(c)'
<1>1. work'[c] = work[c] \/ work'[c].pc \notin AfterProvider
  BY OthersSteps, NoCRFields DEF Untouched, Begun, Delivered, ByUser, Idle, AfterProvider,
     AfterApplication
<1>2. Ready(c)' => cr'[c] = cr[c] /\ Ready(c)
  BY OthersReady
<1>3. AfterApplication \subseteq AfterProvider
  BY DEF AfterProvider
<1>4. providers' \subseteq providers
  BY DriftDeletes DEF DestroyProvider
<1>5. ProviderKept(c)'
  BY <1>1, <1>2, <1>4 DEF ProviderKept, ProviderCurrent, OwnKind, Kind, App
<1>6. ASSUME NEW o, o.spec.slug \in Slugs, ApplicationCurrent(c, o)
      PROVE  StaysCurrent(c, o)
  <2>1. CASE UNCHANGED <<providers, applications>>
    BY <1>6, <2>1 DEF ApplicationCurrent, StaysCurrent
  <2>2. ASSUME NEW id, DestroyProvider(id)
        PROVE  StaysCurrent(c, o)
    BY <1>6, <2>2, DestroyKeepsCurrent
  <2>3. ASSUME NEW s \in Slugs, applications' = [applications EXCEPT ![s] = NoApplication],
               UNCHANGED providers
        PROVE  StaysCurrent(c, o)
    <3>1. ~Exists(NoApplication) /\ applications \in [Slugs -> Application]
      BY DEF Exists, NoApplication, TypeOK
    <3>2. applications'[o.spec.slug] \in {applications[o.spec.slug], NoApplication}
      BY <1>6, <2>3, <3>1
    <3>. QED  BY <1>6, <2>3, <3>1, <3>2 DEF ApplicationCurrent, StaysCurrent
  <2>. QED  BY <2>1, <2>2, <2>3, DriftDeletes
<1>7. ASSUME work'[c].pc \in AfterApplication
      PROVE  ApplicationCurrent(c, App(c))'
  <2>1. work'[c] = work[c] /\ ~At(c, "idle")
    BY <1>1, <1>3, <1>7 DEF At, AfterApplication
  <2>2. ApplicationCurrent(c, App(c)) /\ App(c).spec.slug \in Slugs
    BY <1>7, <2>1, CopySlugs DEF ApplicationKept
  <2>. QED  BY <1>6, <2>1, <2>2 DEF ApplicationCurrent, StaysCurrent, App, OwnKind, Kind, Exists
<1>8. ASSUME Ready(c)'
      PROVE  ApplicationCurrent(c, cr[c])'
  <2>1. cr'[c] = cr[c] /\ ApplicationCurrent(c, cr[c]) /\ cr[c].spec.slug \in Slugs
    BY <1>2, <1>8, CopySlugs DEF ApplicationKept, Ready
  <2>. QED  BY <1>6, <2>1 DEF ApplicationCurrent, StaysCurrent, OwnKind, Kind, Exists
<1>. QED  BY <1>5, <1>7, <1>8 DEF ApplicationKept

LEMMA InitKept == Init => KeptInv
<1> SUFFICES ASSUME Init, NEW c \in CRs
             PROVE  ProviderKept(c) /\ ApplicationKept(c)
  BY DEF KeptInv
<1>1. cr[c] = NoCR /\ work[c] = Idle
  BY DEF Init
<1>2. Idle.pc \notin AfterProvider /\ Idle.pc \notin AfterApplication
  BY DEF Idle, AfterProvider, AfterApplication
<1>3. ~Ready(c)
  BY <1>1, NoCRStatus DEF Ready, Exists
<1>. QED  BY <1>1, <1>2, <1>3 DEF ProviderKept, ApplicationKept

LEMMA KeptStep ==
  ASSUME SeparateSlugs, TypeOK, IndInv, VersionInv, ProviderInv, NameInv, KeptInv, [Next]_vars
  PROVE  KeptInv'
<1> SUFFICES ASSUME NEW c \in CRs
             PROVE  ProviderKept(c)' /\ ApplicationKept(c)'
  BY DEF KeptInv
<1>1. ProviderKept(c) /\ ApplicationKept(c)
  BY DEF KeptInv
<1>2. SeparateByKind
  BY DEF SeparateSlugs, SeparateByKind
<1>3. ASSUME NEW d \in CRs, Calls(d)
      PROVE  ProviderKept(c)' /\ ApplicationKept(c)'
  BY <1>1, <1>2, <1>3, OwnProviderKept, OthersProviderKept, OwnApplicationKept,
     OthersApplicationKept
<1>. QED  BY <1>1, <1>3, OthersKept, NextCases

\* Whatever an administrator deletes, of a Ready resource something may be missing in
\* Authentik, but nothing that is there is another generation's: a provider or an
\* application that a reconcile makes anew, before or after it has published, has the
\* settings of the version that is published.
THEOREM ReadyIsNeverOutdated ==
  ASSUME SeparateSlugs
  PROVE  Spec => []ReadyNeverOutdated
<1>1. TypeOK /\ IndInv /\ VersionInv /\ ProviderInv /\ NameInv /\ KeptInv /\ [Next]_vars
        => KeptInv'
  BY KeptStep
<1>2. KeptInv => ReadyNeverOutdated
  BY DEF KeptInv, ProviderKept, ApplicationKept, ReadyNeverOutdated
<1>. QED  BY <1>1, <1>2, InitKept, TypeCorrect, Inductive, VersionsKnown, ProviderKeys,
          NamesAreKnown, PTL DEF Spec

-----------------------------------------------------------------------------
(* The secret of a Ready resource *)

\* What the API server and the cache say of a secret: they may differ, but do not
\* name two owners.
KeysAgree(n) ==
  /\ Exists(secretCache[n]) => secretCache[n].key # ""
  /\ secrets[n].key # "" => Exists(secrets[n])
  /\ Exists(secretCache[n]) /\ secrets[n].key # "" => secretCache[n].key = secrets[n].key

\* The providers whose credentials are in the secrets of a resource.
SecretPids(c) ==
  {id \in Nat \ {0} : \E n \in SecretNames : \E s \in {secrets[n], secretCache[n]} :
     s.key = c /\ s.data[1] = id}

\* They are known as those of its status are, and no two resources know the same.
SecretKnown(c) ==
  /\ \A id \in SecretPids(c) : id < nextPid
  /\ \A p \in providers : p.id \in SecretPids(c) => OwnKind(c, p) /\ p.slug \in SlugsOf(c)

Known(c) == Pids(c) \cup SecretPids(c)

KnownApart(c) == \A d \in CRs \ {c} : Known(c) \cap Known(d) \subseteq {0}

\* A reconcile past the provider has its key; one that adds the finalizer found none.
Carries(c) ==
  /\ work[c].pc \in AfterProvider => work[c].pid # 0
  /\ At(c, "addFinalizer") => ~App(c).fin

\* Constant data in a secret was rendered for its owner.
ConstantOwned(n) ==
  \A s \in {secrets[n], secretCache[n]} : s.data[2] = "constant" =>
    s.key \in CRs /\ \E spec \in Specs[s.key] : spec.secret = n /\ spec.template = "constant"

KeyedInv ==
  /\ \A n \in SecretNames : KeysAgree(n) /\ ConstantOwned(n)
  /\ \A c \in CRs : SecretKnown(c) /\ KnownApart(c) /\ Carries(c)

\* Secret s, with copy in the cache, is what version o of resource c asks for and will
\* not be collected unseen; or the resource is queued, or will be; or an
\* administrator has deleted the secret.
LookedAfter(c, o, pid, s, copy, queued, drifts) ==
  \/ s.key = c /\ s.data = Data(o.spec.template, pid) /\ (s.uid = o.uid \/ Exists(copy))
  \/ queued
  \/ copy.key = c /\ copy # s
  \/ drifts > 0 /\ s.key # c

SecretInPlace(c, o, pid) ==
  LookedAfter(c, o, pid, secrets[o.spec.secret], secretCache[o.spec.secret], c \in queue,
              spent.drifts)

SecretServed(c) ==
  /\ At(c, "publish") /\ OwnData(c, App(c)) => SecretInPlace(c, App(c), work[c].pid)
  /\ Ready(c) /\ At(c, "idle") /\ cache[c] = cr[c] /\ OwnData(c, cr[c]) =>
       SecretInPlace(c, cr[c], cr[c].status.pid)

SecretsServed == spent.faults = 0 => \A c \in CRs : SecretServed(c)

\* The steps as the API server's and the cache's copy of one secret see them.
Delivers(n) ==
  /\ secretCache'[n] = secrets[n] /\ secrets'[n] = secrets[n]
  /\ \A c \in CRs : secretCache[n].key = c /\ Exists(cr[c]) => c \in queue'

Removes(n) ==
  /\ secrets'[n] = NoSecret /\ secretCache'[n] = secretCache[n]
  /\ \/ Exists(secretCache[n]) \/ cr[secrets[n].key].uid # secrets[n].uid
     \/ spent'.drifts > 0

Writes(c, n) ==
  /\ At(c, "writeSecret") /\ n = App(c).spec.secret /\ MayWriteSecret(c, n)
  /\ secretCache'[n] = secretCache[n]
  /\ secrets'[n].key = c /\ secrets'[n].uid = App(c).uid
  /\ secrets'[n].data = RenderedData(c)

LEMMA CallsWriteSecrets ==
  ASSUME TypeOK, NEW c \in CRs, Calls(c), NEW n \in SecretNames, secrets'[n] # secrets[n]
  PROVE  Removes(n) \/ Writes(c, n)
<1>0. secrets \in [SecretNames -> Secret] /\ UNCHANGED secretCache
  BY DEF TypeOK, Calls, AddFinalizer, FindProvider, CreateProvider, UpdateProvider,
     FindApp, CreateApp, UpdateApp, WriteApp, DeleteStaleSecret, GetURLs, WriteSecret,
     PublishStatus, ReportFailure, FindAppToDelete, DeleteApp, FindProviderToDelete,
     DeleteProvider, RemoveFinalizer, kubernetes
<1>1. ASSUME DeleteStaleSecret(c)
      PROVE  Removes(n)
  BY <1>0, <1>1 DEF DeleteStaleSecret, Removes
<1>2. ASSUME WriteSecret(c)
      PROVE  Writes(c, n)
  <2>1. PICK m \in SecretNames : m = App(c).spec.secret
    BY <1>2, InProgress DEF WriteSecret, At, CRSpec
  <2>2. MayWriteSecret(c, m) /\ At(c, "writeSecret")
        /\ secrets' = [secrets EXCEPT ![m] =
             [key |-> c, uid |-> App(c).uid, data |-> RenderedData(c),
              labels |-> secrets[m].labels \cup {App(c).spec.labels}]]
    BY <1>2, <2>1 DEF WriteSecret
  <2>. QED  BY <1>0, <2>1, <2>2 DEF Writes
<1>3. DeleteStaleSecret(c) \/ WriteSecret(c)
  BY DEF Calls, AddFinalizer, FindProvider, CreateProvider, UpdateProvider,
     FindApp, CreateApp, UpdateApp, WriteApp, GetURLs, PublishStatus, ReportFailure,
     FindAppToDelete, DeleteApp, FindProviderToDelete, DeleteProvider, RemoveFinalizer,
     kubernetes
<1>. QED  BY <1>1, <1>2, <1>3

LEMMA SecretSteps ==
  ASSUME TypeOK, [Next]_vars, NEW n \in SecretNames
  PROVE  \/ secrets'[n] = secrets[n] /\ secretCache'[n] = secretCache[n]
         \/ Delivers(n) \/ Removes(n) \/ \E c \in CRs : Calls(c) /\ Writes(c, n)
<1>0. /\ secrets \in [SecretNames -> Secret] /\ secretCache \in [SecretNames -> Secret]
      /\ spent \in [edits : Nat, faults : Nat, drifts : Nat, crashes : Nat]
  BY DEF TypeOK
<1>1. ASSUME NEW c \in CRs, Calls(c)
      PROVE  secretCache'[n] = secretCache[n]
  BY <1>1 DEF Calls, AddFinalizer, FindProvider, CreateProvider, UpdateProvider,
     FindApp, CreateApp, UpdateApp, WriteApp, DeleteStaleSecret, GetURLs, WriteSecret,
     PublishStatus, ReportFailure, FindAppToDelete, DeleteApp, FindProviderToDelete,
     DeleteProvider, RemoveFinalizer, kubernetes
<1>2. CASE (\E c \in CRs : Begins(c)) \/ UNCHANGED vars
  BY <1>2 DEF Begins, Ignore, BeginDeletion, BeginFinalizer, RejectTemplate, BeginSync,
     Dequeue, kubernetes, vars
<1>3. ASSUME NEW m \in SecretNames, WatchSecret(m)
      PROVE  (secrets'[n] = secrets[n] /\ secretCache'[n] = secretCache[n]) \/ Delivers(n)
  <2>1. "" \notin CRs
    BY ConstantsAssumption
  <2>. QED  BY <1>0, <1>3, <2>1 DEF WatchSecret, Delivers
<1>4. CASE Restart
  BY <1>4 DEF Restart, Delivers
<1>5. CASE Manager
  BY <1>3, <1>4, <1>5 DEF Manager, WatchCR, TimerFires, kubernetes
<1>6. ASSUME NEW m \in SecretNames, CollectSecret(m)
      PROVE  (secrets'[n] = secrets[n] /\ secretCache'[n] = secretCache[n]) \/ Removes(n)
  BY <1>0, <1>6 DEF CollectSecret, Removes
<1>7. ASSUME NEW m \in SecretNames, DriftSecret(m)
      PROVE  (secrets'[n] = secrets[n] /\ secretCache'[n] = secretCache[n]) \/ Removes(n)
  <2>1. spent'.drifts > 0
    BY <1>0, <1>7 DEF DriftSecret, Drift
  <2>. QED  BY <1>0, <1>7, <2>1 DEF DriftSecret, Drift, Removes
<1>8. CASE Environment
  BY <1>6, <1>7, <1>8 DEF Environment, CreateCR, EditCR, DeleteCR, DriftApp, DriftProvider, Drift
<1>. QED  BY <1>1, <1>2, <1>5, <1>8, CallsWriteSecrets, NextCases

LEMMA StepConstantOwned ==
  ASSUME TypeOK, VersionInv, [Next]_vars, NEW n \in SecretNames, ConstantOwned(n)
  PROVE  ConstantOwned(n)'
<1>1. NoSecret.data[2] # "constant"
  BY DEF NoSecret
<1>2. ASSUME NEW c \in CRs, Writes(c, n), secrets'[n].data[2] = "constant"
      PROVE  App(c).spec \in Specs[c] /\ App(c).spec.secret = n
             /\ App(c).spec.template = "constant"
  <2>1. ~At(c, "idle") /\ App(c).uid \in Nat \ {0}
    BY <1>2, InProgress DEF Writes, At
  <2>2. App(c).spec \in Specs[c]
    BY <2>1 DEF VersionInv, Versions, Specified, Copies, Exists
  <2>. QED  BY <1>2, <2>2 DEF Writes, RenderedData, Data
<1>. QED  BY <1>1, <1>2, SecretSteps DEF ConstantOwned, Delivers, Removes, Writes

LEMMA StepKeysAgree ==
  ASSUME TypeOK, [Next]_vars, SecretsOwned, NEW n \in SecretNames, KeysAgree(n)
  PROVE  KeysAgree(n)'
<1>0. NoSecret.key = "" /\ NoSecret.uid = 0 /\ "" \notin CRs
  BY ConstantsAssumption DEF NoSecret
<1>1. CASE secrets'[n] = secrets[n] /\ secretCache'[n] = secretCache[n]
  BY <1>1 DEF KeysAgree, Exists
<1>2. CASE Delivers(n)
  BY <1>2 DEF KeysAgree, Exists, Delivers, SecretsOwned
<1>3. CASE Removes(n)
  BY <1>0, <1>3 DEF KeysAgree, Exists, Removes
<1>4. ASSUME NEW c \in CRs, Calls(c), Writes(c, n)
      PROVE  KeysAgree(n)'
  <2>1. App(c).uid # 0
    BY <1>4, InProgress DEF Writes, At
  <2>. QED  BY <1>0, <1>4, <2>1 DEF KeysAgree, Exists, Writes, MayWriteSecret
<1>. QED  BY <1>1, <1>2, <1>3, <1>4, SecretSteps

\* A step puts no key into the secrets of a resource but that of its reconcile.
LEMMA StepSecretPids ==
  ASSUME TypeOK, [Next]_vars, NEW c \in CRs
  PROVE  SecretPids(c)' \subseteq SecretPids(c) \cup {work[c].pid}
<1> SUFFICES ASSUME NEW id \in Nat, NEW n \in SecretNames,
                    NEW s \in {secrets'[n], secretCache'[n]}, s.key = c, s.data[1] = id, id # 0
             PROVE  id \in SecretPids(c) \cup {work[c].pid}
  BY DEF SecretPids
<1>0. NoSecret.key = "" /\ "" \notin CRs
  BY ConstantsAssumption DEF NoSecret
<1>1. CASE s \in {secrets[n], secretCache[n]}
  BY <1>1 DEF SecretPids
<1>2. ASSUME NEW d \in CRs, Writes(d, n), s = secrets'[n]
      PROVE  id = work[c].pid
  <2>1. s.key = d /\ s.data[1] \in {0, work[d].pid}
    BY <1>2 DEF Writes, RenderedData, Data
  <2>. QED  BY <2>1
<1>3. s = NoSecret => FALSE
  BY <1>0
<1>4. \/ s \in {secrets[n], secretCache[n], NoSecret}
      \/ \E d \in CRs : Writes(d, n) /\ s = secrets'[n]
  BY SecretSteps DEF Delivers, Removes, Writes
<1>. QED  BY <1>1, <1>2, <1>3, <1>4

LEMMA KnownTypes ==
  ASSUME TypeOK, NEW c \in CRs
  PROVE  Known(c) \subseteq Nat /\ work[c].pid \in Known(c) /\ work[c].pid \in Pids(c)
BY PidTypes DEF Known, SecretPids, Pids

\* What a step adds to the providers a resource knows.
LEMMA StepKnown ==
  ASSUME TypeOK, [Next]_vars, NEW c \in CRs
  PROVE  \/ Known(c)' \subseteq Known(c) \cup {0}
         \/ Calls(c) /\ (\A d \in CRs \ {c} : ~Calls(d)) /\ \E id \in Nat :
              /\ Known(c)' \subseteq Known(c) \cup {id}
              /\ \/ Made(c) /\ id = nextPid
                 \/ \E p \in providers :
                      p.id = id /\ p.slug = App(c).spec.slug /\ OwnKind(c, p)
<1>0. SecretPids(c)' \subseteq Known(c) /\ Pids(c) \subseteq Known(c)
  BY StepSecretPids, KnownTypes DEF Known
<1>1. ASSUME NEW d \in CRs, Calls(d), d # c
      PROVE  Pids(c)' \subseteq Pids(c) \cup {0}
  BY <1>1, CallsOthers DEF Pids, App
<1>2. ASSUME (\E d \in CRs : Begins(d)) \/ Manager \/ Environment \/ UNCHANGED vars
      PROVE  Pids(c)' \subseteq Pids(c) \cup {0}
  <2>1. Idle.app.status.pid = 0 /\ Idle.pid = 0 /\ NoCR.status.pid = 0 /\ NoStatus.pid = 0
    BY DEF Idle, NoCR, NoStatus
  <2>. QED  BY <1>2, <2>1, OthersSteps
            DEF Untouched, Begun, Delivered, ByUser, Born, Bumped, Pids, App
<1>3. ASSUME Calls(c), Kept(c)
      PROVE  Pids(c)' \subseteq Pids(c) \cup {0}
  <2>1. Idle.app.status.pid = 0 /\ Idle.pid = 0
    BY DEF Idle, NoCR, NoStatus
  <2>2. UNCHANGED cache
    BY <1>3, CallsOthers
  <2>. QED  BY <1>3, <2>1, <2>2, StatusPids DEF Kept, MovesOn, Pids, App
<1>4. ASSUME Found(c)
      PROVE  \E p \in providers :
               /\ p.slug = App(c).spec.slug /\ OwnKind(c, p) /\ p.id \in Nat
               /\ Pids(c)' \subseteq Pids(c) \cup {p.id}
  <2>1. PICK p \in providers :
          /\ p.slug = App(c).spec.slug /\ OwnKind(c, p)
          /\ work'[c].app = App(c) /\ work'[c].pid = p.id /\ UNCHANGED <<cr, cache>>
    BY <1>4 DEF Found
  <2>2. p.id \in Nat
    BY DEF TypeOK, Provider
  <2>. QED  BY <2>1, <2>2 DEF Pids, App
<1>5. ASSUME Made(c)
      PROVE  Pids(c)' \subseteq Pids(c) \cup {nextPid} /\ nextPid \in Nat
  BY <1>5 DEF Made, Pids, App, TypeOK
<1>6. ASSUME NEW id, Pids(c)' \subseteq Pids(c) \cup {id}
      PROVE  Known(c)' \subseteq Known(c) \cup {id}
  BY <1>0, <1>6 DEF Known
<1>7. \/ Pids(c)' \subseteq Pids(c) \cup {0}
      \/ Calls(c) /\ (\A d \in CRs \ {c} : ~Calls(d)) /\ (Found(c) \/ Made(c))
  BY <1>1, <1>2, <1>3, CallsLearn, NextCases
<1>. QED  BY <1>4, <1>5, <1>6, <1>7

\* A provider of c's kind that is named after a slug of c's is known to no other.
LEMMA NotKnownToOthers ==
  ASSUME SeparateByKind, ProviderInv, NameInv, NEW c \in CRs, NEW d \in CRs \ {c},
         SecretKnown(d), NEW p \in providers, OwnKind(c, p), p.slug \in SlugsOf(c)
  PROVE  p.id \notin Known(d)
<1>1. p.id \notin SecretPids(d)
  BY DEF SecretKnown, SeparateByKind, OwnKind
<1>. QED  BY <1>1, ProviderNotKnown DEF Known

LEMMA StepProviders ==
  ASSUME TypeOK, ProviderInv, NameInv, [Next]_vars
  PROVE  KeysOnlyAdded /\ NamesOnlyAdded
<1>1. ASSUME NEW c \in CRs, Calls(c)
      PROVE  KeysOnlyAdded /\ NamesOnlyAdded
  BY <1>1, AuthentikKeys, CallsNames DEF ProviderInv, NameInv
<1>2. ASSUME (\E c \in CRs : Begins(c)) \/ Manager \/ Environment \/ UNCHANGED vars
      PROVE  KeysOnlyAdded /\ NamesOnlyAdded
  <2>1. providers' \subseteq providers /\ UNCHANGED nextPid
    BY <1>2 DEF Begins, Ignore, BeginDeletion, BeginFinalizer, RejectTemplate, BeginSync, Dequeue,
       Manager, WatchCR, TimerFires, WatchSecret, Restart, Environment, CreateCR, EditCR, DeleteCR,
       CollectSecret, Drift, DriftSecret, DriftApp, DriftProvider, DestroyProvider, authentik, vars
  <2>. QED  BY <2>1, KeysKept DEF ProviderInv, NamesOnlyAdded
<1>. QED  BY <1>1, <1>2, NextCases

LEMMA StepSecretKnown ==
  ASSUME TypeOK, ProviderInv, NameInv, [Next]_vars, NEW c \in CRs, SecretKnown(c)
  PROVE  SecretKnown(c)'
<1>0. KeysOnlyAdded /\ NamesOnlyAdded
  BY StepProviders
<1>1. ASSUME NEW id \in SecretPids(c)'
      PROVE  /\ id \in Nat /\ id < nextPid
             /\ id \in SecretPids(c) \cup Pids(c)
  <2>1. id \in SecretPids(c) \cup Pids(c)
    BY StepSecretPids, KnownTypes
  <2>. QED  BY <2>1, KnownTypes DEF Known, SecretKnown, ProviderInv, ProviderKnown
<1>2. nextPid \in Nat /\ nextPid' \in Nat /\ nextPid' >= nextPid
  BY <1>0 DEF KeysOnlyAdded, TypeOK
<1>3. \A id \in SecretPids(c)' : id < nextPid'
  BY <1>1, <1>2
<1>4. ASSUME NEW q \in providers', q.id \in SecretPids(c)'
      PROVE  OwnKind(c, q) /\ q.slug \in SlugsOf(c)
  <2>1. q.id # nextPid
    BY <1>1, <1>2, <1>4
  <2>2. PICK p \in providers : p.id = q.id /\ p.slug = q.slug
    BY <1>0, <2>1 DEF NamesOnlyAdded
  <2>3. PICK o \in providers : o.id = q.id /\ o.kind = q.kind
    BY <1>0, <2>1 DEF KeysOnlyAdded
  <2>4. p = o
    BY <2>2, <2>3 DEF NameInv, NamesUnique
  <2>5. OwnKind(c, p) /\ p.slug \in SlugsOf(c)
    BY <1>1, <1>4, <2>2 DEF SecretKnown, ProviderInv, ProviderKnown, NameInv, NamesKnown
  <2>. QED  BY <2>2, <2>3, <2>4, <2>5 DEF OwnKind
<1>. QED  BY <1>3, <1>4 DEF SecretKnown, OwnKind, Kind, SlugsOf

LEMMA StepKnownApart ==
  ASSUME SeparateByKind, TypeOK, ProviderInv, NameInv, VersionInv, [Next]_vars,
         \A c \in CRs : SecretKnown(c) /\ KnownApart(c)
  PROVE  \A c \in CRs : KnownApart(c)'
<1>. DEFINE Learns(c) ==
       (\A d \in CRs \ {c} : ~Calls(d)) /\ \E id \in Nat :
         /\ Known(c)' \subseteq Known(c) \cup {id}
         /\ \A d \in CRs \ {c} : id \notin Known(d)
<1>1. ASSUME NEW c \in CRs
      PROVE  Known(c)' \subseteq Known(c) \cup {0} \/ (Calls(c) /\ Learns(c))
  <2>1. ASSUME NEW d \in CRs
        PROVE  nextPid \notin Known(d)
    <3>1. nextPid \in Nat /\ \A id \in Known(d) : id \in Nat /\ id < nextPid
      BY KnownTypes DEF Known, SecretKnown, ProviderInv, ProviderKnown, TypeOK
    <3>. QED  BY <3>1
  <2>2. ASSUME Calls(c), NEW p \in providers, p.slug = App(c).spec.slug, OwnKind(c, p)
        PROVE  \A d \in CRs \ {c} : p.id \notin Known(d)
    <3>1. ~At(c, "idle")
      BY <2>2, CallsBusy
    <3>2. p.slug \in SlugsOf(c)
      BY <2>2, <3>1, SlugOfCopy
    <3>. QED  BY <2>2, <3>2, NotKnownToOthers
  <2>. QED  BY <2>1, <2>2, StepKnown
<1>2. ASSUME NEW c \in CRs, NEW d \in CRs \ {c}
      PROVE  Known(c)' \cap Known(d)' \subseteq {0}
  <2>1. Known(c) \cap Known(d) \subseteq {0} /\ d \in CRs /\ c \in CRs \ {d}
    BY DEF KnownApart
  <2>2. CASE Known(c)' \subseteq Known(c) \cup {0} /\ Known(d)' \subseteq Known(d) \cup {0}
    BY <2>1, <2>2
  <2>3. CASE Calls(c) /\ Learns(c)
    <3>1. Known(d)' \subseteq Known(d) \cup {0}
      BY <1>1, <2>1, <2>3
    <3>. QED  BY <2>1, <2>3, <3>1
  <2>4. CASE Calls(d) /\ Learns(d)
    <3>1. Known(c)' \subseteq Known(c) \cup {0}
      BY <1>1, <2>1, <2>4
    <3>. QED  BY <2>1, <2>4, <3>1
  <2>. QED  BY <1>1, <2>1, <2>2, <2>3, <2>4
<1>. QED  BY <1>2 DEF KnownApart

LEMMA StepCarries ==
  ASSUME TypeOK, ProviderInv, [Next]_vars, NEW c \in CRs, Carries(c)
  PROVE  Carries(c)'
<1>0. /\ "addFinalizer" \notin Syncing \cup Deleting \cup {"report", "idle"}
      /\ {"findAppToDelete", "addFinalizer", "report", "findProvider", "idle"}
           \cap AfterProvider = {}
      /\ Idle.pc = "idle"
  BY DEF Syncing, Deleting, AfterProvider, AfterApplication, Idle
<1>1. ASSUME Calls(c)
      PROVE  Carries(c)'
  <2>1. work'[c].pc # "addFinalizer"
    <3>1. Syncs(c) \/ Deletes(c) => work'[c].pc # "addFinalizer"
      BY <1>0, SyncsMove, DeletesMove DEF Moves
    <3>2. AddFinalizer(c) \/ PublishStatus(c) \/ ReportFailure(c) \/ RemoveFinalizer(c)
            => work'[c] = Idle
      BY ReturnIdles DEF AddFinalizer, PublishStatus, ReportFailure, RemoveFinalizer
    <3>. QED  BY <1>0, <1>1, <3>1, <3>2 DEF Calls, Syncs, Deletes
  <2>2. ASSUME work'[c].pc \in AfterProvider
        PROVE  work'[c].pid # 0
    <3>1. Made(c) => work'[c].pid # 0
      BY DEF Made, TypeOK
    <3>2. Updated(c) => work[c].pid # 0
      BY DEF Updated, ProviderInv, KeysSpent
    <3>. QED  BY <1>1, <2>2, <3>1, <3>2, CallsPassProvider DEF Carries, MovesOn
  <2>. QED  BY <2>1, <2>2 DEF Carries, At
<1>2. ASSUME Begins(c)
      PROVE  Carries(c)'
  <2>1. work'[c].pc = "addFinalizer" => work'[c] = work[c] \/ ~work'[c].app.fin
    <3>1. ASSUME NEW step, NEW why, Begin(c, step, why)
          PROVE  work'[c].pc = step /\ work'[c].app = cache[c]
      BY <3>1 DEF Begin, TypeOK
    <3>2. BeginFinalizer(c) => ~work'[c].app.fin
      BY <3>1 DEF BeginFinalizer
    <3>3. BeginDeletion(c) \/ RejectTemplate(c) \/ BeginSync(c) =>
            work'[c].pc \in {"findAppToDelete", "report", "findProvider"}
      BY <3>1 DEF BeginDeletion, RejectTemplate, BeginSync
    <3>4. Ignore(c) => work'[c] = work[c]
      BY DEF Ignore
    <3>. QED  BY <1>2, <3>2, <3>3, <3>4 DEF Begins
  <2>. QED  BY <1>0, <1>2, <2>1, BeginsWork DEF Carries, At, App
<1>3. work'[c] = work[c] => Carries(c)'
  BY DEF Carries, At, App
<1>4. work'[c] = work[c] \/ work'[c] = Idle \/ Calls(c) \/ Begins(c)
  <2>1. ASSUME NEW d \in CRs, Begins(d) \/ Calls(d), d # c
        PROVE  work'[c] = work[c]
    BY <2>1, BeginsWork, CallsOthers
  <2>2. Manager \/ Environment \/ UNCHANGED vars => work'[c] \in {work[c], Idle}
    BY DEF Manager, WatchCR, TimerFires, WatchSecret, Restart, Environment, CreateCR, EditCR,
       DeleteCR, CollectSecret, Drift, DriftSecret, DriftApp, DriftProvider, vars
  <2>. QED  BY <2>1, <2>2, NextCases
<1>. QED  BY <1>0, <1>1, <1>2, <1>3, <1>4 DEF Carries, At

LEMMA InitKeyed == Init => KeyedInv
<1> SUFFICES ASSUME Init
             PROVE  KeyedInv
  OBVIOUS
<1>1. /\ NoSecret.key = "" /\ NoSecret.uid = 0 /\ "" \notin CRs
      /\ Idle.pc = "idle" /\ Idle.pid = 0 /\ Idle.app = NoCR /\ NoCR.status.pid = 0
  BY ConstantsAssumption DEF NoSecret, Idle, NoCR, NoStatus
<1>2. ASSUME NEW n \in SecretNames
      PROVE  secrets[n] = NoSecret /\ secretCache[n] = NoSecret
  BY <1>2 DEF Init
<1>3. ASSUME NEW c \in CRs
      PROVE  cr[c] = NoCR /\ cache[c] = NoCR /\ work[c] = Idle
  BY <1>3 DEF Init
<1>4. \A n \in SecretNames : KeysAgree(n)
  BY <1>1, <1>2 DEF KeysAgree, Exists
<1>c. NoSecret.data[2] # "constant"
  BY DEF NoSecret
<1>d. \A n \in SecretNames : ConstantOwned(n)
  BY <1>2, <1>c DEF ConstantOwned
<1>5. ASSUME NEW c \in CRs
      PROVE  SecretPids(c) = {} /\ Pids(c) = {0}
  <2>1. SecretPids(c) = {}
    BY <1>1, <1>2 DEF SecretPids
  <2>2. Pids(c) = {0}
    BY <1>1, <1>3 DEF Pids, App
  <2>. QED  BY <2>1, <2>2
<1>6. \A c \in CRs : SecretKnown(c) /\ KnownApart(c)
  BY <1>5 DEF SecretKnown, KnownApart, Known
<1>7. \A c \in CRs : Carries(c)
  BY <1>1, <1>3 DEF Carries, At, AfterProvider, AfterApplication
<1>. QED  BY <1>4, <1>d, <1>6, <1>7 DEF KeyedInv

LEMMA KeyedStep ==
  ASSUME SeparateByKind, TypeOK, SecretsOwned, ProviderInv, NameInv, VersionInv, KeyedInv,
         [Next]_vars
  PROVE  KeyedInv'
BY StepKeysAgree, StepConstantOwned, StepSecretKnown, StepKnownApart, StepCarries DEF KeyedInv

LEMMA SecretsKeyed ==
  ASSUME SeparateByKind
  PROVE  Spec => []KeyedInv
<1>1. TypeOK /\ SecretsOwned /\ ProviderInv /\ NameInv /\ VersionInv /\ KeyedInv /\ [Next]_vars
        => KeyedInv'
  BY KeyedStep
<1>. QED  BY <1>1, InitKeyed, TypeCorrect, OwnedInvariant, ProviderKeys, NamesAreKnown,
          VersionsKnown, PTL DEF Spec

-----------------------------------------------------------------------------
(* While it is looked after *)

\* What others do to a secret that is looked after for c is seen to as well.
LEMMA StillLookedAfter ==
  ASSUME TypeOK, [Next]_vars, NEW c \in CRs, NEW o, NEW pid, NEW n \in SecretNames,
         KeysAgree(n), ~Writes(c, n), Exists(cr[c]), o.uid = cr[c].uid,
         c \in queue => c \in queue', spent.drifts > 0 => spent'.drifts > 0,
         LookedAfter(c, o, pid, secrets[n], secretCache[n], c \in queue, spent.drifts)
  PROVE  LookedAfter(c, o, pid, secrets'[n], secretCache'[n], c \in queue', spent'.drifts)
<1>0. NoSecret.key = "" /\ NoSecret.uid = 0 /\ "" \notin CRs
  BY ConstantsAssumption DEF NoSecret
<1>. USE DEF LookedAfter
<1>1. CASE secrets'[n] = secrets[n] /\ secretCache'[n] = secretCache[n]
  BY <1>1
<1>2. CASE Delivers(n)
  <2>1. CASE secretCache[n].key = c
    BY <1>2, <2>1 DEF Delivers
  <2>2. CASE secrets[n].key = c
    BY <1>0, <1>2, <2>2 DEF Delivers, KeysAgree, Exists
  <2>. QED  BY <1>2, <2>1, <2>2 DEF Delivers
<1>3. CASE Removes(n)
  <2>1. CASE secretCache[n].key = c
    BY <1>0, <1>3, <2>1 DEF Removes
  <2>2. CASE secrets[n].key = c
    BY <1>0, <1>3, <2>2 DEF Removes, KeysAgree, Exists
  <2>. QED  BY <1>0, <1>3, <2>1, <2>2 DEF Removes
<1>4. ASSUME NEW d \in CRs, d # c, Writes(d, n)
      PROVE  LookedAfter(c, o, pid, secrets'[n], secretCache'[n], c \in queue', spent'.drifts)
  BY <1>0, <1>4 DEF Writes, MayWriteSecret
<1>. QED  BY <1>1, <1>2, <1>3, <1>4, SecretSteps

\* What a step does to the queue and to the reconcile of c, unless it is one of c's own.
LEMMA QueueSteps ==
  ASSUME TypeOK, [Next]_vars, NEW c \in CRs, ~Calls(c), ~Begins(c)
  PROVE  \/ c \in queue'
         \/ Restart /\ ~Exists(cr[c]) /\ cr'[c] = cr[c] /\ work'[c] = Idle
         \/ c \notin queue /\ cache'[c] = cache[c] /\ work'[c] = work[c]
<1>0. cache \in [CRs -> CR] /\ work \in [CRs -> Work] /\ queue \subseteq CRs
  BY DEF TypeOK
<1>1. ASSUME NEW d \in CRs, Calls(d)
      PROVE  UNCHANGED queue /\ cache'[c] = cache[c] /\ work'[c] = work[c]
  <2>1. UNCHANGED queue
    <3>1. Syncs(d) \/ Deletes(d) => UNCHANGED queue
      BY SyncsMove, DeletesMove DEF Moves
    <3>. QED  BY <1>1, <3>1 DEF Calls, Syncs, Deletes, AddFinalizer, PublishStatus, ReportFailure,
              RemoveFinalizer, Return, ReturnRequeue
  <2>. QED  BY <1>1, <2>1, CallsOthers
<1>2. ASSUME NEW d \in CRs, Begins(d)
      PROVE  queue' = queue \ {d} /\ cache'[c] = cache[c] /\ work'[c] = work[c] /\ c # d
  BY <1>2, BeginsWork DEF Begins, Ignore, BeginDeletion, BeginFinalizer, RejectTemplate,
     BeginSync, Dequeue
<1>3. ASSUME Manager, ~Restart
      PROVE  /\ queue \subseteq queue' /\ work'[c] = work[c]
             /\ cache'[c] = cache[c] \/ c \in queue'
  BY <1>0, <1>3 DEF Manager, WatchCR, TimerFires, WatchSecret, kubernetes
<1>4. Restart => c \in queue' \/ (~Exists(cr[c]) /\ cr'[c] = cr[c] /\ work'[c] = Idle)
  BY DEF Restart
<1>5. Environment \/ UNCHANGED vars => UNCHANGED <<queue, cache, work>>
  BY DEF Environment, CreateCR, EditCR, DeleteCR, CollectSecret, Drift, DriftSecret, DriftApp,
     DriftProvider, vars, kubernetes
<1>. QED  BY <1>1, <1>2, <1>3, <1>4, <1>5, NextCases

LEMMA SpentGrows ==
  ASSUME TypeOK, [Next]_vars
  PROVE  /\ spent'.faults = 0 => spent.faults = 0
         /\ spent.drifts > 0 => spent'.drifts > 0
<1>0. spent \in [edits : Nat, faults : Nat, drifts : Nat, crashes : Nat]
  BY DEF TypeOK
<1>1. ASSUME NEW c \in CRs, Calls(c)
      PROVE  NoFault \/ Fault
  BY <1>1 DEF Calls, FailsUnless, AddFinalizer, FindProvider, CreateProvider, UpdateProvider,
     FindApp, CreateApp, UpdateApp, WriteApp, DeleteStaleSecret, GetURLs, WriteSecret,
     PublishStatus, ReportFailure, FindAppToDelete, DeleteApp, FindProviderToDelete,
     DeleteProvider, RemoveFinalizer
<1>2. NoFault \/ Fault => /\ spent'.faults = 0 => spent.faults = 0
                          /\ spent'.drifts = spent.drifts
  BY <1>0 DEF NoFault, Fault
<1>3. (\E c \in CRs : Begins(c)) \/ UNCHANGED vars => UNCHANGED spent
  BY DEF Begins, Ignore, BeginDeletion, BeginFinalizer, RejectTemplate, BeginSync, Dequeue, vars
<1>4. Manager => spent'.faults = spent.faults /\ spent'.drifts = spent.drifts
  BY <1>0 DEF Manager, WatchCR, TimerFires, WatchSecret, Restart
<1>5. Environment => spent'.faults = spent.faults /\ (spent.drifts > 0 => spent'.drifts > 0)
  <2>1. Environment =>
          \/ spent' = spent \/ spent' = [spent EXCEPT !.edits = @ + 1]
          \/ spent' = [spent EXCEPT !.drifts = @ + 1]
    BY DEF Environment, CreateCR, EditCR, DeleteCR, CollectSecret, Drift, DriftSecret, DriftApp,
       DriftProvider
  <2>. QED  BY <1>0, <2>1
<1>. QED  BY <1>1, <1>2, <1>3, <1>4, <1>5, NextCases

LEMMA OthersSecretServed ==
  ASSUME TypeOK, IndInv, VersionInv, KeyedInv, [Next]_vars, NEW c \in CRs, ~Calls(c),
         SecretServed(c)
  PROVE  SecretServed(c)'
<1>0. Idle.pc = "idle" /\ NoCR.status.reason # "Succeeded"
  BY NoCRStatus DEF Idle
<1>f. ASSUME At(c, "publish") \/ At(c, "idle"), NEW o, NEW pid, o.spec.secret \in SecretNames,
             Exists(cr[c]), o.uid = cr[c].uid, c \notin queue, SecretInPlace(c, o, pid)
      PROVE  LookedAfter(c, o, pid, secrets'[o.spec.secret], secretCache'[o.spec.secret],
                         c \in queue', spent'.drifts)
  <2>1. ~Writes(c, o.spec.secret) /\ KeysAgree(o.spec.secret)
    BY <1>f DEF Writes, At, KeyedInv
  <2>. QED  BY <1>f, <2>1, StillLookedAfter, SpentGrows DEF SecretInPlace
<1>1. CASE Begins(c)
  <2>1. CASE work'[c].pc \in {"findAppToDelete", "addFinalizer", "report", "findProvider"}
    BY <2>1 DEF SecretServed, At
  <2>2. CASE Ignore(c)
    <3>1. At(c, "idle") /\ UNCHANGED <<cr, cache, work>>
      BY <2>2 DEF Ignore, Dequeue, kubernetes
    <3>2. ~Exists(cache[c]) \/ cache[c].del
      BY <2>2 DEF Ignore
    <3>. QED  BY <3>1, <3>2 DEF SecretServed, At, Ready, Exists
  <2>3. ~Ignore(c) =>
          work'[c].pc \in {"findAppToDelete", "addFinalizer", "report", "findProvider"}
    <3>1. ASSUME NEW step, NEW why, Begin(c, step, why)
          PROVE  work'[c].pc = step
      BY <3>1 DEF Begin, TypeOK
    <3>. QED  BY <1>1, <3>1 DEF Begins, BeginDeletion, BeginFinalizer, RejectTemplate, BeginSync
  <2>. QED  BY <2>1, <2>2, <2>3
<1>2. CASE c \in queue'
  BY <1>2 DEF SecretServed, SecretInPlace, LookedAfter
<1>3. CASE ~Exists(cr'[c]) /\ work'[c] = Idle
  BY <1>0, <1>3 DEF SecretServed, At, Ready
<1>4. CASE c \notin queue /\ ~Begins(c) /\ cache'[c] = cache[c] /\ work'[c] = work[c]
  <2>1. ASSUME At(c, "publish"), OwnData(c, App(c))
        PROVE  SecretInPlace(c, App(c), work[c].pid)'
    <3>1. Exists(cr[c]) /\ App(c).uid = cr[c].uid /\ App(c).spec.secret \in SecretNames
      <4>1. App(c).uid \in Nat \ {0} /\ App(c).spec \in CRSpec
        BY <2>1, InProgress DEF At
      <4>2. cr[c].uid = App(c).uid
        BY <2>1 DEF IndInv, KeyInv, Guarded, At, Syncing
      <4>. QED  BY <4>1, <4>2 DEF Exists, CRSpec
    <3>2. SecretInPlace(c, App(c), work[c].pid)
      BY <2>1 DEF SecretServed
    <3>3. LookedAfter(c, App(c), work[c].pid, secrets'[App(c).spec.secret],
                      secretCache'[App(c).spec.secret], c \in queue', spent'.drifts)
      BY <1>f, <1>4, <2>1, <3>1, <3>2
    <3>4. App(c)' = App(c)
      BY <1>4 DEF App
    <3>. QED  BY <1>4, <3>3, <3>4 DEF SecretInPlace
  <2>2. ASSUME Ready(c)', At(c, "idle")', cache'[c] = cr'[c], OwnData(c, cr[c])'
        PROVE  SecretInPlace(c, cr[c], cr[c].status.pid)'
    <3>1. cr'[c] = cr[c] /\ Ready(c)
      <4>1. ASSUME NEW d \in CRs \ {c}, Calls(d)
            PROVE  cr'[c] = cr[c]
        BY <4>1, CallsOthers
      <4>2. cr'[c] = cr[c] => Ready(c)
        BY <2>2 DEF Ready, Exists
      <4>. QED  BY <2>2, <4>1, <4>2, OthersReady, NextCases
    <3>2. cache[c] = cr[c] /\ At(c, "idle")
      BY <1>4, <2>2, <3>1 DEF At
    <3>3. Exists(cr[c]) /\ cr[c].spec.secret \in SecretNames
      <4>1. cr[c] \in Object
        BY <3>1, Present DEF Ready, TypeOK
      <4>. QED  BY <3>1, <4>1 DEF Ready, Object, CRSpec
    <3>4. SecretInPlace(c, cr[c], cr[c].status.pid)
      BY <2>2, <3>1, <3>2 DEF SecretServed, OwnData
    <3>5. LookedAfter(c, cr[c], cr[c].status.pid, secrets'[cr[c].spec.secret],
                      secretCache'[cr[c].spec.secret], c \in queue', spent'.drifts)
      BY <1>f, <1>4, <3>2, <3>3, <3>4
    <3>. QED  BY <3>1, <3>5 DEF SecretInPlace
  <2>3. At(c, "publish")' => At(c, "publish") /\ App(c)' = App(c)
    BY <1>4 DEF At, App
  <2>4. At(c, "publish")' /\ OwnData(c, App(c))' => OwnData(c, App(c))
    BY <2>3 DEF OwnData
  <2>. QED  BY <2>1, <2>2, <2>3, <2>4 DEF SecretServed
<1>. QED  BY <1>1, <1>2, <1>3, <1>4, QueueSteps DEF Exists

\* reconcileSecret ends with the secret in place, or with a watch that will tell: data
\* that is found right is the resource's own, for it names its provider, or is constant
\* and no other resource would write it.
LEMMA SecretReached ==
  ASSUME TypeOK, KeyedInv, NEW c \in CRs, Calls(c), At(c, "publish")', OwnData(c, App(c))'
  PROVE  SecretInPlace(c, App(c), work[c].pid)'
<1>1. work[c].pc \in AfterProvider /\ MovesOn(c)
  BY CallsPassApplication DEF At, AfterApplication
<1>2. ~At(c, "idle")
  BY <1>1 DEF At, AfterProvider, AfterApplication
<1>. USE GotoMovesOn, FailMovesOn
<1>3. WriteSecret(c)
  <2>1. FindApp(c) => work'[c].pc \in {"updateApp", "createApp", "report"}
    BY <1>2 DEF FindApp
  <2>2. CreateApp(c) \/ UpdateApp(c) => work'[c].pc \in {"deleteStaleSecret", "getURLs", "report"}
    BY <1>2 DEF CreateApp, UpdateApp, WriteApp, AfterApp
  <2>3. DeleteStaleSecret(c) \/ GetURLs(c) => work'[c].pc \in {"getURLs", "writeSecret", "report"}
    BY <1>2 DEF DeleteStaleSecret, GetURLs
  <2>4. PublishStatus(c) => work'[c].pc = "idle"
    BY ReturnIdles, NoCRFields DEF PublishStatus
  <2>. QED
    BY <1>1, <2>1, <2>2, <2>3, <2>4 DEF At, AfterProvider, AfterApplication, Calls, AddFinalizer,
       FindProvider, CreateProvider, UpdateProvider, ReportFailure, FindAppToDelete, DeleteApp,
       FindProviderToDelete, DeleteProvider, RemoveFinalizer
<1>4. PICK n \in SecretNames : n = App(c).spec.secret
  BY <1>2, InProgress DEF CRSpec
<1>5. ASSUME UNCHANGED secrets, Exists(secretCache[n]), secretCache[n].data = RenderedData(c)
      PROVE  LookedAfter(c, App(c), work[c].pid, secrets'[n], secretCache'[n], c \in queue',
                         spent'.drifts)
  <2>1. secretCache[n].key = c
    <3>1. secretCache[n].key \in CRs
      <4>1. secretCache[n].key \in CRs \cup {""}
        BY DEF TypeOK, Secret
      <4>. QED  BY <1>5, <4>1 DEF KeyedInv, KeysAgree
    <3>2. CASE App(c).spec.template = "constant"
      <4>1. \A d \in CRs \ {c} : \A spec \in Specs[d] :
              spec.secret = n => spec.template # "constant"
        BY <1>1, <1>4, <3>2 DEF OwnData, MovesOn, App
      <4>2. secretCache[n].data[2] = "constant"
        BY <1>5, <3>2 DEF RenderedData, Data
      <4>. QED  BY <4>1, <4>2 DEF KeyedInv, ConstantOwned
    <3>3. CASE App(c).spec.template # "constant"
      <4>1. work[c].pid \in SecretPids(secretCache[n].key) /\ work[c].pid # 0
        BY <1>1, <1>2, <1>5, <3>3, InProgress DEF SecretPids, RenderedData, Data, KeyedInv, Carries
      <4>. QED  BY <3>1, <4>1, KnownTypes DEF KeyedInv, KnownApart, Known
    <3>. QED  BY <3>2, <3>3
  <2>2. secretCache' = secretCache
    BY <1>3 DEF WriteSecret
  <2>. QED  BY <1>5, <2>1, <2>2 DEF LookedAfter, RenderedData
<1>6. ASSUME secrets' = [secrets EXCEPT ![n] =
               [key |-> c, uid |-> App(c).uid, data |-> RenderedData(c),
                labels |-> secrets[n].labels \cup {App(c).spec.labels}]]
      PROVE  LookedAfter(c, App(c), work[c].pid, secrets'[n], secretCache'[n], c \in queue',
                         spent'.drifts)
  BY <1>6 DEF LookedAfter, RenderedData, TypeOK
<1>7. ~Fail(c, "SecretError")
  BY <1>2 DEF At
<1>8. LookedAfter(c, App(c), work[c].pid, secrets'[n], secretCache'[n], c \in queue',
                  spent'.drifts)
  BY <1>3, <1>4, <1>5, <1>6, <1>7 DEF WriteSecret
<1>. QED  BY <1>1, <1>4, <1>8 DEF SecretInPlace, MovesOn, App

\* A reconcile that leaves a Ready resource without queueing it has published.
LEMMA SecretEnds ==
  ASSUME TypeOK, IndInv, VersionInv, KeyedInv, NEW c \in CRs, SecretServed(c), Calls(c),
         spent.faults = 0, spent'.faults = 0, Ready(c)', At(c, "idle")', cache'[c] = cr'[c],
         OwnData(c, cr[c])'
  PROVE  SecretInPlace(c, cr[c], cr[c].status.pid)'
<1>0. UNCHANGED queue /\ UNCHANGED cache
  <2>1. Syncs(c) \/ Deletes(c) => UNCHANGED queue
    BY SyncsMove, DeletesMove DEF Moves
  <2>. QED  BY <2>1, CallsOthers DEF Calls, Syncs, Deletes, AddFinalizer, PublishStatus,
            ReportFailure, RemoveFinalizer, Return, ReturnRequeue
<1>1. ~Fault
  BY DEF Fault, TypeOK
<1>2. ASSUME At(c, "publish"), cr'[c].spec = App(c).spec, cr'[c].uid = App(c).uid,
             cr'[c].status.pid = work[c].pid
      PROVE  SecretInPlace(c, cr[c], cr[c].status.pid)'
  <2>1. SecretInPlace(c, App(c), work[c].pid)
    BY <1>2 DEF SecretServed, OwnData
  <2>2. PublishStatus(c)
    BY <1>2 DEF At, Calls, AddFinalizer, FindProvider, CreateProvider, UpdateProvider, FindApp,
       CreateApp, UpdateApp, DeleteStaleSecret, GetURLs, WriteSecret, ReportFailure,
       FindAppToDelete, DeleteApp, FindProviderToDelete, DeleteProvider, RemoveFinalizer
  <2>3. UNCHANGED <<secrets, secretCache, spent>>
    BY <1>1, <2>2 DEF PublishStatus, FailsUnless, NoFault
  <2>. QED  BY <1>0, <1>2, <2>1, <2>3 DEF SecretInPlace, LookedAfter
<1>3. ASSUME cr'[c] = cr[c], Ready(c)
      PROVE  SecretInPlace(c, cr[c], cr[c].status.pid)'
  <2>1. ~At(c, "idle")
    BY CallsBusy
  <2>2. CASE c \in queue
    BY <1>0, <2>2 DEF SecretInPlace, LookedAfter
  <2>3. ASSUME c \notin queue
        PROVE  SecretInPlace(c, cr[c], cr[c].status.pid)'
    <3>1. App(c) = cr[c] /\ Current(c)
      BY <1>0, <1>3, <2>1, <2>3 DEF IndInv, KeyInv, DirtyIsQueued, Current
    <3>2. ~AddFinalizer(c)
      BY <1>3, <3>1 DEF AddFinalizer, KeyedInv, Carries, VersionInv, Versions, HonestlyReported,
         Ready
    <3>3. ~Deletes(c) /\ ~RemoveFinalizer(c)
      BY <1>3, ReadyCopy DEF Deletes, FindAppToDelete, DeleteApp, FindProviderToDelete,
         DeleteProvider, RemoveFinalizer, At, Deleting
    <3>4. ~ReportFailure(c)
      <4>1. ReportFailure(c) => cr'[c].status.reason = work[c].why /\ At(c, "report")
        <5>1. cr[c] \in Object /\ cr \in [CRs -> CR]
          BY <1>3, Present DEF Ready, TypeOK
        <5>2. ReportFailure(c) => cr'[c] = [cr[c] EXCEPT !.status.reason = work[c].why]
          BY <1>1, <3>1, <5>1 DEF ReportFailure, FailsUnless
        <5>. QED  BY <5>1, <5>2 DEF ReportFailure, Object, Status
      <4>. QED  BY <1>3, <4>1 DEF VersionInv, Versions, HonestlyReported, Ready
    <3>5. ~Syncs(c)
      <4>1. Syncs(c) => \/ \E step \in Syncing : \E pid : Goto(c, step) \/ GotoWith(c, step, pid)
                        \/ \E why : Fail(c, why)
        BY DEF Syncs, FindProvider, CreateProvider, UpdateProvider, FindApp, CreateApp, UpdateApp,
           WriteApp, AfterApp, DeleteStaleSecret, GetURLs, WriteSecret, Syncing
      <4>2. "idle" \notin Syncing \cup {"report"}
        BY DEF Syncing
      <4>. QED  BY <2>1, <4>1, <4>2, GotoMovesOn, GotoWithMovesOn, FailMovesOn DEF At
    <3>6. PublishStatus(c)
      BY <3>2, <3>3, <3>4, <3>5 DEF Calls, Syncs, Deletes
    <3>7. cr'[c].status.pid = work[c].pid /\ At(c, "publish")
      <4>1. cr[c] \in Object /\ cr \in [CRs -> CR]
        BY <1>3, Present DEF Ready, TypeOK
      <4>. QED  BY <1>1, <3>1, <3>6, <4>1 DEF PublishStatus, FailsUnless, Object
    <3>. QED  BY <1>2, <1>3, <3>1, <3>7
  <2>. QED  BY <2>2, <2>3
<1>. QED  BY <1>2, <1>3, CallsReady

LEMMA SecretsStep ==
  ASSUME TypeOK, IndInv, VersionInv, KeyedInv, SecretsServed, [Next]_vars
  PROVE  SecretsServed'
<1> SUFFICES ASSUME spent'.faults = 0, NEW c \in CRs
             PROVE  SecretServed(c)'
  BY DEF SecretsServed
<1>1. spent.faults = 0 /\ SecretServed(c)
  BY SpentGrows DEF SecretsServed
<1>. QED  BY <1>1, SecretReached, SecretEnds, OthersSecretServed DEF SecretServed

LEMMA InitSecretsServed == Init => SecretsServed
<1> SUFFICES ASSUME Init, NEW c \in CRs
             PROVE  SecretServed(c)
  BY DEF SecretsServed
<1>1. cr[c] = NoCR /\ work[c] = Idle
  BY DEF Init
<1>. QED  BY <1>1, NoCRStatus, NoCRFields DEF SecretServed, At, Ready, Exists

\* While no call fails, a Ready resource whose secret is not what its spec asks for is
\* reconciled before the drift check is due: for every number of resources of both kinds,
\* as long as those of one kind do not share a slug and no two resources render the same
\* constant data into one secret (OwnData), although resources share secrets, caches lag,
\* reconcileSecretObject returns early on what the cache shows, whoever owns it, and
\* stale secrets are deleted by name.
THEOREM ReadySecretSeenTo ==
  ASSUME SeparateByKind
  PROVE  Spec => []SecretSeenTo
<1>1. Init => SecretsServed
  BY InitSecretsServed
<1>2. TypeOK /\ IndInv /\ VersionInv /\ KeyedInv /\ SecretsServed /\ [Next]_vars
        => SecretsServed'
  BY SecretsStep
<1>3. SecretsServed => SecretSeenTo
  BY DEF SecretsServed, SecretServed, SecretInPlace, LookedAfter, SecretSeenTo, SecretSynced
<1>4. Spec => []KeyedInv
  BY SecretsKeyed
<1>. QED  BY <1>1, <1>2, <1>3, <1>4, TypeCorrect, Inductive, VersionsKnown, PTL DEF Spec

=============================================================================
