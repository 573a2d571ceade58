------------------------ MODULE ReconcilerProperties ------------------------
(* What the reconcile loop of Reconciler promises. *)
EXTENDS Reconciler

-----------------------------------------------------------------------------
(* Safety *)

Guarded(c) ==
  work[c].pc \in Syncing => cr[c].fin /\ cr[c].uid = App(c).uid

\* Reconcile creates or updates something in Authentik, or the secret, only for
\* a resource that still exists and still carries the finalizer, however old the
\* copy it works on: the guard Reconcile derives from the finalizer step and the
\* deletion branch, across a stale cache, a re-created resource and a restart.
WritesGuarded == \A c \in CRs : Guarded(c)

Remembered(c) ==
  Exists(cr[c]) =>
    \/ cache[c] # cr[c] \/ c \in queue \/ c \in timers \/ ~At(c, "idle")
    \/ cr[c].spec.template = "malformed" /\ cr[c].fin /\ ~cr[c].del

\* A resource in the cluster always has something pending that will reconcile
\* it: no return of Reconcile, with or without requeue, and no conflict forgets
\* it.  Only a malformed template waits, for the user's next edit.
NeverForgotten == \A c \in CRs : Remembered(c)

\* The parts that make WritesGuarded and NeverForgotten inductive.
\* Uids are allocated once, and a deleted object stays as long as its finalizer.
UidsAllocated(c) ==
  /\ cr[c].uid < nextUid /\ cache[c].uid < nextUid /\ App(c).uid < nextUid
  /\ cr[c].del => cr[c].fin

\* What the cache still shows of the finalizer, the deletion and the generation.
CacheLags(c) ==
  /\ cr[c].fin => cache[c].uid = cr[c].uid
  /\ cache[c].fin /\ ~cache[c].del => cr[c].fin /\ cr[c].uid = cache[c].uid
  /\ cache[c].uid = cr[c].uid =>
       (cache[c].del => cr[c].del) /\ cache[c].gen <= cr[c].gen
  /\ ~At(c, "idle") /\ App(c).uid = cr[c].uid => cache[c].uid = cr[c].uid

\* What a reconcile in progress may rely on.
CopyIsUsable(c) ==
  /\ At(c, "addFinalizer") => ~App(c).del
  /\ At(c, "report") /\ work[c].why = "TemplateError" =>
       App(c).fin /\ ~App(c).del /\ App(c).spec.template = "malformed"
  /\ work[c].pc \in Deleting =>
       /\ App(c).del /\ App(c).fin
       /\ cr[c].fin => cr[c].del
       /\ cache[c].fin => cache[c].del

\* A change of the resource during its reconcile marks the key dirty.
DirtyIsQueued(c) == ~At(c, "idle") => cache[c] = App(c) \/ c \in queue

\* The invariant that proves WritesGuarded and NeverForgotten: each part needs
\* the others in some step.
KeyInv(c) ==
  UidsAllocated(c) /\ CacheLags(c) /\ CopyIsUsable(c) /\ Guarded(c)
    /\ DirtyIsQueued(c) /\ Remembered(c)

IndInv == \A c \in CRs : KeyInv(c)

\* No application of the operator's stays in Authentik without a resource that
\* will delete it ("Proper Cleanup", README.md:14).
NoOrphanApplications ==
  \A s \in Slugs : Exists(applications[s]) =>
    \E c \in CRs : cr[c].fin /\ cr[c].uid = applications[s].uid

\* The same of providers.
NoOrphanProviders ==
  \A p \in providers : \E c \in CRs : cr[c].fin /\ cr[c].uid = p.uid

\* When a resource goes, the provider its status names is gone already, although
\* handleDeletion looks at a copy of the status.
RecordedProviderDeleted ==
  [][\A c \in CRs : cr[c].fin /\ cr'[c].uid # cr[c].uid =>
       \A p \in providers : p.id # cr[c].status.pid]_vars

\* What proves NoOrphanApplications for resources whose slug is never edited:
FixedSlugs == \A c \in CRs : \A a, b \in Specs[c] : a.slug = b.slug

Copies(c) == {cr[c], cache[c], App(c)}

\* Uids tell the keys apart, in whatever copy they are met.
UidsApart(c) ==
  \A o \in Copies(c) : Exists(o) =>
    /\ o.uid < nextUid /\ o.spec \in Specs[c]
    /\ \A d \in CRs \ {c} : \A q \in Copies(d) : q.uid # o.uid

\* An application has the slug of the resource its uid names,
Owned(s) ==
  Exists(applications[s]) =>
    \E c \in CRs : cr[c].fin /\ cr[c].uid = applications[s].uid /\ cr[c].spec.slug = s

\* and is gone when handleDeletion gets to the provider.
AppDeletedFirst(c) ==
  work[c].pc \in {"findProviderToDelete", "deleteProvider", "removeFinalizer"} =>
    applications[App(c).spec.slug].uid # App(c).uid

CleanupInv ==
  (\A c \in CRs : UidsApart(c) /\ AppDeletedFirst(c)) /\ (\A s \in Slugs : Owned(s))

\* What proves RecordedProviderDeleted: primary keys are used once, every one a
\* resource or its reconcile knows is of the right kind, and the one in the copy
\* is gone before the finalizer goes.
Pids(c) == {cr[c].status.pid, cache[c].status.pid, App(c).status.pid, work[c].pid}

KeysSpent ==
  \A p \in providers : p.id # 0 /\ p.id < nextPid
    /\ \A q \in providers : p.id = q.id => p.kind = q.kind

ProviderKnown(c) ==
  /\ \A id \in Pids(c) : id < nextPid
  /\ \A p \in providers : p.id \in Pids(c) => OwnKind(c, p)
  /\ At(c, "removeFinalizer") => \A p \in providers : p.id # App(c).status.pid

ProviderInv == KeysSpent /\ \A c \in CRs : ProviderKnown(c)

Ready(c) ==
  /\ cr[c].status.reason = "Succeeded" /\ cr[c].status.gen = cr[c].gen
  /\ Exists(cr[c]) /\ ~cr[c].del

\* Provider, application and secret are what version gen of the resource asks for.
ProviderSynced(c) ==
  \E p \in providers :
    /\ p.id = cr[c].status.pid /\ OwnKind(c, p) /\ p.slug = cr[c].spec.slug
    /\ p.uid = cr[c].uid /\ p.gen = cr[c].gen

ApplicationSynced(c) ==
  applications[cr[c].spec.slug] =
    [provider |-> cr[c].status.pid, uid |-> cr[c].uid, gen |-> cr[c].gen]

SecretSynced(c) ==
  secrets[cr[c].spec.secret].data = Data(cr[c].spec.template, cr[c].status.pid)

\* As long as no administrator has deleted something, Ready with a current
\* observedGeneration is no promise about an older spec, or about a provider or
\* application that was replaced meanwhile: step 8 of the reconciliation loop
\* (docs/ARCHITECTURE.md:33) speaks of steps 5 and 6.
ReadyMeansSynced ==
  spent.drifts = 0 => \A c \in CRs : Ready(c) => ProviderSynced(c) /\ ApplicationSynced(c)

\* The provider, and the application, that bear the slug of version o of resource c are
\* that version's; the application is attached to nothing or to the provider.
ProviderCurrent(c, o) ==
  \A p \in providers : OwnKind(c, p) /\ p.slug = o.spec.slug => p.uid = o.uid /\ p.gen = o.gen

ApplicationCurrent(c, o) ==
  LET app == applications[o.spec.slug] IN
  Exists(app) =>
    /\ app.uid = o.uid /\ app.gen = o.gen
    /\ app.provider # 0 =>
         \E p \in providers : p.id = app.provider /\ OwnKind(c, p) /\ p.slug = o.spec.slug

\* Whatever administrators delete, and however far the reconcile that mends it has
\* come: of a Ready resource something may be missing in Authentik, but nothing there
\* is of another generation or attached to a provider of another name.
ReadyNeverOutdated ==
  \A c \in CRs : Ready(c) => ProviderCurrent(c, cr[c]) /\ ApplicationCurrent(c, cr[c])

\* "creates or updates a Kubernetes secret with the given data, labels,
\* annotations, and owner reference" (shared.go:53): the secret of a Ready
\* resource, when its data is right, has the labels of the spec and is owned by
\* that very resource.
ReadySecretAsGiven ==
  \A c \in CRs : Ready(c) /\ SecretSynced(c) =>
    /\ cr[c].spec.labels \in secrets[cr[c].spec.secret].labels
    /\ secrets[cr[c].spec.secret].uid = cr[c].uid

\* No other resource may give the secret that version o of resource c names data that
\* cannot be told from its own: both templates would have to be constant.
OwnData(c, o) ==
  o.spec.template = "constant" =>
    \A d \in CRs \ {c} : \A spec \in Specs[d] :
      spec.secret = o.spec.secret => spec.template # "constant"

\* What is right about the secret at once: that of a Ready resource is as the spec asks,
\* or a reconcile of the resource is there or comes without waiting for the drift
\* check, because of the resource or because the watch of its secrets ("Owns", oauth2
\* controller:376) has still to deliver a change.  The early return of
\* reconcileSecretObject and the writes of other resources that name the secret never
\* leave a Ready resource with the wrong credentials unnoticed.  Faults are left out,
\* since a reconcile that fails twice waits for its retry; so is a secret that an
\* administrator deleted, perhaps before the cache had seen it; and so are two resources
\* with constant templates and one secret: the early return (shared.go:61) does not ask
\* who owns the secret it finds right, which is collected with its owner and missed by
\* the other resource until its drift check.
SecretSeenTo ==
  spent.faults = 0 => \A c \in CRs : Ready(c) /\ OwnData(c, cr[c]) /\ ~SecretSynced(c) =>
    LET n == cr[c].spec.secret IN
    \/ cache[c] # cr[c] \/ c \in queue \/ ~At(c, "idle")
    \/ secretCache[n].key = c /\ secretCache[n] # secrets[n]
    \/ spent.drifts > 0 /\ secrets[n].key # c

\* Two kinds with one slug: the provider names collide in Authentik, the lookups
\* do not see each other's providers, and a Ready resource keeps its own as long as
\* no administrator deletes it.
ReadyProviderSynced == spent.drifts = 0 => \A c \in CRs : Ready(c) => ProviderSynced(c)

\* A secret never passes from one resource to another without being deleted.
SecretNotTakenOver ==
  [][\A n \in SecretNames : Exists(secrets[n]) =>
       secrets'[n].key \in {"", secrets[n].key}]_vars

\* Custody as the reconcile loop keeps it: a resource is in custody while it has the
\* finalizer, and an application is owned by the resource that wrote it last.
Held == [c \in CRs |-> IF cr[c].fin THEN cr[c].uid ELSE 0]
Leaving == {c \in CRs : cr[c].del}
Owner == [s \in Slugs |-> applications[s].uid]

Promised == INSTANCE Custody WITH
  Keys <- CRs, Uids <- 1 .. MaxUids, held <- Held, leaving <- Leaving, owner <- Owner

\* The detailed loop, with its stale copies, conflicts, faults and restarts, does
\* nothing that the abstract custody does not allow ("Finalizer Lifecycle",
\* docs/ARCHITECTURE.md:36), as long as no slug is edited.
KeepsCustody == Promised!Spec

-----------------------------------------------------------------------------
(* Liveness *)

\* Once faults, edits, drift and restarts are over, every resource whose template
\* renders and whose settings resolve is served for good: Ready, and all it asks
\* for is in place.
EventuallyServed ==
  \A c \in CRs :
    <>[](/\ Exists(cr[c]) /\ ~cr[c].del
         /\ cr[c].spec.template \in {"default", "custom", "constant"}
         /\ cr[c].spec.settings = "complete"
         => Ready(c) /\ ProviderSynced(c) /\ ApplicationSynced(c) /\ SecretSynced(c))

=============================================================================
