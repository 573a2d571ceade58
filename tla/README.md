# Verification of the Authentik Kubernetes operator

The operator keeps Authentik applications and providers, and the Kubernetes
secrets with their credentials, in line with two kinds of custom resource,
`AuthentikOAuth2Application` and `AuthentikSAMLApplication`. This directory has
TLA+ modules translated from its Go code, TLC configurations that check them on
small instances, and TLAPS proofs about each of the components modelled. Paths of the code
are relative to the repository's root.

| to do | command |
|---|---|
| check a run | `tlc -workers 2 -config lifecycle.cfg MCReconciler` |
| check a module's proofs | `tlapm ReadyProofs.tla`, and so for every `*Proofs` module |
| which run, mutant, theorem belongs to what | `PROJECT.json` |

## 1. The system

| part | source | state | operations | works with | correct when |
|---|---|---|---|---|---|
| OAuth2 and SAML controllers | `internal/controller/authentik_*_application_controller.go`, `shared.go` | none but the status of the resource, its finalizer and what is in Authentik; the informer caches it reads | `Reconcile`, `handleDeletion`, `reconcileProvider`, `reconcileApplication`, `reconcileSecret`, `deleteStaleSecret`, `setCondition` | API server, caches, workqueue, Authentik | nothing is written for a resource without the finalizer, nothing is forgotten, nothing is orphaned, Ready tells the truth, deletions and syncs end |
| error tracker | `internal/controller/backoff.go` | a count per key, behind a mutex | `recordError`, `recordSuccess`, `backoffDelay` | the controllers, concurrently | the delay it returns is the capped power of two of the key's recorded errors |
| event webhook receiver | `internal/webhook/receiver.go`, channel in `cmd/main.go` | one bounded channel | `ServeHTTP`, `enqueueOAuth2Apps`, `enqueueSAMLApps`, `trySend` | Authentik posts, both controllers receive | a change leads to a reconcile of what changed, no request hangs |
| event webhook registration | `internal/authentik/events.go`, `cmd/main.go` | mapping, transport, rule, policies, bindings in Authentik | `EnsureEventWebhookConfig`, `CleanupEventWebhookConfig` | every starting pod, the terminated leader, the Helm hook job | after a successful start every event is forwarded; cleanup removes it |
| API client | `internal/authentik/client.go`, `provider.go`, `saml_provider.go`, `application.go`, `ratelimit.go` | a rate limiter per client (one per reconcile); connections are shared (`http.DefaultTransport`, client.go:100) | `NewClient`, get/create/update/delete | the controllers | idempotent under retry, each client within the rate limit |
| manager | `cmd/main.go` | lease, switches | start, lead, stop | everything | restart loses nothing |
| readiness probe | `cmd/main.go` (`authentikReadyCheck`), `HealthCheck` | time of the last success | `/readyz` | the kubelet asks, Authentik answers | short outages are bridged, long ones and recoveries noticed |
| admission webhooks | `api/v1alpha1/*_webhook.go` | none | `ValidateCreate`, `ValidateUpdate` | the API server, before it stores a resource | a malformed template is refused, a deletion is not blocked for good |
| secret templates | `internal/template` | none | `ValidateTemplate`, render | the controllers | what passes validation renders |
| metrics, `retryTransport`, chart | `internal/*/metrics.go`, `internal/authentik/retry.go`, `charts`, `config` | counters; dead code; configuration | | | |

What is hard here: a reconcile is a dozen remote calls on a *cached copy* of its
resource; between any two of them users edit, delete and re-create it,
administrators and the garbage collector remove what it wrote, the resource of
another key writes the same slug or secret, a call fails with or without its
effect, or the process dies. Retries come from four places (watch, requeue,
rate-limited requeue, event channel). The registration is a second protocol of
almost twenty calls that several pods run against the same names without a lock. The
list of hazards, each at its line with the properties about it, is in
`PROJECT.json`.

## 2. The modules

| module | models | checked through |
|---|---|---|
| `Reconciler` | both controllers, API server, informer caches, workqueue, Authentik | `MCReconciler` |
| `ReconcilerProperties` | its properties and their inductive strengthenings | `MCReconciler` |
| `Custody` | abstract: what the operator promises about applications | refined by `Reconciler`, in `MCReconciler` and `CustodyProofs` |
| `Admission` | `Reconciler` behind the validating webhook | `MCAdmission` |
| `Readiness` | the probe: kubelet, handler, retrying client, time | `MCReadiness` |
| `EventWebhook` | receiver, channel, the two channel sources, polling underneath | `MCEventWebhook` |
| `Backoff` | error tracker over the life of resources | `MCBackoff` |
| `WebhookConfig` | registration and cleanup by several processes | `MCWebhookConfig` |
| `ReconcilerProofs` | types, guarded writes, nothing forgotten, no secret taken over | TLAPS |
| `CleanupProofs` | provider keys, order of deletion, no orphaned applications | TLAPS |
| `ReadyProofs` | Ready tells the truth, what drift leaves is current, the secret is seen to | TLAPS |
| `CustodyProofs` | `Reconciler` implements `Custody`; the admission webhook breaks none of this | TLAPS |
| `ReadinessProofs` | the times of the probe | TLAPS |
| `EventWebhookProofs` | every missed change is accounted for | TLAPS |
| `WebhookConfigProofs` | the registration, for any number of pods and jobs | TLAPS |
| `BackoffProofs` | the loop is a capped power, by induction; the delay returned is no less than stated for the recorded errors | TLAPS |

`EventWebhook` and `Backoff` treat a reconcile as one step; `Reconciler` has its
inside. `Admission` composes with `Reconciler` itself. Operators named *Mutant of
...* are plausible bugs: no specification uses them, and each property has one that
breaks it (`mutants` in `PROJECT.json`).

### Reconciler

`cr[c]` is the resource with key `c` in the API server, `cache[c]` what the
informer shows; `secrets`, `secretCache` likewise; `providers`, `applications`
are Authentik's. `queue` is the workqueue, `timers` every delayed add,
`work[c]` the running reconcile: its program counter, the copy it works on
(`app` in the code), the provider key, and the reason about to be reported. One
action is one call that leaves the process with the code up to the next one:

| code | actions |
|---|---|
| `Reconcile`: get, deletion branch, finalizer, template validation | `Ignore`, `BeginDeletion`, `BeginFinalizer`, `RejectTemplate`, `BeginSync`, `AddFinalizer` |
| `reconcileProvider` | `FindProvider`, `CreateProvider`, `UpdateProvider` |
| `reconcileApplication` | `FindApp`, `CreateApp`, `UpdateApp` |
| `reconcileSecret`, `deleteStaleSecret`, `reconcileSecretObject` | `DeleteStaleSecret`, `GetURLs`, `WriteSecret` |
| `setCondition` and the status update | `PublishStatus`, `ReportFailure` |
| `handleDeletion` | `FindAppToDelete`, `DeleteApp`, `FindProviderToDelete`, `DeleteProvider`, `RemoveFinalizer` |
| controller-runtime | `WatchCR`, `WatchSecret`, `TimerFires`, `FreeWorker` (two workers per kind), `Restart` |
| the world | `CreateCR`, `EditCR`, `DeleteCR`, `CollectSecret`, `DriftProvider`, `DriftApp`, `DriftSecret` |

A provider, application or secret is abstracted to what the properties tell
apart: the uid and generation of the resource its settings come from, and for a
secret the provider whose credentials and the template whose layout it has
(`Data`). Templates are five classes: default, custom (names the credentials),
constant (literals and URLs that are the same for everybody: the data are equal
whatever the provider and the resource), malformed (does not parse) and
unrenderable (parses, but fails later). A template that names only the slug or the
resource lies between custom and constant: its data tell resources apart, but not
the providers one resource has had. Settings are two: complete, and dangling,
of which no provider request can be built because an option is invalid or a flow,
mapping or key they name is not in Authentik (`Resolves`). `Fault` makes any call
fail, before or after its effect. The kinds differ where the code does: each lists the providers of
its own kind only (Authentik keeps the names unique over all kinds), and the SAML
`handleDeletion` returns its errors without a condition.

### Custody

Three variables: which resource is held (has the finalizer), which of those is
leaving (its deletion was asked for), and whom each application was last written
for. `Hold`, `Write`, `Withdraw`, `AskToLeave` and `LetGo` are all it can do; caches,
copies, conflicts, faults, retries and restarts do not occur. The mapping is in
`ReconcilerProperties`: `Held` is the uid behind the finalizer, `Leaving` the deletion
timestamp, `Owner` the uid an application was written for. `LetGo` is what makes
it a promise: only a resource that is leaving, and of which no application is left,
is let go. `KeepsCustody` says that every step of `Reconciler` is one of these or
none, and holds while no slug is edited.

### Admission

`enabled` is whether the `ValidatingWebhookConfiguration` is there; `Configure` is a
Helm upgrade that changes it. `Admitted` is a conjunct of every step of `Reconciler`:
a create, a change of the spec and *every change of the finalizer* must pass
`validateTemplate`; status updates and deletes are not sent to the webhook. When the
operator's own update is refused the step is `RefuseUpdate`: Reconcile returns the
error. `Refused` is a constant, since whether an unrenderable template already fails
with the dummy values of the validation depends on the template.

### Readiness

`check` is the handler's `HealthCheck`: how long it has run, how many retries of
go-retryablehttp it has begun, how long it still waits. `SendProbe`, `GiveUp` and
`Result` are the kubelet (period, its own timeout, the count of failures, the Ready
condition). `Healthy`, `Rejected`, `Retry` and `Expire` are the ways a request or the
check ends, by what Authentik is: up, refusing (or 5xx: retried), rejecting (4xx: not
retried), or hanging. Time is counted in seconds: `Tick` is held up by whatever is
due (`Due`); `Expired` is the handler's deadline. `Restart` resets what the process keeps in memory.

### EventWebhook

`handler[r]` walks through `ServeHTTP`: list OAuth2 resources, send each, list
SAML resources, send each, answer. `TrySend` is the `select` with a default.
`Receive(kind)` takes the head of the *one* channel for whichever controller is
first, and queues the name under that controller's kind. The buffer that
`source.Channel` puts between is folded into `Receive`. `missed` is a history
variable.

### Backoff

`recordError`, `recordSuccess` and `backoffDelay` as they are; resources come
and go, because a key outlives its resource in the map. The loop of
`backoffDelay` is a recursive function, compared with the capped power of two
(`Stated`, from the comment of `recordError`), itself the function `PowerOfTwo`.
`streak`, the errors recorded since the last success, is a history variable; a
`ReconcileFails` need not record anything, because several error returns do not
(section 3). The module ends where the delay is *returned*: every caller returns it
next to an error, controller-runtime then ignores it, and nobody waits for it.

### WebhookConfig

`proc[p]` is a pod or a cleanup job and what it works on; every API call is a
find (List by name) or a write (create, update, delete). `pk` has the keys of
the objects by name. `RegisteredIsComplete` follows whatever any process does to
them. `undone` (pods that ran when something was deleted) and `shared` (processes
that ran next to another one) are history variables. `Configuration` assumes that the
actions are distinct, as in the list of `events.go:21`, and that no policy has the name
of another object (`events.go:13`, 15, 159 and 232); of pods only that
there is one, and finitely many. Nothing is assumed about the number of actions but
that there is one.

## 3. The runs

Every bound is a CONSTANT of the module and appears in the guards, but for
`DriftBound` and `FaultOrDrift`, constraints of `lifecycle` and `live`. The longest
runs, `two_kinds` and `lifecycle`, end in less than two minutes with two workers.

| run | instance | shows |
|---|---|---|
| `lifecycle` | one SAML resource, created twice, 1 edit over three specs (secret name, a template with constant data, a malformed one), 1 fault, 1 restart, 1 deletion by an administrator | types, the inductive invariant, guarded writes, nothing forgotten, no orphaned application, Ready never speaks of an older spec, after a deletion by an administrator something of it may be missing but nothing is outdated, a wrong secret of a Ready resource is seen to, recorded provider deleted before the resource, and `Custody` implemented |
| `two_kinds` | an OAuth2 and a SAML resource with the same slug and the same secret, the OAuth2 one's template custom, the SAML one's constant | neither takes the other's provider or secret, and a Ready one without its credentials is reconciled; the inductive invariants of the cleanup |
| `live` | one OAuth2 resource behind the admission webhook, 1 edit over three specs (unrenderable template, dangling settings), 1 fault or 1 drift, the webhook switched at any time; fair | deletion completes unless the webhook blocks it; the resource is served for good; nothing is forgotten |
| `events` | a resource of each kind, 2 requests, a channel of 1, 3 changes, 1 List error; fair | what is out of sync when all is quiet was dropped, misdelivered or not listed; no request waits for a controller; polling repairs every drift |
| `backoff` | 2 keys, up to 6 errors, base 1, cap 10 | the loop is the capped power; the delay returned for a key is no less than its recorded errors since the last success ask for (nothing waits for it) |
| `register` | 2 pods, a job, 3 starts, 2 stops, 2 faults or kills, a rule that may answer 405 | a registration that succeeded stays complete until a cleanup deletes; of pods that only disturb each other one registers everything; leftovers never make a registration fail; after a cleanup without error nothing forwards |
| `probe` | the chart's values; kubelet timeouts of 1, 4 and 6 s; 1 restart; fair | a ready pod has a recent success; with a kubelet more patient than the handler an outage is tolerated for the grace period and two probes more; outage and recovery are noticed |

Why these bounds are enough to be of interest: one re-creation gives a stale
cache a uid to confuse; a fault, with or without its effect, combines with the
refusals the model has by itself (conflicts, names taken, references gone), so that
an error can hit the report of another error; a restart falls between any two
calls; an edit makes the copy a generation old, in every step of the reconcile; the
channel is smaller than what one request sends, so drops happen; six errors pass
the cap at the fifth; three starts let a pod start after another pod and a job; of
the kubelet's timeouts one ends in the first retry's wait, one between later retries,
one beyond the handler's deadline. `DriftBound` leaves out only combinations: an
administrator's deletion together with a restart or a second life, and in a second
life an edit together with a fault or a restart; `FaultOrDrift` only behaviours with
both (the count of either never falls, so no cycle is cut open). `live` has
neither restart nor re-creation: that a crash forgets nothing is in `lifecycle` and
proved. Two resources are checked without faults only, since their product with
faults is out of TLC's reach; the proofs have no such bound. The runs of
`MCReconciler`, `MCAdmission` and `MCWebhookConfig` switch deadlock checking off
because the bounded users and faults may be used up in a quiet state (a deleted
resource, pods that are off).

### Where code and documentation disagree

Five disagreements are runs whose one property TLC must find violated:

| run | what the code does |
|---|---|
| `orphan_provider` | `handleDeletion` deletes only the provider in the status, which is written last: a resource deleted earlier leaves its provider in Authentik |
| `secret_as_given` | the early return of `reconcileSecretObject` looks at the data only: new labels do not reach the secret, and a secret still owned by the deleted predecessor is accepted, and then collected |
| `events_instant` | the SAML controller may take an OAuth2 resource's event: the change waits for polling |
| `rollout` | the old leader's cleanup deletes what the new pod registered |
| `probe_grace` | the chart leaves `timeoutSeconds` of the probe at one second, the handler takes three to five at an outage: the kubelet counts failures before the grace period is looked at, and the pod is unready within it |

Others were met while modelling. The models do the same as the code, and no run
is about them:

- an edit of `spec.slug` leaves the old application (`handleDeletion` looks at the
  current slug only, oauth2 controller:219);
- a re-created resource adopts a provider left behind, with the old credentials,
  although README.md:306 promises fresh ones;
- the secret of an old name is looked up in the cache and by the last
  *published* name, so it can survive until the resource goes (shared.go:44);
- a template that parses but does not render is retried like a transient error,
  although docs/ARCHITECTURE.md:54 says invalid templates do not requeue;
- the event dropped at a full channel is of a resource nothing need be pending
  for, although receiver.go:130 says a reconciliation is;
- the delay of `recordError`, the "backoff duration" of backoff.go:20, has no effect: each
  caller returns it together with the error (oauth2 controller:149, 161, 172, 225, 237,
  247, and the same in SAML), and controller-runtime then takes its rate limiter's;
- not every failure is recorded: errors of the resource's own get and updates
  (oauth2 controller:98, 123, 188, 259, and the same in SAML) return without
  `recordError`, so its count is not the failures since the last success;
- two resources whose templates render the same constant data may name one secret: the
  early return of `reconcileSecretObject` (shared.go:61) does not ask who owns the
  secret, so the second resource becomes Ready on the first one's, which is collected
  with its owner; the second has no secret until its drift check. TLC finds
  this in `two_kinds` when both specs are given the constant template and
  `SecretSeenTo` does not exempt it (`OwnData`);
- the first delay of `backoffDelay` is not capped (backoff.go:38), and a
  re-created resource goes on from its predecessor's count;
- the cleanup leaves the headers mapping in Authentik;
- `ValidateUpdate` is asked about the update that removes the finalizer too: a resource
  whose template the webhook would refuse, because it is older than the webhook, cannot
  finish its deletion until the template is mended (`DeletionCompletesUnlessBlocked`);
- the cleanup at shutdown has fifteen seconds, the chart ends the container after ten:
  in `WebhookConfig` a kill in the middle of a cleanup.

## 4. Fairness

`Reconciler!FairSpec`: weak fairness of every reconcile (once begun it goes on,
and the workqueue hands out each key), of each watch, each delayed add, and the
garbage collector. Goroutines, the API server's watches and client-go's delaying
queue justify these; users, administrators, faults and restarts owe nothing, and
are bounded, so "in the end" means after the last of them. Weak fairness is
enough: a key in the queue stays there until it is taken, and with no more
resources of a kind than workers a worker is free. It does assume that every
request ends: the reconcile sets no deadline and the transport none for the answer,
so an Authentik that accepts a connection and is silent for ever would hold a worker
(hazards in `PROJECT.json`). `Admission!FairAdmissionSpec` is the same with the
refusal as one way a call can end; who switches the webhook owes nothing, so a
deletion may stay blocked, and the property says so.

`EventWebhook!FairSpec` is fair to each handler, each channel source, each name of
each queue and each timer; a single fairness condition for a controller would let it
starve one name for ever, which the workqueue's order excludes. That a request does
not depend on the controllers is an invariant (`NeverWaits`) and needs no fairness.

`Readiness!FairSpec`: time goes on, and what is due happens. Authentik and restarts
owe nothing. The order of what is due in the same second is not fixed, so each bound
holds for either order.

## 5. The proofs

Those about `Reconciler` hold for every set of keys, kinds, slugs, secret names, labels
and specs and every bound; they assume `ConstantsAssumption`, which only types the
constants, and what a theorem names itself.

- `TypeCorrect`: `Spec => []TypeOK`.
- `Inductive`: `Spec => []IndInv`, from which `GuardedWrites` (whenever a
  reconcile writes to Authentik or a secret, its resource exists, is the one that
  was read, and has the finalizer) and `NothingForgotten` (a resource always has
  something pending, except one with a malformed template) follow.
  Neither is inductive alone. That a write is guarded depends on the copy: a
  copy that is not being deleted and has the finalizer is as good as the API
  server's object only because a finalizer never goes without a deletion that was
  seen (`CacheLags`), uids are used once (`UidsAllocated`), and a reconcile in
  `handleDeletion` has a copy of an object that is being deleted and can only
  become older (`CopyIsUsable`). That nothing is forgotten needs `DirtyIsQueued`: an
  edit during a reconcile marks the key dirty, so that even a return without
  requeue (malformed template) of an outdated copy leaves the key in the queue.
- `ProviderKeys`: `Spec => []ProviderInv`, and `ProviderBeforeResource`: when a
  resource goes, the provider its status names is gone. The point is that
  `handleDeletion` reads the key from a *copy* of the status: it needs that
  primary keys are used once, that the known ones are of the resource's kind (the
  lookup by kind would otherwise take a provider of the other kind for deleted),
  and that the finalizer is removed only from the very version that was read.
- `NoOrphans`: under `FixedSlugs` (no user edits a slug) no application outlives
  the resource it was written for, also if resources of one or both kinds share
  slugs. `CleanupInv` (`CleanupInvariant`) adds that uids tell keys apart in every
  copy (`UidsApart`), that an application has the slug of its resource (`Owned`), and
  that it is gone when the provider is deleted (`AppDeletedFirst`).
  `FixedSlugs` is needed: without it an edit leaves the old application behind.
- `ReadyTellsTheTruth`: under `SeparateSlugs` (no two resources may name one slug) a
  Ready resource has its provider and application, attached to each other, with the
  settings of its current generation, while nobody deletes anything in Authentik.
  `ReadyKeepsProvider`: of the provider alone this holds if only resources of
  *one* kind have slugs apart. The argument has three layers. `VersionInv`: a copy of
  the same uid and generation has the same spec, and once a generation is published
  no older copy is in use, since the status was written to the very version that was
  read. `NameInv`: names and keys of providers are unique, and a resource knows only
  keys of providers named after its own slugs, so that another resource's update or
  deletion cannot hit its provider. `ProviderServed` and `ApplicationServed`: past
  `reconcileProvider` (`reconcileApplication`) the provider (application) has the
  version of the copy; a Ready resource's reconcile writes the same version again.
  Slugs may be edited here.
- `SecretsKept`: a secret goes from one resource to another only by being deleted, for
  any number of resources that name it. `SecretsOwned` is the invariant: a secret that
  exists, or that the cache shows, has a key as owner; with that, the `MayWriteSecret`
  of a stale cache is enough.
- `ReadyIsNeverOutdated`: under `SeparateSlugs` and *with* an administrator's deletions,
  a Ready resource may miss its provider or application, but what bears its slug has
  the settings of the published generation, and the application is attached to
  nothing or to the resource's own provider. While the drift is repaired the status still
  names the old provider's key, so this is said of names instead of keys. `KeptInv`
  is the invariant: past `reconcileProvider` (`reconcileApplication`) it says the same
  of the copy, and that the key the reconcile holds is no other provider's than that of
  the slug. Deletions only take witnesses away, or detach (`DestroyKeepsCurrent`); what a
  Ready resource's reconcile makes anew is of the published version by `VersionInv`.
- `ReadySecretSeenTo`: while no call fails, a Ready resource whose secret is not what
  its spec asks for is reconciled without waiting for the drift check, for any
  number of resources, whichever of them name the same secret, except those whose
  data cannot be told from another one's because both are constant (`OwnData`; see the
  list in section 3). The hard part is the
  early return of `reconcileSecretObject`: data equal to the cached secret's end the
  reconcile, though the secret in the API server may be gone, or be another
  resource's. `SecretServed` says what makes it right: at the publication, and as long
  as the resource is Ready and idle, its secret is as asked, or the resource is queued, or
  the cached secret is its own and no longer the one in the API server, so that the
  watch will queue it. That is inductive because
  - the cache and the API server may show different secrets, but never name two
    owners (`KeysAgree`), so an event that is still to come finds its resource;
  - no two resources know the same provider (`KnownApart`: those of status and
    reconcile, and those in their secrets), so data that name a provider and equal what
    was rendered are a secret of that very resource and not of another one;
  - constant data name no provider, but were written for a resource one of whose
    specs is constant and names that secret (`ConstantOwned`); by `OwnData` it is the same
    resource;
  - a secret of the predecessor, which the garbage collector takes, is in the cache
    before anybody can return early on it (`LookedAfter`), and the copy in the cache
    outlives it.

  It needs `SeparateByKind`: when two resources of one kind share slug *and* secret,
  TLC finds the second one taking over the first one's provider, the data
  equal, the early return taken, and the secret, owned by the first, collected with
  it; the watch then enqueues the owner that is gone, and the second is Ready without a
  secret until the drift check. Faults are exempt, because a reconcile that fails after
  it stored a new secret waits for its retry; so are secrets an administrator
  deleted, perhaps before the cache had them.
- `Implementation`: under `FixedSlugs` `Reconciler` implements `Custody`. The initial
  states map, each step maps to an action of `Custody` or to a stutter: `AddFinalizer`
  is `Hold`, the writes of applications are `Write`, their deletions by reconcile and administrator `Withdraw`, the user's delete `AskToLeave`,
  `RemoveFinalizer` `LetGo`. The guards come from `CleanupInv` and `IndInv`, and that
  a new uid is among `Custody`'s from `UidsBounded`.
- `AdmissionGuardsWrites`, `AdmissionForgetsNothing`,
  `AdmissionKeepsCustody`, `AdmissionProviderBeforeResource`,
  `AdmissionReadyTellsTheTruth`, `AdmissionIsNeverOutdated`, `AdmissionSecretSeenTo`:
  with the webhook in between, switched at any time, the same hold. A step of
  `AdmissionSpec` is one of `Reconciler`, or a refusal, which is shown to keep the
  invariants; this is what makes "the error requeues" a theorem. For the secret a refusal
  is the one hard step, since it ends a reconcile with a *delayed* add: a Ready resource
  has its finalizer and is not being deleted, so only a reconcile with an old copy can meet it,
  and then the key is in the queue.
- `Readiness`: `TypeCorrect`; `Recent` (a ready pod's last success is at most
  `Noticed` ago) and `Tolerance` (with a patient kubelet a ready pod becomes unready no
  sooner than `Tolerated`), for every grace period, timeout, number and waits of
  retries, period and threshold that `ReadinessAssumption` allows. `TimeInv` ties the
  clocks: the handler's age to the next probe's (`InStep`), and the age of the last
  success to the number of failures from below (`NotEarly`) and above (`NotLate`).
- `EventWebhook`: `TypeCorrect` and `EventsAccountedFor` (when all is quiet, what is out
  of sync was dropped, misdelivered or not listed), for every set of resources and
  requests and every channel; `PostsBounded` and `DriftAccounted` are the invariant:
  a resource out of sync has a request, an event, a queue entry or one of the three.

- `WebhookConfig`, for any number of pods, jobs, actions, starts, stops and faults:
  `RegistrationHolds` (what a pod registered stays complete until a cleanup deletes),
  `AloneSucceeds` (leftovers never make a registration fail), `CleanupHolds` (a cleanup
  that ran alone leaves nothing that forwards) and `WebhookTypes` follow from
  `WebhookInv`:
  - `KeysInv`: keys are unique in Authentik, and a transport has its mapping.
  - `HeldInv`, of every process: a key remembered from an earlier call is older than the
    last one given out, and what is remembered as the transport or the rule is never
    the key of *another* object. Without it a stale key could be the policy a new
    binding is for.
  - `ProgressInv`, of a pod under which nothing was deleted: at each place of
    `EnsureEventWebhookConfig` what the pod holds is what is there, and each action it
    is past is bound. It says the same of the result of the List a write is about to
    use, which makes it inductive in spite of the time between the two calls: of the
    writes of others those that are no deletions only add (`Grows`).
  - `AloneInv` and `CleanInv`, of a process that has run alone: what it listed is still
    so when it writes; what it is past in the cleanup is gone, or answers 405.

  Each kind of step of one process is shown to keep what the invariant says of itself
  (`OwnHold`, `OwnProgress`, `OwnAlone`) and of all others (`OthersHold`,
  `OthersProgress`, `OthersAlone`). Two conjuncts were found by the proof: the
  key a List found is not newer than the last one, and a pod before the policies
  stands at the first action.
- `OneSucceeds`: of pods that start together and meet no fault but each other, one
  registers everything. `CompanyInv` orders the places of the code (`Place`) and says
  that whatever is in Authentik, some pod that has not given up is *beyond* the place
  that writes it. A pod whose create is refused, because another one was first, is
  therefore not the foremost; so it may give up, and the foremost never has to.
- `Backoff`: `LoopIsCappedPower` (the loop that stops at the cap, and the minimum after
  it, are the capped power of two, for every base, cap and count above one) and
  `EnoughIsReturned` (the delay returned is no less than stated for the errors recorded
  since the resource's last success; it is a theorem about the value, which nobody waits
  for); with `BackoffTypes`, from `BackoffInv`: a streak of a resource is at
  most the count the tracker has, and the delay is that of the count. The delay
  grows with the count (`EnoughDelay`), so a count left by a deleted resource cannot
  shorten it. The induction the loop needs is from the least element of a set of
  naturals (`SetInduction`, `Recursion`): an operator as a parameter, which the library's
  induction theorems need, is avoided.

Each theorem has initial states, one lemma per group of actions, and a `PTL` step
that puts them together. What TLC checked first: `IndInv` in `lifecycle`,
`CleanupInv` and `ProviderInv` in `two_kinds`, `KeyedInv` and `SecretsServed` in both,
`WebhookInv` and `CompanyInv` on the instance of `register` with one
fault; the other invariants are conjuncts of proofs whose conclusions the runs check.

Only model-checked: the liveness properties `DeletionCompletesUnlessBlocked`,
`EventuallyServed`, `DriftRepaired`, `OutageNoticed` and `RecoveryNoticed`, since fairness
is out of the prover's reach, and `NeverWaits`, which is about ENABLED. Every other
property of a passing run is a theorem. The five disagreements of section 3 are
TLC's counterexamples.

## 6. What is left out, and simplifications

- **Error tracker in `Reconciler`.** Its delay is returned as `RequeueAfter` next
  to an error, which controller-runtime ignores in favour of its rate limiter. So
  it has no effect on `Reconciler` and is a module of its own, about the numbers only.
- **Versions.** `Current(c)` compares the whole object, not a resourceVersion:
  an object that is changed and changed back counts as current. That allows more
  than the API server does. `Restart` lists everything at once; watches may skip
  versions in between, and a secret created and deleted between two deliveries
  is never seen (polling repairs that).
- **Shared slugs.** Two resources of the *same* kind with one slug overwrite each
  other's provider by design of the lookup; only `NoOrphans` and `KeepsCustody` speak of
  them. With
  two kinds the second one's create is refused as long as the first one's provider
  is there, also if it is an orphan.
- **Secrets.** No secret with the name exists before the operator writes it.
  The secret of a Ready resource need not have the right data at once: the early
  return in `reconcileSecretObject` believes the cache. `SecretSeenTo` says that then the
  watch or the queue has the resource, unless two resources render the same
  constant data into one secret (`OwnData`); that one resource is served in the end is
  `EventuallyServed`. All constant templates render the same data here: an edit from one
  to another with different literals is an edit between two classes.
- **Users** do not remove the finalizer by force and add none of their own.
  Namespaces are part of the keys; cluster-wide secret names are not told apart
  by namespace beyond that.
- **WebhookConfig** assumes what the chart configures (leader election on) and
  what Authentik does: unique names, references that must exist, bindings deleted
  with their ends. The address of the transport is not modelled.
- **EventWebhook.** The operator's own updates in Authentik raise `model_updated`
  events too; the receiver has no filter, so each may queue every resource again. These
  posts are not modelled: they add requests, which can fill the channel as those of the
  model do, and no property depends on there being none.
- **Admission.** The webhook is on or off; a webhook that is configured but whose
  server does not answer refuses everything (`failurePolicy: Fail`) and is not
  modelled, since it refuses the operator's updates like a fault does. The dummy
  values of the validation are the class `unrenderable` and the constant `Refused`.
- **Readiness.** A request takes no time unless Authentik hangs; whole seconds are
  enough because every constant of code and chart is one. `Retry-After` of a 429 or
  503 and the limiter of the client are left out: they make a check longer, which the
  handler's deadline bounds.
- **A negative `--requeue-interval`** is accepted by the flag parser and not
  modelled.
- **Not modelled:** metrics (nothing reads them), `retryTransport` (only its test
  uses it; `NewClient` uses go-retryablehttp), the rate limiter (each reconcile makes its
  own, so that calls of different reconciles are not limited together: a question of
  load, it delays calls and refuses none) and the connections, which all clients share
  through `http.DefaultTransport`, generated code, flags and certificates, the text of templates and conditions,
  TLS and HTTP details.

## 7. Plan

Done, in this order: `Reconciler` with its properties and runs, its proofs
(types, guarded writes, nothing forgotten, then cleanup), `EventWebhook`,
`Backoff`, `WebhookConfig`; then `Custody` and the refinement, `Admission`,
`Readiness`, and the proofs of `ReadinessProofs`, `EventWebhookProofs` and `ReadyProofs`; then
those of `WebhookConfigProofs` and `BackoffProofs`, the secret of a Ready resource and what
a deletion by an administrator leaves of it.

Next: that a Ready resource is *complete* again one reconcile after the last deletion by
an administrator (that nothing of it is outdated meanwhile is `ReadyIsNeverOutdated`).
It needs a history variable, which reconcile began after the deletion; today only
`EventuallyServed`, on a small instance, speaks of it.
