----------------------------- MODULE Reconciler -----------------------------
(***************************************************************************)
(* The reconcile loop of the two controllers (OAuth2 and SAML), with the   *)
(* Kubernetes API server and informer caches it reads and writes and the   *)
(* Authentik server it drives.  There is one worker per custom resource:   *)
(* the workqueue never runs two reconciles of one key at the same time.    *)
(* Every call that leaves the process is one step, so that users,          *)
(* administrators, garbage collection, other workers, faults and restarts  *)
(* interleave with a reconcile between any two of its calls.               *)
(***************************************************************************)
EXTENDS Integers, FiniteSets

CONSTANTS CRs,          \* keys (namespace/name) of the custom resources
          SAML,         \* those of kind AuthentikSAMLApplication
          Slugs,        \* application slugs
          SecretNames,  \* names of Kubernetes secrets
          Labels,       \* values of spec.secret.labels
          Specs,        \* Specs[c]: the specs the user of c may write
          MaxUids,      \* how many custom resources are ever created
          MaxEdits,     \* how often a spec is edited
          MaxFaults,    \* how many API calls fail or lose their answer
          MaxDrifts,    \* how often an administrator deletes something
          MaxCrashes    \* how often the operator restarts

\* Classes of spec.secret.template.  A custom one mentions what is the provider's alone,
\* as its credentials; a constant one nothing of the provider or the resource (URLs
\* that every provider shares, say).  An unrenderable template parses, and so passes
\* ValidateTemplate, but its execution or the YAML it yields is an error.
Templates == {"default", "custom", "constant", "malformed", "unrenderable"}

\* Classes of the provider's settings.  Of dangling ones no request can be built:
\* an option is invalid, or a flow, scope, mapping or key they name is not found.
Settings == {"complete", "dangling"}

CRSpec == [slug : Slugs, secret : SecretNames, template : Templates, labels : Labels,
           settings : Settings]

\* The key of a resource is not empty.
ASSUME ConstantsAssumption ==
  /\ SAML \subseteq CRs /\ "" \notin CRs
  /\ Specs \in [CRs -> SUBSET CRSpec]
  /\ MaxUids \in Nat /\ MaxEdits \in Nat /\ MaxFaults \in Nat
  /\ MaxDrifts \in Nat /\ MaxCrashes \in Nat

VARIABLES
  cr,            \* cr[c]: the resource in the API server
  cache,         \* cache[c]: the resource in the operator's informer cache
  secrets,       \* secrets[n]: the secret in the API server
  secretCache,   \* secretCache[n]: the secret in the informer cache
  providers,     \* the Authentik providers
  applications,  \* applications[s]: the Authentik application with slug s
  nextPid,       \* the next provider primary key
  nextUid,       \* the next metadata.uid
  queue,         \* keys in the controllers' workqueues
  timers,        \* keys with a delayed add: RequeueAfter or rate limited
  work,          \* work[c]: the reconcile in progress
  spent          \* how much of each Max bound has been used

kubernetes == <<cr, cache, secrets, secretCache, nextUid>>
authentik  == <<providers, applications, nextPid>>
vars == <<kubernetes, authentik, queue, timers, work, spent>>

-----------------------------------------------------------------------------
(* Data *)

Reasons == {"", "Succeeded", "AuthentikError", "SecretError", "TemplateError",
            "DeletionFailed"}

\* Status.ProviderID, SecretName, ObservedGeneration and the reason of the
\* Ready condition, which is True exactly when the reason is Succeeded.
NoStatus == [pid |-> 0, secret |-> "", gen |-> 0, reason |-> ""]
Status == [pid : Nat, secret : SecretNames \cup {""}, gen : Nat, reason : Reasons]

\* uid 0 is no object.
NoSpec == [slug |-> "", secret |-> "", template |-> "", labels |-> "",
           settings |-> ""]
NoCR == [uid |-> 0, gen |-> 0, spec |-> NoSpec, fin |-> FALSE, del |-> FALSE,
         status |-> NoStatus]
Object == [uid : Nat \ {0}, gen : Nat, spec : CRSpec, fin : BOOLEAN,
           del : BOOLEAN, status : Status]
CR == Object \cup {NoCR}

Exists(o) == o.uid # 0

\* A secret: the controller reference (key and uid of the owner), what tells its data
\* from other data (see Data), the labels.
NoSecret == [key |-> "", uid |-> 0, data |-> <<0, "">>, labels |-> {}]
Secret == [key : CRs \cup {""}, uid : Nat, data : Nat \X (Templates \cup {""}),
           labels : SUBSET Labels]

Kind(c) == IF c \in SAML THEN "saml" ELSE "oauth2"

\* A provider is named after a slug; uid and gen are the version of the resource
\* its settings were last taken from.
Provider == [id : Nat, kind : {"saml", "oauth2"}, slug : Slugs,
             uid : Nat, gen : Nat]

\* provider 0 is an application without a provider, uid 0 no application.
NoApplication == [provider |-> 0, uid |-> 0, gen |-> 0]
Application == [provider : Nat, uid : Nat, gen : Nat]

Deleting == {"findAppToDelete", "deleteApp", "findProviderToDelete",
             "deleteProvider", "removeFinalizer"}
Syncing == {"findProvider", "createProvider", "updateProvider", "findApp",
            "createApp", "updateApp", "deleteStaleSecret", "getURLs",
            "writeSecret", "publish"}
Steps == {"addFinalizer", "report"} \cup Deleting \cup Syncing

\* app is the copy of the resource the reconcile works on, pid the provider it
\* found or created, why the reason it is about to report.
Idle == [pc |-> "idle", app |-> NoCR, pid |-> 0, why |-> ""]
Work == {Idle} \cup
  [pc : Steps, app : Object, pid : Nat, why : Reasons]

TypeOK ==
  /\ cr \in [CRs -> CR] /\ cache \in [CRs -> CR]
  /\ secrets \in [SecretNames -> Secret] /\ secretCache \in [SecretNames -> Secret]
  /\ providers \subseteq Provider
  /\ applications \in [Slugs -> Application]
  /\ nextPid \in Nat \ {0} /\ nextUid \in Nat \ {0}
  /\ queue \subseteq CRs /\ timers \subseteq CRs
  /\ work \in [CRs -> Work]
  /\ spent \in [edits : Nat, faults : Nat, drifts : Nat, crashes : Nat]

Init ==
  /\ cr = [c \in CRs |-> NoCR] /\ cache = cr
  /\ secrets = [n \in SecretNames |-> NoSecret] /\ secretCache = secrets
  /\ providers = {} /\ applications = [s \in Slugs |-> NoApplication]
  /\ nextPid = 1 /\ nextUid = 1
  /\ queue = {} /\ timers = {}
  /\ work = [c \in CRs |-> Idle]
  /\ spent = [edits |-> 0, faults |-> 0, drifts |-> 0, crashes |-> 0]

-----------------------------------------------------------------------------
(* How a reconcile moves on *)

At(c, step) == work[c].pc = step
App(c) == work[c].app

Goto(c, step) ==
  /\ work' = [work EXCEPT ![c].pc = step]
  /\ UNCHANGED <<queue, timers>>

GotoWith(c, step, pid) ==
  /\ work' = [work EXCEPT ![c].pc = step, ![c].pid = pid]
  /\ UNCHANGED <<queue, timers>>

\* Reconcile returns with nothing to requeue, or with a delayed add: after
\* RequeueDelay, or rate limited because of Requeue: true or an error (the
\* RequeueAfter returned next to an error is ignored by controller-runtime).
Return(c) ==
  /\ work' = [work EXCEPT ![c] = Idle]
  /\ UNCHANGED <<queue, timers>>

ReturnRequeue(c) ==
  /\ work' = [work EXCEPT ![c] = Idle]
  /\ timers' = timers \cup {c}
  /\ UNCHANGED queue

\* An error that is reported in the Ready condition before Reconcile returns.
Fail(c, reason) ==
  /\ work' = [work EXCEPT ![c].pc = "report", ![c].why = reason]
  /\ UNCHANGED <<queue, timers>>

\* Mutant of FailDeletion: the SAML controller swallows the error.
SwallowDeletionError(c) ==
  IF c \in SAML THEN Return(c) ELSE Fail(c, "DeletionFailed")

\* The SAML controller's handleDeletion returns errors without a condition.
FailDeletion(c) ==
  IF c \in SAML THEN ReturnRequeue(c) ELSE Fail(c, "DeletionFailed")

NoFault == UNCHANGED spent
Fault == spent.faults < MaxFaults /\ spent' = [spent EXCEPT !.faults = @ + 1]

\* A call has no effect: the server refuses it, or it fails on the way.
FailsUnless(accepted) == (~accepted /\ NoFault) \/ Fault

\* Mutant of Current: the writes send no resourceVersion.
LastWriteWins(c) == cr[c].uid = App(c).uid

\* Optimistic concurrency: the resourceVersion of the copy is the current one.
Current(c) == cr[c] = App(c)

-----------------------------------------------------------------------------
(* Reconcile: reading the resource and choosing what to do *)

\* MaxConcurrentReconciles of each controller.
MaxConcurrentReconciles == 2

FreeWorker(c) ==
  Cardinality({d \in CRs : Kind(d) = Kind(c) /\ ~At(d, "idle")})
    < MaxConcurrentReconciles

Dequeue(c) ==
  /\ c \in queue /\ At(c, "idle") /\ FreeWorker(c)
  /\ queue' = queue \ {c}
  /\ UNCHANGED <<kubernetes, authentik, timers, spent>>

Begin(c, step, why) ==
  work' = [work EXCEPT ![c] = [pc |-> step, app |-> cache[c], pid |-> 0, why |-> why]]

\* The resource is not in the cache, or it is being deleted without our finalizer.
Ignore(c) ==
  /\ ~Exists(cache[c]) \/ (cache[c].del /\ ~cache[c].fin)
  /\ Dequeue(c)
  /\ UNCHANGED work

BeginDeletion(c) ==
  /\ cache[c].del /\ cache[c].fin
  /\ Dequeue(c)
  /\ Begin(c, "findAppToDelete", "")

\* Mutant of BeginFinalizer: the Get's NotFound is ignored, an empty object is used.
BeginWithoutObject(c) ==
  /\ ~cache[c].del /\ ~cache[c].fin
  /\ Dequeue(c)
  /\ Begin(c, "addFinalizer", "")

BeginFinalizer(c) ==
  /\ Exists(cache[c]) /\ ~cache[c].del /\ ~cache[c].fin
  /\ Dequeue(c)
  /\ Begin(c, "addFinalizer", "")

RejectTemplate(c) ==
  /\ cache[c].fin /\ ~cache[c].del /\ cache[c].spec.template = "malformed"
  /\ Dequeue(c)
  /\ Begin(c, "report", "TemplateError")

\* Mutant of BeginSync: the finalizer is not waited for.
SyncWithoutFinalizer(c) ==
  /\ Exists(cache[c]) /\ ~cache[c].del /\ cache[c].spec.template # "malformed"
  /\ Dequeue(c)
  /\ Begin(c, "findProvider", "")

BeginSync(c) ==
  /\ cache[c].fin /\ ~cache[c].del /\ cache[c].spec.template # "malformed"
  /\ Dequeue(c)
  /\ Begin(c, "findProvider", "")

\* r.Update with the finalizer added; Requeue: true, or the error, follows.
AddFinalizer(c) ==
  /\ At(c, "addFinalizer")
  /\ \/ Current(c) /\ NoFault /\ cr' = [cr EXCEPT ![c].fin = TRUE]
     \/ FailsUnless(Current(c)) /\ UNCHANGED cr
  /\ ReturnRequeue(c)
  /\ UNCHANGED <<cache, secrets, secretCache, nextUid, authentik>>

-----------------------------------------------------------------------------
(* reconcileProvider *)

\* Mutant of OwnKind: the lookup sees the providers of every kind.
AnyKind(c, p) == p.kind \in {"saml", "oauth2"}

OwnKind(c, p) == p.kind = Kind(c)

\* Mutant of FindProvider: the list of the providers of all kinds is searched.
FindAnyProvider(c) ==
  /\ At(c, "findProvider")
  /\ LET found == {p \in providers : p.slug = App(c).spec.slug} IN
     \/ \E p \in found : NoFault /\ GotoWith(c, "updateProvider", p.id)
     \/ found = {} /\ NoFault /\ Goto(c, "createProvider")
  /\ UNCHANGED <<kubernetes, authentik>>

FindProvider(c) ==
  /\ At(c, "findProvider")
  /\ LET found == {p \in providers : OwnKind(c, p) /\ p.slug = App(c).spec.slug} IN
     \/ \E p \in found : NoFault /\ GotoWith(c, "updateProvider", p.id)
     \/ found = {} /\ NoFault /\ Goto(c, "createProvider")
     \/ Fault /\ Fail(c, "AuthentikError")
  /\ UNCHANGED <<kubernetes, authentik>>

\* buildProviderRequest and buildSAMLProviderRequest: what is named is looked up.
Resolves(c) == App(c).spec.settings = "complete"

\* Authentik refuses a second provider, of any kind, with the same name.
CreateProvider(c) ==
  /\ At(c, "createProvider")
  /\ LET slug == App(c).spec.slug
         accepted == Resolves(c) /\ \A p \in providers : p.slug # slug
     IN
     \/ /\ accepted
        /\ providers' = providers \cup
             {[id |-> nextPid, kind |-> Kind(c), slug |-> slug,
               uid |-> App(c).uid, gen |-> App(c).gen]}
        /\ nextPid' = nextPid + 1
        /\ \/ NoFault /\ GotoWith(c, "findApp", nextPid)
           \/ Fault /\ Fail(c, "AuthentikError")
     \/ /\ FailsUnless(accepted)
        /\ Fail(c, "AuthentikError")
        /\ UNCHANGED <<providers, nextPid>>
  /\ UNCHANGED <<kubernetes, applications>>

\* Mutant of UpdateProvider: an existing provider is taken as it is.
KeepProvider(c) ==
  /\ At(c, "updateProvider")
  /\ Goto(c, "findApp")
  /\ UNCHANGED <<kubernetes, authentik, spent>>

UpdateProvider(c) ==
  /\ At(c, "updateProvider")
  /\ LET found == {p \in providers : p.id = work[c].pid}
         accepted == Resolves(c) /\ found # {}
     IN
     \/ /\ accepted
        /\ providers' = (providers \ found) \cup
             {[p EXCEPT !.uid = App(c).uid, !.gen = App(c).gen] : p \in found}
        /\ \/ NoFault /\ Goto(c, "findApp")
           \/ Fault /\ Fail(c, "AuthentikError")
     \/ /\ FailsUnless(accepted)
        /\ Fail(c, "AuthentikError")
        /\ UNCHANGED providers
  /\ UNCHANGED <<kubernetes, applications, nextPid>>

-----------------------------------------------------------------------------
(* reconcileApplication *)

HasProvider(id) == \E p \in providers : p.id = id

\* deleteStaleSecret has nothing to do unless the recorded name has changed.
StaleSecret(o) == o.status.secret \notin {"", o.spec.secret}
AfterApp(c) == IF StaleSecret(App(c)) THEN "deleteStaleSecret" ELSE "getURLs"

FindApp(c) ==
  /\ At(c, "findApp")
  /\ LET found == Exists(applications[App(c).spec.slug]) IN
     \/ found /\ NoFault /\ Goto(c, "updateApp")
     \/ ~found /\ NoFault /\ Goto(c, "createApp")
     \/ Fault /\ Fail(c, "AuthentikError")
  /\ UNCHANGED <<kubernetes, authentik>>

\* The request names the slug and the provider's primary key, which must exist;
\* allowed is what Authentik requires of the slug.
WriteApp(c, allowed) ==
  LET slug == App(c).spec.slug
      accepted == allowed /\ HasProvider(work[c].pid)
  IN
  /\ \/ /\ accepted
        /\ applications' = [applications EXCEPT ![slug] =
             [provider |-> work[c].pid, uid |-> App(c).uid, gen |-> App(c).gen]]
        /\ \/ NoFault /\ Goto(c, AfterApp(c))
           \/ Fault /\ Fail(c, "AuthentikError")
     \/ /\ FailsUnless(accepted)
        /\ Fail(c, "AuthentikError")
        /\ UNCHANGED applications
  /\ UNCHANGED <<kubernetes, providers, nextPid>>

CreateApp(c) ==
  At(c, "createApp") /\ WriteApp(c, ~Exists(applications[App(c).spec.slug]))

UpdateApp(c) ==
  At(c, "updateApp") /\ WriteApp(c, Exists(applications[App(c).spec.slug]))

-----------------------------------------------------------------------------
(* reconcileSecret *)

\* The Get reads the cache, the Delete has no precondition and removes whatever
\* secret has the name; its errors are only logged.
DeleteStaleSecret(c) ==
  /\ At(c, "deleteStaleSecret")
  /\ LET old == App(c).status.secret IN
     \/ /\ Exists(secretCache[old]) /\ NoFault
        /\ secrets' = [secrets EXCEPT ![old] = NoSecret]
     \/ /\ FailsUnless(Exists(secretCache[old]))
        /\ UNCHANGED secrets
  /\ Goto(c, "getURLs")
  /\ UNCHANGED <<cr, cache, secretCache, nextUid, authentik>>

\* GetOAuth2ProviderURLs or GetSAMLProviderMetadata, then rendering the template.
GetURLs(c) ==
  /\ At(c, "getURLs")
  /\ LET renders == HasProvider(work[c].pid) /\ App(c).spec.template # "unrenderable" IN
     \/ renders /\ NoFault /\ Goto(c, "writeSecret")
     \/ /\ FailsUnless(renders)
        /\ Fail(c, "SecretError")
  /\ UNCHANGED <<kubernetes, authentik>>

\* What a template renders for a provider: the layout is the template's, and the
\* contents name the provider unless the template is constant.
Data(template, pid) == <<IF template = "constant" THEN 0 ELSE pid, template>>

RenderedData(c) == Data(App(c).spec.template, work[c].pid)

\* Mutant of MayWriteSecret: the owner reference is overwritten.
OverwriteOwner(c, n) == secrets[n] = secretCache[n] /\ c \in CRs

\* Data that is right already ends it, whoever owns the secret.  Otherwise
\* CreateOrUpdate reads the cache and then creates or updates: the create is
\* refused when the secret exists, the update when the copy is not current, and
\* SetControllerReference when another resource controls the secret.
MayWriteSecret(c, n) ==
  secrets[n] = secretCache[n] /\ secretCache[n].key \in {"", c}

WriteSecret(c) ==
  /\ At(c, "writeSecret")
  /\ LET n == App(c).spec.secret
         same == Exists(secretCache[n]) /\ secretCache[n].data = RenderedData(c)
     IN
     \/ same /\ NoFault /\ Goto(c, "publish") /\ UNCHANGED secrets
     \/ /\ ~same /\ MayWriteSecret(c, n)
        /\ secrets' = [secrets EXCEPT ![n] =
             [key |-> c, uid |-> App(c).uid, data |-> RenderedData(c),
              labels |-> secrets[n].labels \cup {App(c).spec.labels}]]
        /\ \/ NoFault /\ Goto(c, "publish")
           \/ Fault /\ Fail(c, "SecretError")
     \/ /\ ~same /\ FailsUnless(MayWriteSecret(c, n))
        /\ Fail(c, "SecretError")
        /\ UNCHANGED secrets
  /\ UNCHANGED <<cr, cache, secretCache, nextUid, authentik>>

-----------------------------------------------------------------------------
(* setCondition *)

\* Mutant of PublishStatus: a success schedules no drift check.
PublishAndForget(c) ==
  /\ At(c, "publish")
  /\ LET app == App(c) IN
     \/ /\ Current(c) /\ NoFault
        /\ cr' = [cr EXCEPT ![c].status =
             [pid |-> work[c].pid, secret |-> app.spec.secret, gen |-> app.gen,
              reason |-> "Succeeded"]]
        /\ Return(c)
     \/ /\ FailsUnless(Current(c))
        /\ UNCHANGED cr /\ ReturnRequeue(c)
  /\ UNCHANGED <<cache, secrets, secretCache, nextUid, authentik>>

\* The update of the whole status that ends a successful reconcile.
PublishStatus(c) ==
  /\ At(c, "publish")
  /\ LET app == App(c) IN
     \/ /\ Current(c) /\ NoFault
        /\ cr' = [cr EXCEPT ![c].status =
             [pid |-> work[c].pid, secret |-> app.spec.secret, gen |-> app.gen,
              reason |-> "Succeeded"]]
     \/ /\ FailsUnless(Current(c))
        /\ UNCHANGED cr
  /\ ReturnRequeue(c)
  /\ UNCHANGED <<cache, secrets, secretCache, nextUid, authentik>>

\* The condition of a failed reconcile.  Its own failure is only logged; a
\* malformed template is not requeued, every other reason is an error.
ReportFailure(c) ==
  /\ At(c, "report")
  /\ \/ Current(c) /\ NoFault /\ cr' = [cr EXCEPT ![c].status.reason = work[c].why]
     \/ /\ FailsUnless(Current(c))
        /\ UNCHANGED cr
  /\ IF work[c].why = "TemplateError" THEN Return(c) ELSE ReturnRequeue(c)
  /\ UNCHANGED <<cache, secrets, secretCache, nextUid, authentik>>

-----------------------------------------------------------------------------
(* handleDeletion *)

AfterAppDeleted(c) ==
  IF App(c).status.pid # 0 THEN "findProviderToDelete" ELSE "removeFinalizer"

FindAppToDelete(c) ==
  /\ At(c, "findAppToDelete")
  /\ LET found == Exists(applications[App(c).spec.slug]) IN
     \/ found /\ NoFault /\ Goto(c, "deleteApp")
     \/ ~found /\ NoFault /\ Goto(c, AfterAppDeleted(c))
     \/ Fault /\ FailDeletion(c)
  /\ UNCHANGED <<kubernetes, authentik>>

\* Mutant of DeleteApp: an error of the delete is only logged.
DeleteAppOrLog(c) ==
  /\ At(c, "deleteApp")
  /\ LET slug == App(c).spec.slug IN
     \/ /\ Exists(applications[slug]) /\ NoFault
        /\ applications' = [applications EXCEPT ![slug] = NoApplication]
     \/ FailsUnless(Exists(applications[slug])) /\ UNCHANGED applications
  /\ Goto(c, AfterAppDeleted(c))
  /\ UNCHANGED <<kubernetes, providers, nextPid>>

DeleteApp(c) ==
  /\ At(c, "deleteApp")
  /\ LET slug == App(c).spec.slug
         found == Exists(applications[slug])
     IN
     \/ /\ found
        /\ applications' = [applications EXCEPT ![slug] = NoApplication]
        /\ \/ NoFault /\ Goto(c, AfterAppDeleted(c))
           \/ Fault /\ FailDeletion(c)
     \/ /\ FailsUnless(found)
        /\ FailDeletion(c)
        /\ UNCHANGED applications
  /\ UNCHANGED <<kubernetes, providers, nextPid>>

FindProviderToDelete(c) ==
  /\ At(c, "findProviderToDelete")
  /\ LET found == \E p \in providers : OwnKind(c, p) /\ p.id = App(c).status.pid IN
     \/ found /\ NoFault /\ Goto(c, "deleteProvider")
     \/ ~found /\ NoFault /\ Goto(c, "removeFinalizer")
     \/ Fault /\ FailDeletion(c)
  /\ UNCHANGED <<kubernetes, authentik>>

\* Authentik sets the provider of an application to null when it is deleted.
DestroyProvider(id) ==
  /\ providers' = {p \in providers : p.id # id}
  /\ applications' = [s \in Slugs |->
       [applications[s] EXCEPT !.provider = IF @ = id THEN 0 ELSE @]]

DeleteProvider(c) ==
  /\ At(c, "deleteProvider")
  /\ LET id == App(c).status.pid IN
     \/ /\ HasProvider(id) /\ DestroyProvider(id)
        /\ \/ NoFault /\ Goto(c, "removeFinalizer")
           \/ Fault /\ FailDeletion(c)
     \/ /\ FailsUnless(HasProvider(id))
        /\ FailDeletion(c)
        /\ UNCHANGED <<providers, applications>>
  /\ UNCHANGED <<kubernetes, nextPid>>

\* Ours is the only finalizer: the API server removes the object with it.
RemoveFinalizer(c) ==
  /\ At(c, "removeFinalizer")
  /\ \/ /\ Current(c) /\ cr' = [cr EXCEPT ![c] = NoCR]
        /\ \/ NoFault /\ Return(c)
           \/ Fault /\ ReturnRequeue(c)
     \/ /\ FailsUnless(Current(c))
        /\ UNCHANGED cr /\ ReturnRequeue(c)
  /\ UNCHANGED <<cache, secrets, secretCache, nextUid, authentik>>

-----------------------------------------------------------------------------
(* The manager: informers, delayed adds, restarts *)

\* Mutant of WatchCR: an update of the object is filtered out of the queue.
WatchWithoutQueue(c) ==
  /\ cache[c] # cr[c]
  /\ cache' = [cache EXCEPT ![c] = cr[c]]
  /\ queue' = IF cr[c].gen > 1 THEN queue ELSE queue \cup {c}
  /\ UNCHANGED <<cr, secrets, secretCache, nextUid, authentik, timers, work, spent>>

\* A watch delivers the current object; versions in between may be skipped.
WatchCR(c) ==
  /\ cache[c] # cr[c]
  /\ cache' = [cache EXCEPT ![c] = cr[c]]
  /\ queue' = queue \cup {c}
  /\ UNCHANGED <<cr, secrets, secretCache, nextUid, authentik, timers, work, spent>>

\* Mutant of WatchSecret: only the owner of the new object is enqueued.
WatchNewSecret(n) ==
  /\ secretCache[n] # secrets[n]
  /\ secretCache' = [secretCache EXCEPT ![n] = secrets[n]]
  /\ queue' = queue \cup ({secrets[n].key} \ {""})
  /\ UNCHANGED <<cr, cache, secrets, nextUid, authentik, timers, work, spent>>

\* Owns(Secret): the owners of the old and of the new object are enqueued.
WatchSecret(n) ==
  /\ secretCache[n] # secrets[n]
  /\ secretCache' = [secretCache EXCEPT ![n] = secrets[n]]
  /\ queue' = queue \cup ({secretCache[n].key, secrets[n].key} \ {""})
  /\ UNCHANGED <<cr, cache, secrets, nextUid, authentik, timers, work, spent>>

TimerFires(c) ==
  /\ c \in timers
  /\ timers' = timers \ {c}
  /\ queue' = queue \cup {c}
  /\ UNCHANGED <<kubernetes, authentik, work, spent>>

\* The process ends and another one lists everything before it reconciles.
Restart ==
  /\ spent.crashes < MaxCrashes
  /\ spent' = [spent EXCEPT !.crashes = @ + 1]
  /\ work' = [c \in CRs |-> Idle]
  /\ timers' = {}
  /\ queue' = {c \in CRs : Exists(cr[c])}
  /\ cache' = cr /\ secretCache' = secrets
  /\ UNCHANGED <<cr, secrets, nextUid, authentik>>

-----------------------------------------------------------------------------
(* Users, administrators and the garbage collector *)

CreateCR(c) ==
  /\ ~Exists(cr[c]) /\ nextUid <= MaxUids
  /\ \E spec \in Specs[c] :
       cr' = [cr EXCEPT ![c] = [NoCR EXCEPT !.uid = nextUid, !.gen = 1, !.spec = spec]]
  /\ nextUid' = nextUid + 1
  /\ UNCHANGED <<cache, secrets, secretCache, authentik, queue, timers, work, spent>>

EditCR(c) ==
  /\ Exists(cr[c]) /\ spent.edits < MaxEdits
  /\ \E spec \in Specs[c] \ {cr[c].spec} :
       cr' = [cr EXCEPT ![c].spec = spec, ![c].gen = @ + 1]
  /\ spent' = [spent EXCEPT !.edits = @ + 1]
  /\ UNCHANGED <<cache, secrets, secretCache, nextUid, authentik, queue, timers, work>>

\* Without a finalizer the object goes at once.
DeleteCR(c) ==
  /\ Exists(cr[c]) /\ ~cr[c].del
  /\ cr' = [cr EXCEPT ![c] =
       IF cr[c].fin THEN [cr[c] EXCEPT !.del = TRUE, !.gen = @ + 1] ELSE NoCR]
  /\ UNCHANGED <<cache, secrets, secretCache, nextUid, authentik, queue, timers, work, spent>>

\* The garbage collector removes a secret whose owner is gone.
CollectSecret(n) ==
  /\ Exists(secrets[n]) /\ cr[secrets[n].key].uid # secrets[n].uid
  /\ secrets' = [secrets EXCEPT ![n] = NoSecret]
  /\ UNCHANGED <<cr, cache, secretCache, nextUid, authentik, queue, timers, work, spent>>

Drift ==
  /\ spent.drifts < MaxDrifts
  /\ spent' = [spent EXCEPT !.drifts = @ + 1]
  /\ UNCHANGED <<cr, cache, secretCache, nextUid, nextPid, queue, timers, work>>

DriftProvider ==
  /\ \E p \in providers : DestroyProvider(p.id)
  /\ Drift /\ UNCHANGED secrets

DriftApp(s) ==
  /\ Exists(applications[s])
  /\ applications' = [applications EXCEPT ![s] = NoApplication]
  /\ Drift /\ UNCHANGED <<secrets, providers>>

DriftSecret(n) ==
  /\ Exists(secrets[n])
  /\ secrets' = [secrets EXCEPT ![n] = NoSecret]
  /\ Drift /\ UNCHANGED <<providers, applications>>

-----------------------------------------------------------------------------

Begins(c) ==
  \/ Ignore(c) \/ BeginDeletion(c) \/ BeginFinalizer(c)
  \/ RejectTemplate(c) \/ BeginSync(c)

Reconcile(c) ==
  \/ Begins(c)
  \/ AddFinalizer(c)
  \/ FindProvider(c) \/ CreateProvider(c) \/ UpdateProvider(c)
  \/ FindApp(c) \/ CreateApp(c) \/ UpdateApp(c)
  \/ DeleteStaleSecret(c) \/ GetURLs(c) \/ WriteSecret(c)
  \/ PublishStatus(c) \/ ReportFailure(c)
  \/ FindAppToDelete(c) \/ DeleteApp(c)
  \/ FindProviderToDelete(c) \/ DeleteProvider(c) \/ RemoveFinalizer(c)

Environment ==
  \/ \E c \in CRs : CreateCR(c) \/ EditCR(c) \/ DeleteCR(c)
  \/ \E n \in SecretNames : CollectSecret(n) \/ DriftSecret(n)
  \/ \E s \in Slugs : DriftApp(s)
  \/ DriftProvider

Next ==
  \/ \E c \in CRs : Reconcile(c) \/ WatchCR(c) \/ TimerFires(c)
  \/ \E n \in SecretNames : WatchSecret(n)
  \/ Restart
  \/ Environment

Spec == Init /\ [][Next]_vars

\* The Go scheduler, the watches, the delayed queue and the garbage collector
\* do not stop; users, administrators, faults and restarts owe nothing.
FairSpec ==
  /\ Spec
  /\ \A c \in CRs : WF_vars(Reconcile(c)) /\ WF_vars(WatchCR(c)) /\ WF_vars(TimerFires(c))
  /\ \A n \in SecretNames : WF_vars(WatchSecret(n)) /\ WF_vars(CollectSecret(n))

=============================================================================
