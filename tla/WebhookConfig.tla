--------------------------- MODULE WebhookConfig ---------------------------
(***************************************************************************)
(* The registration of the event webhook in Authentik: a headers mapping,  *)
(* a transport, a rule, and an event matcher policy bound to the rule for  *)
(* each action.  Every pod runs EnsureEventWebhookConfig when it starts,   *)
(* before it stands for leader; the leader runs CleanupEventWebhookConfig  *)
(* when it is terminated, and so does the job of the Helm pre-delete hook. *)
(* Each call of the API is one step; calls of several pods interleave.     *)
(*                                                                         *)
(* Authentik keeps names unique, and gives every object a new key.         *)
(***************************************************************************)
EXTENDS Naturals, Sequences, FiniteSets, Functions

CONSTANTS Pods,                \* pods of the operator
          Jobs,                \* runs with --cleanup-event-webhooks
          eventMatcherActions, \* the sequence of actions, each with a policy
          Secret,              \* whether a webhook secret is configured
          Versions,            \* of Authentik: the objects each answers 405 for
          MaxStarts, MaxStops, MaxFaults  \* bounds: starts, SIGTERMs, kills and failed calls

Policies == Range(eventMatcherActions)
Objects == {"mapping", "transport", "rule"} \cup Policies
Processes == Pods \cup Jobs
MaxPk == MaxStarts * Cardinality(Objects)

\* The actions are distinct, and so are the names of all objects.
ASSUME Configuration ==
  /\ IsFiniteSet(Pods) /\ Pods # {} /\ Pods \cap Jobs = {}
  /\ eventMatcherActions \in Seq(Policies) /\ eventMatcherActions # << >>
  /\ \A i, j \in DOMAIN eventMatcherActions :
       eventMatcherActions[i] = eventMatcherActions[j] => i = j
  /\ Policies \cap {"mapping", "transport", "rule"} = {}
  /\ Secret \in BOOLEAN /\ Versions \subseteq SUBSET Objects
  /\ MaxStarts \in Nat /\ MaxStops \in Nat /\ MaxFaults \in Nat

VARIABLES
  pk,          \* pk[o]: key of the object with that name, 0 when there is none
  mappingOf,   \* key of the mapping the transport refers to
  transportOf, \* key of the transport the rule refers to
  bindings,    \* policy bindings: [policy, target, order]
  lastPk,      \* last key given out
  undeletable, \* objects this Authentik answers 405 for
  undone,      \* history: pods that were running when something was deleted
  shared,      \* history: processes that have run next to another one
  proc,        \* proc[p]: where process p is
  leader,      \* the pod that holds the lease
  spent        \* starts, stops and faults so far

authentik == <<pk, mappingOf, transportOf, bindings, lastPk, undone>>
vars == <<authentik, undeletable, shared, proc, leader, spent>>

\* at: what p works on, in the order of the code; "waiting" is mgr.Start
\* without the lease.  found: the key the List returned, or the number of bindings;
\* held: keys of the objects ensured so far; n: index of the action.
Ensuring == {"mapping", "transport", "rule", "policy", "binding"}
Cleaning == {"cleanPolicy", "cleanRule", "cleanTransport"}
Off == [at |-> "off", stage |-> "find", n |-> 1, found |-> 0,
        held |-> [o \in Ensuring |-> 0], registered |-> FALSE, cleaned |-> FALSE,
        faulted |-> FALSE]
Pks == 0 .. MaxPk

TypeOK ==
  /\ pk \in [Objects -> Pks] /\ lastPk \in Pks
  /\ {mappingOf, transportOf} \subseteq Pks /\ undeletable \in Versions
  /\ bindings \subseteq [policy : Pks \ {0}, target : {pk["rule"]} \ {0}, order : Nat]
  /\ IsFiniteSet(bindings)
  /\ proc \in [Processes ->
       [at : {"off", "waiting", "leading"} \cup Ensuring \cup Cleaning,
        stage : {"find", "write"}, n : 1 .. Len(eventMatcherActions), found : Nat,
        held : [Ensuring -> Pks], registered : BOOLEAN, cleaned : BOOLEAN,
        faulted : BOOLEAN]]
  /\ undone \subseteq Pods /\ shared \subseteq Processes
  /\ leader \subseteq Pods /\ Cardinality(leader) <= 1
  /\ spent \in [starts : 0 .. MaxStarts, stops : 0 .. MaxStops, faults : 0 .. MaxFaults]

Init ==
  /\ pk = [o \in Objects |-> 0] /\ mappingOf = 0 /\ transportOf = 0
  /\ bindings = {} /\ lastPk = 0 /\ undone = {} /\ shared = {}
  /\ undeletable \in Versions
  /\ proc = [p \in Processes |-> Off]
  /\ leader = {}
  /\ spent = [starts |-> 0, stops |-> 0, faults |-> 0]

-----------------------------------------------------------------------------
(* Authentik: what an accepted call changes *)

Policy(p) == eventMatcherActions[proc[p].n]

Create(o) ==
  /\ lastPk < MaxPk
  /\ lastPk' = lastPk + 1
  /\ pk' = [pk EXCEPT ![o] = lastPk']
  /\ UNCHANGED undone

\* Bindings go with their policy or their rule, a reference with its target.
Destroy(o) ==
  /\ pk' = [pk EXCEPT ![o] = 0]
  /\ bindings' = {b \in bindings : pk[o] \notin {b.policy, b.target}}
  /\ transportOf' = IF pk[o] = transportOf THEN 0 ELSE transportOf
  /\ mappingOf' = IF o = "transport" THEN 0 ELSE mappingOf
  /\ undone' = {p \in Pods : proc[p].at # "off"}
  /\ UNCHANGED lastPk

Kept(k) == k # 0 /\ \E o \in Objects : pk[o] = k

-----------------------------------------------------------------------------
(* One call of a process *)

\* The process after its call failed: Ensure falls back to polling, Cleanup ends.
Failed(p, fault) ==
  IF proc[p].at \in Ensuring
  THEN [proc[p] EXCEPT !.at = "waiting", !.stage = "find", !.faulted = @ \/ fault]
  ELSE Off

Ends(p) == leader' = IF proc'[p].at = "off" THEN leader \ {p} ELSE leader

\* Timeout or error of any call; Effect when it is lost on the way back.
Fault(p, Effect) ==
  /\ spent.faults < MaxFaults
  /\ spent' = [spent EXCEPT !.faults = @ + 1]
  /\ Effect \/ UNCHANGED authentik
  /\ proc' = [proc EXCEPT ![p] = Failed(p, TRUE)]
  /\ Ends(p)

Reject(p) ==
  /\ proc' = [proc EXCEPT ![p] = Failed(p, FALSE)]
  /\ Ends(p)
  /\ UNCHANGED <<authentik, spent>>

\* A List by name: the object's key, or none.
List(p, key) ==
  /\ proc[p].stage = "find"
  /\ \/ /\ proc' = [proc EXCEPT ![p].found = key, ![p].stage = "write"]
        /\ UNCHANGED <<authentik, leader, spent>>
     \/ Fault(p, FALSE)

\* The process goes on with step at and has the key k of what it ensured.
GoOn(p, at, k) ==
  /\ proc' = [proc EXCEPT ![p].at = at, ![p].stage = "find", ![p].found = 0,
                          ![p].held[proc[p].at] = k]
  /\ UNCHANGED <<leader, spent>>

-----------------------------------------------------------------------------
(* EnsureEventWebhookConfig *)

\* Update what was found (404 when it is gone), or create (400 when there is one);
\* the write leaves the references of the transport and the rule as given.
Put(p, o, at, mapping, transport) ==
  LET found == proc[p].found
      Refer == mappingOf' = mapping /\ transportOf' = transport /\ UNCHANGED bindings
  IN
  /\ proc[p].stage = "write"
  /\ IF found # 0
     THEN IF pk[o] = found
          THEN LET Update == Refer /\ UNCHANGED <<pk, lastPk, undone>> IN
               (Update /\ GoOn(p, at, found)) \/ Fault(p, Update)
          ELSE Reject(p)
     ELSE IF pk[o] = 0
          THEN LET New == Create(o) /\ Refer IN
               (New /\ GoOn(p, at, lastPk')) \/ Fault(p, New)
          ELSE Reject(p)

\* Mutant of ensureWebhookHeadersMapping: it is created without a look.
CreateMapping(p) ==
  /\ proc[p].at = "mapping"
  /\ List(p, 0) \/ Put(p, "mapping", "transport", mappingOf, transportOf)

ensureWebhookHeadersMapping(p) ==
  /\ proc[p].at = "mapping"
  /\ List(p, pk["mapping"]) \/ Put(p, "mapping", "transport", mappingOf, transportOf)

ensureTransport(p) ==
  /\ proc[p].at = "transport"
  /\ \/ List(p, pk["transport"])
     \/ Put(p, "transport", "rule", proc[p].held["mapping"], transportOf)

\* Mutant of ensureRule: the update leaves the transports out.
UpdateRuleBare(p) ==
  LET transport == IF proc[p].found = 0 THEN proc[p].held["transport"] ELSE 0 IN
  /\ proc[p].at = "rule"
  /\ List(p, pk["rule"]) \/ Put(p, "rule", "policy", mappingOf, transport)

\* A transport that is gone by then is refused.
ensureRule(p) ==
  LET transport == proc[p].held["transport"] IN
  /\ proc[p].at = "rule"
  /\ \/ List(p, pk["rule"])
     \/ Kept(transport) /\ Put(p, "rule", "policy", mappingOf, transport)
     \/ ~Kept(transport) /\ proc[p].stage = "write" /\ Reject(p)

\* Mutant of ensureSingleEventMatcher: a policy that is there needs no binding.
SkipBinding(p) ==
  /\ proc[p].at = "policy"
  /\ \/ List(p, pk[Policy(p)])
     \/ /\ proc[p].stage = "write" /\ proc[p].found # 0
        /\ proc' = [proc EXCEPT ![p] =
             IF proc[p].n = Len(eventMatcherActions)
             THEN [proc[p] EXCEPT !.at = "waiting", !.stage = "find", !.registered = TRUE]
             ELSE [proc[p] EXCEPT !.n = @ + 1, !.stage = "find", !.found = 0]]
        /\ UNCHANGED <<authentik, leader, spent>>
     \/ proc[p].found = 0 /\ Put(p, Policy(p), "binding", mappingOf, transportOf)

\* A policy that is found is taken as it is.
ensureSingleEventMatcher(p) ==
  /\ proc[p].at = "policy"
  /\ \/ List(p, pk[Policy(p)])
     \/ /\ proc[p].stage = "write" /\ proc[p].found # 0
        /\ GoOn(p, "binding", proc[p].found) /\ UNCHANGED authentik
     \/ proc[p].found = 0 /\ Put(p, Policy(p), "binding", mappingOf, transportOf)

\* Mutant of NextAction: the loop takes one action too many.
OneMoreAction(p) ==
  /\ proc' = [proc EXCEPT ![p] =
       IF proc[p].n > Len(eventMatcherActions)
       THEN [proc[p] EXCEPT !.at = "waiting", !.stage = "find", !.registered = TRUE]
       ELSE [proc[p] EXCEPT !.n = @ + 1, !.at = "policy", !.stage = "find", !.found = 0]]
  /\ UNCHANGED <<leader, spent>>

\* The end of the loop over the actions.
NextAction(p) ==
  /\ proc' = [proc EXCEPT ![p] =
       IF proc[p].n = Len(eventMatcherActions)
       THEN [proc[p] EXCEPT !.at = "waiting", !.stage = "find", !.registered = TRUE]
       ELSE [proc[p] EXCEPT !.n = @ + 1, !.at = "policy", !.stage = "find", !.found = 0]]
  /\ UNCHANGED <<leader, spent>>

Target(p) == proc[p].held["rule"]
Bound(p) == {b \in bindings : b.target = Target(p)}

\* found is the number of bindings listed, the order of the new one; found
\* bindings of the policy end the step.
ensurePolicyBinding(p) ==
  LET policy == proc[p].held["policy"]
      binding == [policy |-> policy, target |-> Target(p), order |-> proc[p].found]
      Bind == /\ bindings' = bindings \cup {binding}
              /\ UNCHANGED <<pk, mappingOf, transportOf, lastPk, undone>>
  IN
  /\ proc[p].at = "binding"
  /\ \/ /\ proc[p].stage = "find" /\ \E b \in Bound(p) : b.policy = policy
        /\ (NextAction(p) /\ UNCHANGED authentik) \/ Fault(p, FALSE)
     \/ (\A b \in Bound(p) : b.policy # policy) /\ List(p, Cardinality(Bound(p)))
     \/ /\ proc[p].stage = "write"
        /\ IF Kept(policy) /\ Kept(Target(p)) /\ binding \notin bindings
           THEN (Bind /\ NextAction(p)) \/ Fault(p, Bind)
           ELSE Reject(p)

EnsureEventWebhookConfig(p) ==
  \/ ensureWebhookHeadersMapping(p) \/ ensureTransport(p) \/ ensureRule(p)
  \/ ensureSingleEventMatcher(p) \/ ensurePolicyBinding(p)

-----------------------------------------------------------------------------
(* CleanupEventWebhookConfig *)

Doomed(p) ==
  CASE proc[p].at = "cleanPolicy" -> Policy(p)
    [] proc[p].at = "cleanRule" -> "rule"
    [] proc[p].at = "cleanTransport" -> "transport"

\* The next object to clean up; after the transport the process is done.
Cleaned(p) ==
  CASE proc[p].at = "cleanTransport" -> [Off EXCEPT !.cleaned = TRUE]
    [] proc[p].at = "cleanRule" ->
         [proc[p] EXCEPT !.at = "cleanTransport", !.stage = "find"]
    [] proc[p].at = "cleanPolicy" ->
         IF proc[p].n = Len(eventMatcherActions)
         THEN [proc[p] EXCEPT !.at = "cleanRule", !.stage = "find"]
         ELSE [proc[p] EXCEPT !.n = @ + 1, !.stage = "find"]

NextObject(p) == proc' = [proc EXCEPT ![p] = Cleaned(p)] /\ Ends(p) /\ UNCHANGED spent

\* Mutant of DestroyFound: every error is passed over as a 405 is.
DestroyOrGoOn(p) ==
  LET o == Doomed(p) IN
  /\ proc[p].stage = "write"
  /\ \/ /\ proc[p].found = 0 \/ o \in undeletable \/ pk[o] # proc[p].found
        /\ NextObject(p) /\ UNCHANGED authentik
     \/ /\ proc[p].found # 0 /\ o \notin undeletable /\ pk[o] = proc[p].found
        /\ \/ Destroy(o) /\ NextObject(p)
           \/ /\ spent.faults < MaxFaults /\ UNCHANGED authentik
              /\ spent' = [spent EXCEPT !.faults = @ + 1]
              /\ proc' = [proc EXCEPT ![p] = Cleaned(p)] /\ Ends(p)

\* A 405 is passed over; a 404, or no answer, is an error and ends the cleanup.
DestroyFound(p) ==
  LET o == Doomed(p) IN
  /\ proc[p].stage = "write"
  /\ \/ /\ proc[p].found = 0 \/ o \in undeletable
        /\ NextObject(p) /\ UNCHANGED authentik
     \/ /\ proc[p].found # 0 /\ o \in undeletable
        /\ Fault(p, FALSE)
     \/ /\ proc[p].found # 0 /\ o \notin undeletable
        /\ IF pk[o] = proc[p].found
           THEN (Destroy(o) /\ NextObject(p)) \/ Fault(p, Destroy(o))
           ELSE Reject(p)

CleanupEventWebhookConfig(p) ==
  /\ proc[p].at \in Cleaning
  /\ List(p, pk[Doomed(p)]) \/ DestroyFound(p)

-----------------------------------------------------------------------------
(* Processes *)

\* cleaned is forgotten as soon as anything starts that may register again.
Start(p) ==
  LET running == {q \in Processes : proc[q].at # "off"} IN
  /\ p \notin running /\ spent.starts < MaxStarts
  /\ spent' = [spent EXCEPT !.starts = @ + 1]
  /\ proc' = [q \in Processes |->
       IF q # p THEN [proc[q] EXCEPT !.cleaned = FALSE]
       ELSE [Off EXCEPT !.at = IF p \in Jobs THEN "cleanPolicy"
                               ELSE IF Secret THEN "mapping" ELSE "transport"]]
  /\ undone' = undone \ {p}
  /\ shared' = IF running = {} THEN shared \ {p} ELSE shared \cup running \cup {p}
  /\ UNCHANGED <<pk, mappingOf, transportOf, bindings, lastPk, leader>>

\* Leader election: the runnables of the manager run on one pod only.
Lead(p) ==
  /\ proc[p].at = "waiting" /\ leader = {}
  /\ leader' = {p}
  /\ proc' = [proc EXCEPT ![p].at = "leading"]
  /\ UNCHANGED <<authentik, spent>>

\* SIGTERM: the cleanup runnable runs on the leader; a pod that waits just ends.
Terminate(p) ==
  /\ spent.stops < MaxStops
  /\ spent' = [spent EXCEPT !.stops = @ + 1]
  /\ \/ /\ proc[p].at = "leading"
        /\ proc' = [proc EXCEPT ![p] = [Off EXCEPT !.at = "cleanPolicy"]]
     \/ proc[p].at = "waiting" /\ proc' = [proc EXCEPT ![p] = Off]
  /\ UNCHANGED <<authentik, leader>>

\* A crash, SIGKILL, or SIGTERM before mgr.Start has taken the signal over.
Kill(p) ==
  /\ proc[p].at # "off" /\ spent.faults < MaxFaults
  /\ spent' = [spent EXCEPT !.faults = @ + 1]
  /\ proc' = [proc EXCEPT ![p] = Off]
  /\ leader' = leader \ {p}
  /\ UNCHANGED authentik

Next ==
  \E p \in Processes :
    \/ Start(p) /\ UNCHANGED undeletable
    \/ /\ \/ Lead(p) \/ Terminate(p) \/ Kill(p)
          \/ EnsureEventWebhookConfig(p) \/ CleanupEventWebhookConfig(p)
       /\ UNCHANGED <<shared, undeletable>>

Spec == Init /\ [][Next]_vars

-----------------------------------------------------------------------------
(* Properties *)

\* Authentik forwards every kind of event, with the header when there is a secret.
Complete ==
  /\ pk["transport"] # 0 /\ pk["rule"] # 0 /\ transportOf = pk["transport"]
  /\ Secret => mappingOf # 0 /\ mappingOf = pk["mapping"]
  /\ \A o \in Policies :
       \E b \in bindings : b.policy = pk[o] /\ b.target = pk["rule"]

\* As long as a pod runs whose registration succeeded nothing is missing,
\* whatever earlier starts, crashes and cleanups left behind and whatever other
\* pods register meanwhile, until a cleanup deletes something.
RegisteredIsComplete == \A p \in Pods \ undone : proc[p].registered => Complete

\* "ensures ... are created and up-to-date so that Authentik forwards" events
\* (events.go:27): and it stays so while the pod runs.
RegisteredStays == \A p \in Pods : proc[p].registered => Complete

\* A registration that runs alone fails only when a call of it does: what earlier
\* starts, crashes and cleanups left behind never makes it impossible.
OnlyFaultsFail ==
  \A p \in Pods \ shared :
    proc[p].at \in {"waiting", "leading"} => proc[p].registered \/ proc[p].faulted

\* After a cleanup that ran alone and without error nothing that can be deleted
\* sends events, until something starts again.
NothingForwards ==
  \A p \in Processes \ shared : proc[p].cleaned =>
    \A o \in Objects \ ({"mapping"} \cup undeletable) : pk[o] = 0

\* Pods that start together get in each other's way, and some fall back to
\* polling; but without a fault or a cleanup one of them registers everything.
SomeoneRegisters ==
  /\ spent.faults = 0 /\ spent.stops = 0 /\ spent.starts = Cardinality(Pods)
  /\ \A p \in Pods : proc[p].at \in {"waiting", "leading"}
  => Complete

=============================================================================
