------------------------- MODULE WebhookConfigProofs -------------------------
(***************************************************************************)
(* Proofs about the registration of the event webhook, for every number of *)
(* pods, cleanup jobs, actions, restarts, kills and failed calls.          *)
(***************************************************************************)
EXTENDS WebhookConfig, FiniteSetTheorems, TLAPS

-----------------------------------------------------------------------------
(* The steps of a process, by what they do to it and to Authentik *)

\* The object an ensuring process works on, and what it works on after it.
Item(p) == IF proc[p].at = "policy" THEN Policy(p) ELSE proc[p].at

After(at) ==
  CASE at = "mapping" -> "transport" [] at = "transport" -> "rule"
    [] at = "rule" -> "policy" [] at = "policy" -> "binding"

Writing == {"mapping", "transport", "rule", "policy"}

\* An accepted update or create of the object p works on.
Puts(p) ==
  LET found == proc[p].found
      held == proc[p].held
  IN
  /\ proc[p].at \in Writing /\ proc[p].stage = "write"
  /\ \/ found # 0 /\ pk[Item(p)] = found /\ UNCHANGED <<pk, lastPk>>
     \/ /\ found = 0 /\ pk[Item(p)] = 0 /\ lastPk < MaxPk
        /\ lastPk' = lastPk + 1 /\ pk' = [pk EXCEPT ![Item(p)] = lastPk']
  /\ mappingOf' = IF proc[p].at = "transport" THEN held["mapping"] ELSE mappingOf
  /\ transportOf' = IF proc[p].at = "rule" THEN held["transport"] ELSE transportOf
  /\ proc[p].at = "rule" => Kept(held["transport"])
  /\ UNCHANGED <<bindings, undone>>

Binding(p) ==
  [policy |-> proc[p].held["policy"], target |-> Target(p), order |-> proc[p].found]

\* An accepted create of a binding.
Binds(p) ==
  /\ proc[p].at = "binding" /\ proc[p].stage = "write"
  /\ Kept(proc[p].held["policy"]) /\ Kept(Target(p)) /\ Binding(p) \notin bindings
  /\ bindings' = bindings \cup {Binding(p)}
  /\ UNCHANGED <<pk, mappingOf, transportOf, lastPk, undone>>

Same == UNCHANGED authentik

\* A call returned what it looked for.
Looks(p, key) ==
  /\ proc[p].stage = "find"
  /\ proc' = [proc EXCEPT ![p].found = key, ![p].stage = "write"]
  /\ Same /\ UNCHANGED <<leader, spent>>

Fails(p, fault) == proc' = [proc EXCEPT ![p] = Failed(p, fault)] /\ Ends(p)

Fails1(p) ==
  Fails(p, TRUE) /\ spent.faults < MaxFaults /\ spent' = [spent EXCEPT !.faults = @ + 1]

\* Why Authentik refuses a call of an ensuring process.
Refused(p) ==
  /\ proc[p].stage = "write"
  /\ \/ /\ proc[p].at \in Writing /\ proc[p].found # 0 /\ pk[Item(p)] # proc[p].found
        /\ proc[p].at # "policy"
     \/ proc[p].at \in Writing /\ proc[p].found = 0 /\ pk[Item(p)] # 0
     \/ proc[p].at = "rule" /\ ~Kept(proc[p].held["transport"])
     \/ /\ proc[p].at = "binding"
        /\ ~Kept(proc[p].held["policy"]) \/ ~Kept(Target(p)) \/ Binding(p) \in bindings

IsBound(o) == \E b \in bindings : b.policy = pk[o] /\ b.target = pk["rule"]

\* What a step of EnsureEventWebhookConfig may be.
EnsureStep(p) ==
  \/ proc[p].at \in Writing /\ Looks(p, pk[Item(p)])
  \/ /\ proc[p].at = "binding" /\ Looks(p, Cardinality(Bound(p)))
     /\ \A b \in Bound(p) : b.policy # proc[p].held["policy"]
  \/ proc[p].at \in Ensuring /\ Fails1(p) /\ (Same \/ Puts(p) \/ Binds(p))
  \/ Refused(p) /\ Fails(p, FALSE) /\ Same /\ UNCHANGED spent
  \/ Puts(p) /\ GoOn(p, After(proc[p].at), pk'[Item(p)])
  \/ /\ proc[p].at = "policy" /\ proc[p].stage = "write" /\ proc[p].found # 0
     /\ GoOn(p, "binding", proc[p].found) /\ Same
  \/ /\ proc[p].at = "binding" /\ proc[p].stage = "find"
     /\ \E b \in Bound(p) : b.policy = proc[p].held["policy"]
     /\ NextAction(p) /\ Same
  \/ Binds(p) /\ NextAction(p)

\* What a step of CleanupEventWebhookConfig may be.
CleanupStep(p) ==
  /\ proc[p].at \in Cleaning
  /\ \/ Looks(p, pk[Doomed(p)])
     \/ Fails1(p) /\ Same
     \/ Fails(p, FALSE) /\ Same /\ UNCHANGED spent
     \/ /\ proc[p].stage = "write" /\ (proc[p].found = 0 \/ Doomed(p) \in undeletable)
        /\ NextObject(p) /\ Same
     \/ /\ proc[p].stage = "write" /\ proc[p].found # 0
        /\ pk[Doomed(p)] = proc[p].found /\ Destroy(Doomed(p))
        /\ (NextObject(p) \/ Fails1(p))

Runs(p) == Lead(p) \/ Terminate(p) \/ Kill(p) \/ EnsureStep(p) \/ CleanupStep(p)

-----------------------------------------------------------------------------
(* Invariants *)

\* Keys are unique, and a transport has its mapping when there is a secret.
KeysInv ==
  /\ \A o1, o2 \in Objects : pk[o1] = pk[o2] /\ pk[o1] # 0 => o1 = o2
  /\ \A o \in Objects : pk[o] <= lastPk
  /\ Secret /\ pk["transport"] # 0 => mappingOf = pk["mapping"] /\ mappingOf # 0
  /\ \A b \in bindings : \E o \in Objects : pk[o] = b.policy

\* What a process holds is older than the last key, and a key it holds for the
\* transport or the rule is never that of another object.
HeldInv(p) ==
  LET held == proc[p].held IN
  /\ \A s \in Ensuring : held[s] <= lastPk
  /\ proc[p].at \in Writing /\ proc[p].stage = "write" => proc[p].found <= lastPk
  /\ \A o \in Objects : pk[o] # 0 => /\ pk[o] = held["transport"] => o = "transport"
                                     /\ pk[o] = held["rule"] => o = "rule"
  /\ held["mapping"] # 0 => held["mapping"] = pk["mapping"]
  /\ Secret /\ proc[p].at \in {"transport", "rule", "policy", "binding"} => held["mapping"] # 0
  /\ proc[p].registered => proc[p].at \in {"waiting", "leading"}
  /\ proc[p].cleaned => proc[p].at = "off"
  /\ p \in Jobs => proc[p].at \in Cleaning \cup {"off"}

\* How far the registration of p has come, and that it is all still there.
ProgressInv(p) ==
  LET held == proc[p].held
      at == proc[p].at
  IN
  /\ at \in {"mapping", "transport", "rule"} => proc[p].n = 1
  /\ at \in {"rule", "policy", "binding"} =>
       held["transport"] # 0 /\ held["transport"] = pk["transport"]
  /\ at \in {"policy", "binding"} =>
       /\ held["rule"] # 0 /\ held["rule"] = pk["rule"] /\ transportOf = pk["transport"]
       /\ \A i \in 1 .. proc[p].n - 1 : IsBound(eventMatcherActions[i])
  /\ at = "binding" => held["policy"] # 0 /\ held["policy"] = pk[Policy(p)]
  /\ at \in Writing /\ proc[p].stage = "write" /\ proc[p].found # 0 =>
       proc[p].found = pk[Item(p)]
  /\ proc[p].registered =>
       /\ pk["transport"] # 0 /\ pk["rule"] # 0 /\ transportOf = pk["transport"]
       /\ \A o \in Policies : IsBound(o)

Running == {p \in Processes : proc[p].at # "off"}

Gone(o) == pk[o] = 0 \/ o \in undeletable

\* A process that has run alone: nobody else runs, and what it has seen is so.
AloneInv(p) ==
  LET at == proc[p].at IN
  /\ p \in Running => Running = {p}
  /\ at \in Ensuring \cup {"waiting", "leading"} => p \notin undone
  /\ at \in Writing /\ proc[p].stage = "write" => proc[p].found = pk[Item(p)]
  /\ at = "binding" /\ proc[p].stage = "write" =>
       \A b \in Bound(p) : b.policy # proc[p].held["policy"]
  /\ at \in {"waiting", "leading"} => proc[p].registered \/ proc[p].faulted

\* The same of its cleanup.
CleanInv(p) ==
  LET at == proc[p].at IN
  /\ at = "cleanPolicy" => \A i \in 1 .. proc[p].n - 1 : Gone(eventMatcherActions[i])
  /\ at \in {"cleanRule", "cleanTransport"} => \A o \in Policies : Gone(o)
  /\ at = "cleanTransport" => Gone("rule")
  /\ at \in Cleaning /\ proc[p].stage = "write" => proc[p].found = pk[Doomed(p)]
  /\ proc[p].cleaned => Running = {} /\ \A o \in Objects \ {"mapping"} : Gone(o)

WebhookInv ==
  /\ TypeOK /\ KeysInv
  /\ \A p \in Processes : HeldInv(p)
  /\ \A p \in Pods \ undone : ProgressInv(p)
  /\ \A p \in Processes \ shared : AloneInv(p) /\ CleanInv(p)

\* How far an undisturbed pod has come.
Place(p) ==
  LET at == proc[p].at IN
  IF proc[p].registered THEN 2 * Len(eventMatcherActions) + 4
  ELSE CASE at = "mapping" -> 1 [] at = "transport" -> 2 [] at = "rule" -> 3
         [] at = "policy" -> 2 * proc[p].n + 2 [] at = "binding" -> 2 * proc[p].n + 3
         [] OTHER -> 0

Reached(place) == \E p \in Pods : Place(p) > place

\* Only pods run, nothing was ever deleted, and whatever there is in Authentik
\* a pod that has not failed has gone beyond it.
Undisturbed ==
  /\ undone = {}
  /\ \A p \in Jobs : proc[p].at = "off"
  /\ \A p \in Pods : proc[p].at \notin Cleaning
  /\ Running # {} => Reached(0)
  /\ pk["mapping"] # 0 => Reached(1)
  /\ pk["transport"] # 0 => Reached(2)
  /\ pk["rule"] # 0 => Reached(3)
  /\ \A i \in DOMAIN eventMatcherActions :
       /\ pk[eventMatcherActions[i]] # 0 => Reached(2 * i + 2)
       /\ IsBound(eventMatcherActions[i]) => Reached(2 * i + 3)

\* Without faults and stops either only pods have been started, or more processes
\* than there are pods running.
CompanyInv ==
  /\ Cardinality(Running \cap Pods) <= spent.starts
  /\ spent.faults = 0 /\ spent.stops = 0 =>
       Undisturbed \/ Cardinality(Running \cap Pods) < spent.starts

-----------------------------------------------------------------------------
(* The cases of Next *)

\* The objects are finitely many, and keys are numbers.
LEMMA ConfigurationTypes ==
  /\ IsFiniteSet(Policies) /\ IsFiniteSet(Objects) /\ MaxPk \in Nat /\ 0 \in Pks
  /\ Len(eventMatcherActions) \in Nat \ {0}
  /\ DOMAIN eventMatcherActions = 1 .. Len(eventMatcherActions)
  /\ Policies \subseteq Objects /\ {"mapping", "transport", "rule"} \subseteq Objects
  /\ \A i \in 1 .. Len(eventMatcherActions) : eventMatcherActions[i] \in Policies
  /\ \A o \in Policies : \E i \in 1 .. Len(eventMatcherActions) : o = eventMatcherActions[i]
<1>1. eventMatcherActions \in Seq(Policies) /\ eventMatcherActions # << >>
  BY Configuration
<1>2. /\ Len(eventMatcherActions) \in Nat \ {0}
      /\ DOMAIN eventMatcherActions = 1 .. Len(eventMatcherActions)
  BY <1>1
<1>3. /\ \A i \in 1 .. Len(eventMatcherActions) : eventMatcherActions[i] \in Policies
      /\ \A o \in Policies :
           \E i \in 1 .. Len(eventMatcherActions) : o = eventMatcherActions[i]
  BY <1>2 DEF Policies, Range
<1>4. IsFiniteSet(Policies)
  <2> DEFINE D == 1 .. Len(eventMatcherActions)
  <2>1. IsFiniteSet(D)
    BY <1>2, FS_Interval
  <2>2. eventMatcherActions \in Surjection(D, Policies)
    BY <1>1, <1>2, <1>3 DEF Surjection
  <2>. QED  BY <2>1, <2>2, FS_Surjection
<1>5. IsFiniteSet(Objects)
  <2>1. IsFiniteSet({"mapping"}) /\ IsFiniteSet({"transport"}) /\ IsFiniteSet({"rule"})
    BY FS_Singleton
  <2>2. IsFiniteSet(({"mapping"} \cup {"transport"}) \cup {"rule"})
    BY <2>1, FS_Union
  <2>3. Objects = (({"mapping"} \cup {"transport"}) \cup {"rule"}) \cup Policies
    BY DEF Objects
  <2>. QED  BY <1>4, <2>2, <2>3, FS_Union
<1>6. MaxPk \in Nat
  <2>1. Cardinality(Objects) \in Nat /\ MaxStarts \in Nat
    BY <1>5, FS_CardinalityType, Configuration
  <2>. QED  BY <2>1 DEF MaxPk
<1>. QED  BY <1>2, <1>3, <1>4, <1>5, <1>6 DEF Objects, Pks

\* The fields of a process.
LEMMA ProcTypes ==
  ASSUME TypeOK, NEW p \in Processes
  PROVE  /\ proc[p].at \in {"off", "waiting", "leading"} \cup Ensuring \cup Cleaning
         /\ proc[p].stage \in {"find", "write"}
         /\ proc[p].n \in 1 .. Len(eventMatcherActions) /\ proc[p].found \in Nat
         /\ proc[p].held \in [Ensuring -> Pks] /\ proc[p].registered \in BOOLEAN
         /\ proc[p].cleaned \in BOOLEAN /\ proc[p].faulted \in BOOLEAN
         /\ Policy(p) \in Policies
BY ConfigurationTypes DEF TypeOK, Policy

LEMMA EnsureSteps ==
  ASSUME NEW p \in Processes, TypeOK, EnsureEventWebhookConfig(p)
  PROVE  EnsureStep(p)
<1>1. proc[p].at \in Ensuring
  BY DEF EnsureEventWebhookConfig, ensureWebhookHeadersMapping, ensureTransport, ensureRule,
     ensureSingleEventMatcher, ensurePolicyBinding, Ensuring
<1>2. ASSUME NEW key, List(p, key)
      PROVE  Looks(p, key) \/ (Fails1(p) /\ Same)
  BY <1>2 DEF List, Looks, Fault, Fails1, Fails, Same
<1>3. ASSUME NEW key, List(p, key), key = pk[Item(p)], proc[p].at \in Writing
      PROVE  EnsureStep(p)
  BY <1>1, <1>2, <1>3 DEF EnsureStep
<1>4. ASSUME NEW at, NEW mapping, NEW transport, Put(p, Item(p), at, mapping, transport),
             proc[p].at \in Writing, at = After(proc[p].at),
             proc[p].at = "policy" => proc[p].found = 0,
             mapping = IF proc[p].at = "transport" THEN proc[p].held["mapping"] ELSE mappingOf,
             transport = IF proc[p].at = "rule" THEN proc[p].held["transport"] ELSE transportOf,
             proc[p].at = "rule" => Kept(proc[p].held["transport"])
      PROVE  EnsureStep(p)
  <2>1. proc[p].stage = "write"
    BY <1>4 DEF Put
  <2>2. CASE proc[p].found # 0 /\ pk[Item(p)] = proc[p].found
    <3> DEFINE Update == mappingOf' = mapping /\ transportOf' = transport
                         /\ UNCHANGED bindings /\ UNCHANGED <<pk, lastPk, undone>>
    <3>1. (Update /\ GoOn(p, at, proc[p].found)) \/ Fault(p, Update)
      BY <1>4, <2>2 DEF Put
    <3>2. Update => Puts(p) /\ pk'[Item(p)] = proc[p].found
      BY <1>4, <2>1, <2>2 DEF Puts
    <3> HIDE DEF Update
    <3>3. CASE Fault(p, Update)
      BY <1>1, <3>2, <3>3 DEF Fault, EnsureStep, Fails1, Fails, Same
    <3>4. CASE Update /\ GoOn(p, at, proc[p].found)
      BY <1>4, <3>2, <3>4 DEF EnsureStep
    <3>. QED  BY <3>1, <3>3, <3>4
  <2>3. CASE proc[p].found = 0 /\ pk[Item(p)] = 0
    <3> DEFINE New == Create(Item(p)) /\ mappingOf' = mapping /\ transportOf' = transport
                      /\ UNCHANGED bindings
    <3>1. (New /\ GoOn(p, at, lastPk')) \/ Fault(p, New)
      BY <1>4, <2>3 DEF Put
    <3>2. New => Puts(p) /\ pk'[Item(p)] = lastPk'
      BY <1>4, <2>1, <2>3, ConfigurationTypes, ProcTypes
         DEF Puts, Create, Item, TypeOK, Writing, Objects
    <3> HIDE DEF New
    <3>3. CASE Fault(p, New)
      BY <1>1, <3>2, <3>3 DEF Fault, EnsureStep, Fails1, Fails, Same
    <3>4. CASE New /\ GoOn(p, at, lastPk')
      BY <1>4, <3>2, <3>4 DEF EnsureStep
    <3>. QED  BY <3>1, <3>3, <3>4
  <2>4. CASE proc[p].found # 0 /\ pk[Item(p)] # proc[p].found
    <3>1. Reject(p)
      BY <1>4, <2>4 DEF Put
    <3>2. Refused(p)
      BY <1>4, <2>1, <2>4 DEF Refused
    <3>. QED  BY <3>1, <3>2 DEF Reject, EnsureStep, Fails, Same
  <2>5. CASE proc[p].found = 0 /\ pk[Item(p)] # 0
    <3>1. Reject(p)
      BY <1>4, <2>5 DEF Put
    <3>2. Refused(p)
      BY <1>4, <2>1, <2>5 DEF Refused
    <3>. QED  BY <3>1, <3>2 DEF Reject, EnsureStep, Fails, Same
  <2>. QED  BY <2>2, <2>3, <2>4, <2>5
<1>5. CASE ensureWebhookHeadersMapping(p)
  <2>1. proc[p].at = "mapping" /\ Item(p) = "mapping" /\ After(proc[p].at) = "transport"
    BY <1>5 DEF ensureWebhookHeadersMapping, Item, After
  <2>. QED  BY <1>3, <1>4, <1>5, <2>1 DEF ensureWebhookHeadersMapping, Writing
<1>6. CASE ensureTransport(p)
  <2>1. proc[p].at = "transport" /\ Item(p) = "transport" /\ After(proc[p].at) = "rule"
    BY <1>6 DEF ensureTransport, Item, After
  <2>. QED  BY <1>3, <1>4, <1>6, <2>1 DEF ensureTransport, Writing
<1>7. CASE ensureRule(p)
  <2>1. proc[p].at = "rule" /\ Item(p) = "rule" /\ After(proc[p].at) = "policy"
    BY <1>7 DEF ensureRule, Item, After
  <2>2. CASE ~Kept(proc[p].held["transport"]) /\ proc[p].stage = "write" /\ Reject(p)
    BY <2>1, <2>2 DEF Reject, EnsureStep, Fails, Same, Refused
  <2>. QED  BY <1>3, <1>4, <1>7, <2>1, <2>2 DEF ensureRule, Writing
<1>8. CASE ensureSingleEventMatcher(p)
  <2>1. proc[p].at = "policy" /\ Item(p) = Policy(p) /\ After(proc[p].at) = "binding"
    BY <1>8 DEF ensureSingleEventMatcher, Item, After
  <2>2. CASE proc[p].stage = "write" /\ proc[p].found # 0
             /\ GoOn(p, "binding", proc[p].found) /\ UNCHANGED authentik
    BY <2>1, <2>2 DEF EnsureStep, Same
  <2>. QED  BY <1>3, <1>4, <1>8, <2>1, <2>2 DEF ensureSingleEventMatcher, Writing
<1>9. CASE ensurePolicyBinding(p)
  <2>1. proc[p].at = "binding"
    BY <1>9 DEF ensurePolicyBinding
  <2> DEFINE policy == proc[p].held["policy"]
             Bind == /\ bindings' = bindings \cup {Binding(p)}
                     /\ UNCHANGED <<pk, mappingOf, transportOf, lastPk, undone>>
  <2>2. CASE proc[p].stage = "find" /\ (\E b \in Bound(p) : b.policy = policy)
             /\ ((NextAction(p) /\ UNCHANGED authentik) \/ Fault(p, FALSE))
    <3>1. CASE Fault(p, FALSE)
      BY <1>1, <3>1 DEF EnsureStep, Fault, Fails1, Fails, Same
    <3>2. CASE NextAction(p) /\ UNCHANGED authentik
      BY <2>1, <2>2, <3>2 DEF EnsureStep, Same
    <3>. QED  BY <2>2, <3>1, <3>2
  <2>3. CASE (\A b \in Bound(p) : b.policy # policy) /\ List(p, Cardinality(Bound(p)))
    BY <1>1, <1>2, <2>1, <2>3 DEF EnsureStep
  <2>4. CASE proc[p].stage = "write" /\ Kept(policy) /\ Kept(Target(p))
             /\ Binding(p) \notin bindings
             /\ ((Bind /\ NextAction(p)) \/ Fault(p, Bind))
    <3>1. Bind => Binds(p)
      BY <2>1, <2>4 DEF Binds
    <3> HIDE DEF Bind
    <3>. QED  BY <1>1, <2>4, <3>1 DEF EnsureStep, Fault, Fails1, Fails, Same
  <2>5. CASE proc[p].stage = "write" /\ Reject(p)
             /\ ~(Kept(policy) /\ Kept(Target(p)) /\ Binding(p) \notin bindings)
    BY <2>1, <2>5 DEF Reject, EnsureStep, Fails, Same, Refused
  <2>. QED  BY <1>9, <2>2, <2>3, <2>4, <2>5 DEF ensurePolicyBinding, Binding
<1>. QED  BY <1>5, <1>6, <1>7, <1>8, <1>9 DEF EnsureEventWebhookConfig

LEMMA CleanupSteps ==
  ASSUME NEW p \in Processes, TypeOK, CleanupEventWebhookConfig(p)
  PROVE  CleanupStep(p)
<1>1. proc[p].at \in Cleaning
  BY DEF CleanupEventWebhookConfig
<1>2. CASE List(p, pk[Doomed(p)])
  BY <1>1, <1>2 DEF List, Looks, Fault, Fails1, Fails, Same, CleanupStep
<1>3. CASE DestroyFound(p)
  BY <1>1, <1>3 DEF DestroyFound, CleanupStep, Fault, Fails1, Fails, Same, Reject
<1>. QED  BY <1>2, <1>3 DEF CleanupEventWebhookConfig

LEMMA NextCases ==
  ASSUME TypeOK, [Next]_vars
  PROVE  \/ \E p \in Processes : /\ UNCHANGED undeletable
                                 /\ Start(p) \/ (Runs(p) /\ UNCHANGED shared)
         \/ UNCHANGED vars
BY EnsureSteps, CleanupSteps DEF Next, Runs

-----------------------------------------------------------------------------
(* Writes that are not deletions *)

\* What is there stays, what comes has a new key, a binding is between what is
\* there, and a rule refers to the transport that is there.
Grows ==
  /\ undone' = undone /\ lastPk' \in Pks /\ lastPk <= lastPk'
  /\ pk' \in [Objects -> Pks] /\ mappingOf' \in Pks /\ transportOf' \in Pks
  /\ \A o \in Objects :
       pk'[o] = pk[o] \/ (pk[o] = 0 /\ lastPk' = lastPk + 1 /\ pk'[o] = lastPk')
  /\ bindings \subseteq bindings' /\ IsFiniteSet(bindings')
  /\ bindings' \subseteq
       [policy : Pks \ {0}, target : {pk'["rule"]} \ {0}, order : Nat]
  /\ transportOf' = transportOf \/ (transportOf' = pk["transport"] /\ transportOf' # 0)
  /\ KeysInv'

LEMMA SameGrows ==
  ASSUME WebhookInv, Same
  PROVE  Grows
BY ConfigurationTypes DEF WebhookInv, TypeOK, Same, authentik, Grows, KeysInv, Pks

\* A key a process holds for the transport or the rule is of no other object.
LEMMA KeptHeld ==
  ASSUME WebhookInv, NEW p \in Processes
  PROVE  /\ Kept(proc[p].held["transport"]) => proc[p].held["transport"] = pk["transport"]
         /\ Kept(proc[p].held["rule"]) => proc[p].held["rule"] = pk["rule"]
<1>1. HeldInv(p)
  BY DEF WebhookInv
<1>. QED  BY <1>1 DEF HeldInv, Kept

LEMMA BindsGrows ==
  ASSUME WebhookInv, NEW p \in Processes, Binds(p)
  PROVE  Grows
<1> USE ConfigurationTypes
<1>1. TypeOK /\ KeysInv
  BY DEF WebhookInv
<1>2. /\ proc[p].held["policy"] \in Pks \ {0} /\ Target(p) = pk["rule"] /\ Target(p) # 0
      /\ proc[p].found \in Nat /\ \E o \in Objects : pk[o] = proc[p].held["policy"]
  <2>1. proc[p].held["policy"] \in Pks /\ proc[p].found \in Nat
    BY <1>1, ProcTypes DEF Ensuring
  <2>. QED  BY <2>1, KeptHeld DEF Binds, Kept, Target
<1>3. Binding(p) \in [policy : Pks \ {0}, target : {pk["rule"]} \ {0}, order : Nat]
  BY <1>2 DEF Binding
<1>4. IsFiniteSet(bindings')
  BY <1>1, FS_AddElement DEF TypeOK, Binds
<1>5. KeysInv'
  <2>1. \A b \in bindings' : \E o \in Objects : pk[o] = b.policy
    BY <1>1, <1>2 DEF Binds, Binding, KeysInv
  <2>. QED  BY <1>1, <2>1 DEF Binds, KeysInv
<1>6. /\ UNCHANGED <<pk, mappingOf, transportOf, lastPk, undone>>
      /\ bindings' = bindings \cup {Binding(p)}
  BY DEF Binds
<1>7. /\ lastPk \in Pks /\ lastPk <= lastPk /\ pk \in [Objects -> Pks]
      /\ mappingOf \in Pks /\ transportOf \in Pks
      /\ bindings \subseteq [policy : Pks \ {0}, target : {pk["rule"]} \ {0}, order : Nat]
  BY <1>1 DEF TypeOK, Pks
<1>. QED  BY <1>3, <1>4, <1>5, <1>6, <1>7 DEF Grows

LEMMA PutsGrows ==
  ASSUME WebhookInv, NEW p \in Processes, Puts(p)
  PROVE  Grows
<1> USE ConfigurationTypes
<1> DEFINE held == proc[p].held
           o == Item(p)
<1>1. TypeOK /\ KeysInv /\ HeldInv(p)
  BY DEF WebhookInv
<1>2. /\ held \in [Ensuring -> Pks] /\ o \in Objects /\ Policy(p) \in Policies
      /\ proc[p].at \in Writing
  BY <1>1, ProcTypes DEF Puts, Item, Writing, Objects
<1>3. /\ pk \in [Objects -> Pks] /\ lastPk \in Pks /\ MaxPk \in Nat
      /\ mappingOf \in Pks /\ transportOf \in Pks /\ IsFiniteSet(bindings)
      /\ bindings \subseteq [policy : Pks \ {0}, target : {pk["rule"]} \ {0}, order : Nat]
  BY <1>1 DEF TypeOK
<1>4. /\ bindings' = bindings /\ undone' = undone
      /\ mappingOf' = IF proc[p].at = "transport" THEN held["mapping"] ELSE mappingOf
      /\ transportOf' = IF proc[p].at = "rule" THEN held["transport"] ELSE transportOf
      /\ proc[p].at = "rule" => Kept(held["transport"])
  BY DEF Puts
<1>5. \/ UNCHANGED <<pk, lastPk>>
      \/ /\ pk[o] = 0 /\ lastPk < MaxPk
         /\ lastPk' = lastPk + 1 /\ pk' = [pk EXCEPT ![o] = lastPk']
  BY DEF Puts
<1>6. /\ lastPk' \in Pks /\ lastPk <= lastPk' /\ pk' \in [Objects -> Pks]
      /\ \A x \in Objects :
           pk'[x] = pk[x] \/ (pk[x] = 0 /\ lastPk' = lastPk + 1 /\ pk'[x] = lastPk')
  BY <1>2, <1>3, <1>5 DEF Pks
<1>7. mappingOf' \in Pks /\ transportOf' \in Pks
  BY <1>2, <1>3, <1>4 DEF Ensuring
<1>8. transportOf' = transportOf \/ (transportOf' = pk["transport"] /\ transportOf' # 0)
  BY <1>4, KeptHeld DEF Kept
<1>9. bindings' \subseteq [policy : Pks \ {0}, target : {pk'["rule"]} \ {0}, order : Nat]
  <2>1. ASSUME NEW b \in bindings
        PROVE  b \in [policy : Pks \ {0}, target : {pk'["rule"]} \ {0}, order : Nat]
    <3>1. pk["rule"] # 0
      BY <1>3
    <3>2. pk'["rule"] = pk["rule"]
      BY <1>6, <3>1
    <3>. QED  BY <1>3, <3>2
  <2>. QED  BY <1>4, <2>1
<1>10. KeysInv'
  <2>1. /\ \A o1, o2 \in Objects : pk'[o1] = pk'[o2] /\ pk'[o1] # 0 => o1 = o2
        /\ \A x \in Objects : pk'[x] <= lastPk'
    <3>1. CASE UNCHANGED <<pk, lastPk>>
      BY <1>1, <3>1 DEF KeysInv
    <3>2. CASE lastPk' = lastPk + 1 /\ pk' = [pk EXCEPT ![o] = lastPk']
      <4>1. \A x \in Objects : pk[x] \in Nat /\ pk[x] <= lastPk
        BY <1>1, <1>3 DEF KeysInv, Pks
      <4>2. lastPk \in Nat
        BY <1>3 DEF Pks
      <4>3. \A x \in Objects : pk'[x] = IF x = o THEN lastPk + 1 ELSE pk[x]
        BY <1>2, <1>3, <3>2
      <4> HIDE DEF o
      <4>4. ASSUME NEW o1 \in Objects, NEW o2 \in Objects, pk'[o1] = pk'[o2], pk'[o1] # 0
            PROVE  o1 = o2
        <5>1. CASE o1 = o \/ o2 = o
          BY <4>1, <4>2, <4>3, <4>4, <5>1
        <5>2. CASE o1 # o /\ o2 # o
          BY <1>1, <4>3, <4>4, <5>2 DEF KeysInv
        <5>. QED  BY <5>1, <5>2
      <4>. QED  BY <3>2, <4>1, <4>2, <4>3, <4>4
    <3>. QED  BY <1>5, <3>1, <3>2
  <2>2. \A b \in bindings' : \E x \in Objects : pk'[x] = b.policy
    <3> SUFFICES ASSUME NEW b \in bindings PROVE \E x \in Objects : pk'[x] = b.policy
      BY <1>4
    <3>1. PICK x \in Objects : pk[x] = b.policy /\ b.policy # 0
      BY <1>1, <1>3 DEF KeysInv
    <3>. QED  BY <1>6, <3>1
  <2>3. ASSUME Secret, pk'["transport"] # 0
        PROVE  mappingOf' = pk'["mapping"] /\ mappingOf' # 0
    <3>1. CASE proc[p].at = "transport"
      <4>1. held["mapping"] # 0 /\ held["mapping"] = pk["mapping"]
        BY <1>1, <2>3, <3>1 DEF HeldInv
      <4>. QED  BY <1>4, <1>6, <3>1, <4>1
    <3>2. CASE proc[p].at # "transport"
      <4>1. o # "transport"
        BY <1>2, <3>2, Configuration DEF Item, Writing
      <4>2. pk["transport"] # 0
        BY <1>2, <1>3, <1>5, <2>3, <4>1
      <4>3. mappingOf = pk["mapping"] /\ mappingOf # 0
        BY <1>1, <2>3, <4>2 DEF KeysInv
      <4>. QED  BY <1>4, <1>6, <3>2, <4>3
    <3>. QED  BY <3>1, <3>2
  <2>. QED  BY <2>1, <2>2, <2>3 DEF KeysInv
<1>. QED  BY <1>3, <1>4, <1>6, <1>7, <1>8, <1>9, <1>10 DEF Grows

-----------------------------------------------------------------------------
(* Deletions, and what every write leaves alone *)

\* What a write may do to Authentik: keys come, or go unless it is the mapping's.
Changes ==
  /\ pk' \in [Objects -> Pks] /\ mappingOf' \in Pks /\ transportOf' \in Pks
  /\ lastPk' \in Pks /\ lastPk <= lastPk' /\ undone' \subseteq Pods
  /\ IsFiniteSet(bindings')
  /\ bindings' \subseteq
       [policy : Pks \ {0}, target : {pk'["rule"]} \ {0}, order : Nat]
  /\ \A o \in Objects :
       \/ pk'[o] = pk[o] \/ (pk'[o] = 0 /\ o # "mapping")
       \/ pk[o] = 0 /\ lastPk' = lastPk + 1 /\ pk'[o] = lastPk'
  /\ KeysInv'

LEMMA GrowsChanges ==
  ASSUME WebhookInv, Grows
  PROVE  Changes
BY DEF WebhookInv, TypeOK, Grows, Changes

LEMMA Destroys ==
  ASSUME WebhookInv, NEW p \in Processes, proc[p].at \in Cleaning, Destroy(Doomed(p))
  PROVE  /\ Changes /\ undone' = Running \cap Pods /\ Doomed(p) \in Objects
         /\ \A o \in Objects : pk'[o] = IF o = Doomed(p) THEN 0 ELSE pk[o]
<1> USE ConfigurationTypes
<1> DEFINE o == Doomed(p)
<1>1. TypeOK /\ KeysInv
  BY DEF WebhookInv
<1>2. o \in Objects /\ o # "mapping"
  BY <1>1, ProcTypes, Configuration DEF Doomed, Cleaning
<1> HIDE DEF o
<1>3. /\ pk \in [Objects -> Pks] /\ lastPk \in Pks /\ MaxPk \in Nat
      /\ mappingOf \in Pks /\ transportOf \in Pks /\ IsFiniteSet(bindings)
      /\ bindings \subseteq [policy : Pks \ {0}, target : {pk["rule"]} \ {0}, order : Nat]
  BY <1>1 DEF TypeOK
<1>4. /\ pk' = [pk EXCEPT ![o] = 0] /\ lastPk' = lastPk
      /\ bindings' = {b \in bindings : pk[o] \notin {b.policy, b.target}}
      /\ transportOf' = IF pk[o] = transportOf THEN 0 ELSE transportOf
      /\ mappingOf' = IF o = "transport" THEN 0 ELSE mappingOf
      /\ undone' = {q \in Pods : proc[q].at # "off"}
  BY DEF Destroy, o
<1>5. /\ pk' \in [Objects -> Pks]
      /\ \A x \in Objects : pk'[x] = IF x = o THEN 0 ELSE pk[x]
  BY <1>2, <1>3, <1>4
<1>6. /\ mappingOf' \in Pks /\ transportOf' \in Pks /\ lastPk' \in Pks
      /\ lastPk <= lastPk'
  BY <1>3, <1>4 DEF Pks
<1>7. undone' = Running \cap Pods
  BY <1>4 DEF Running, Processes
<1>8. IsFiniteSet(bindings')
  BY <1>3, <1>4, FS_Subset
<1>9. bindings' \subseteq [policy : Pks \ {0}, target : {pk'["rule"]} \ {0}, order : Nat]
  <2>1. ASSUME NEW b \in bindings'
        PROVE  b \in [policy : Pks \ {0}, target : {pk'["rule"]} \ {0}, order : Nat]
    <3>1. b \in bindings /\ b.target # pk[o]
      BY <1>4
    <3>2. b \in [policy : Pks \ {0}, target : {pk["rule"]} \ {0}, order : Nat]
      BY <1>3, <3>1
    <3>3. o # "rule" /\ pk'["rule"] = pk["rule"]
      BY <1>5, <3>1, <3>2
    <3>. QED  BY <3>2, <3>3
  <2>. QED  BY <2>1
<1>10. KeysInv'
  <2>1. /\ \A o1, o2 \in Objects : pk'[o1] = pk'[o2] /\ pk'[o1] # 0 => o1 = o2
        /\ \A x \in Objects : pk'[x] <= lastPk'
    BY <1>1, <1>3, <1>4, <1>5 DEF KeysInv, Pks
  <2>2. \A b \in bindings' : \E x \in Objects : pk'[x] = b.policy
    BY <1>1, <1>4, <1>5 DEF KeysInv
  <2>3. Secret /\ pk'["transport"] # 0 => mappingOf' = pk'["mapping"] /\ mappingOf' # 0
    BY <1>1, <1>2, <1>4, <1>5 DEF KeysInv
  <2>. QED  BY <2>1, <2>2, <2>3 DEF KeysInv
<1>11. undone' \subseteq Pods
  BY <1>4
<1>. QED  BY <1>2, <1>5, <1>6, <1>7, <1>8, <1>9, <1>10, <1>11 DEF Changes, o

\* The keys h are as HeldInv wants them after the step.
Fits(h) ==
  /\ \A s \in Ensuring : h[s] <= lastPk'
  /\ \A o \in Objects : pk'[o] # 0 => /\ pk'[o] = h["transport"] => o = "transport"
                                      /\ pk'[o] = h["rule"] => o = "rule"
  /\ h["mapping"] # 0 => h["mapping"] = pk'["mapping"]

\* What a process holds is still right after a step.
LEMMA HeldFits ==
  ASSUME WebhookInv, Changes, NEW q \in Processes
  PROVE  Fits(proc[q].held)
<1> USE ConfigurationTypes
<1>1. TypeOK /\ HeldInv(q) /\ KeysInv
  BY DEF WebhookInv
<1> DEFINE held == proc[q].held
<1>2. held \in [Ensuring -> Pks] /\ lastPk \in Pks /\ lastPk' \in Pks
  BY <1>1, ProcTypes DEF Changes, TypeOK
<1>3. \A s \in Ensuring : held[s] <= lastPk /\ held[s] \in Nat
  BY <1>1, <1>2 DEF HeldInv, Pks
<1>4. \A s \in Ensuring : held[s] <= lastPk'
  BY <1>2, <1>3 DEF Changes, Pks
<1>5. \A o \in Objects : pk'[o] # 0 =>
        \/ pk'[o] = pk[o] \/ \A s \in Ensuring : held[s] # pk'[o]
  BY <1>2, <1>3 DEF Changes, Pks
<1>6. \A o \in Objects : pk'[o] # 0 => /\ pk'[o] = held["transport"] => o = "transport"
                                       /\ pk'[o] = held["rule"] => o = "rule"
  BY <1>1, <1>5 DEF HeldInv, Ensuring
<1>7. held["mapping"] # 0 => held["mapping"] = pk'["mapping"]
  BY <1>1 DEF HeldInv, Changes
<1>. QED  BY <1>4, <1>6, <1>7 DEF Fits

LEMMA OthersHold ==
  ASSUME WebhookInv, Changes, NEW q \in Processes, proc'[q] = proc[q]
  PROVE  HeldInv(q)'
<1>1. TypeOK /\ HeldInv(q)
  BY DEF WebhookInv
<1>2. Fits(proc'[q].held)
  BY HeldFits
<1>3. proc[q].at \in Writing /\ proc[q].stage = "write" => proc[q].found <= lastPk'
  BY <1>1, ProcTypes, ConfigurationTypes DEF HeldInv, Changes, Pks, TypeOK
<1>. QED  BY <1>1, <1>2, <1>3 DEF HeldInv, Fits

LEMMA BoundStays ==
  ASSUME WebhookInv, Grows, NEW o \in Objects, IsBound(o)
  PROVE  IsBound(o)'
<1> USE ConfigurationTypes
<1>1. PICK b \in bindings : b.policy = pk[o] /\ b.target = pk["rule"]
  BY DEF IsBound
<1>2. b.policy # 0 /\ b.target # 0
  BY DEF WebhookInv, TypeOK
<1>3. pk'[o] = pk[o] /\ pk'["rule"] = pk["rule"] /\ b \in bindings'
  BY <1>1, <1>2 DEF Grows
<1>. QED  BY <1>1, <1>3 DEF IsBound

LEMMA OthersProgress ==
  ASSUME WebhookInv, Grows, NEW q \in Pods \ undone, proc'[q] = proc[q]
  PROVE  ProgressInv(q)'
<1> USE ConfigurationTypes
<1>1. /\ TypeOK /\ ProgressInv(q) /\ q \in Processes
      /\ proc[q].n \in 1 .. Len(eventMatcherActions) /\ Policy(q) \in Policies
  BY ProcTypes DEF WebhookInv, Processes
<1>2. \A o \in Objects : pk[o] # 0 => pk'[o] = pk[o]
  BY DEF Grows
<1>3. Policy(q)' = Policy(q) /\ Item(q)' = Item(q)
  BY DEF Policy, Item
<1>4. \A i \in 1 .. proc[q].n - 1 :
        IsBound(eventMatcherActions[i]) => IsBound(eventMatcherActions[i])'
  BY <1>1, BoundStays
<1>5. \A o \in Policies : IsBound(o) => IsBound(o)'
  BY BoundStays
<1>6. pk["transport"] # 0 /\ transportOf = pk["transport"] =>
        transportOf' = pk'["transport"] /\ pk'["transport"] = pk["transport"]
  BY <1>2 DEF Grows
<1>7. proc[q].at \in Writing => Item(q) \in Objects
  BY <1>1 DEF Item, Writing, Objects
<1>. QED  BY <1>1, <1>2, <1>3, <1>4, <1>5, <1>6, <1>7 DEF ProgressInv

-----------------------------------------------------------------------------
(* Type correctness *)

ProcType ==
  [at : {"off", "waiting", "leading"} \cup Ensuring \cup Cleaning,
   stage : {"find", "write"}, n : 1 .. Len(eventMatcherActions), found : Nat,
   held : [Ensuring -> Pks], registered : BOOLEAN, cleaned : BOOLEAN,
   faulted : BOOLEAN]

SpentType == [starts : 0 .. MaxStarts, stops : 0 .. MaxStops, faults : 0 .. MaxFaults]

LEMMA OffType == Off \in ProcType
BY ConfigurationTypes DEF Off, ProcType

LEMMA BoundCount ==
  ASSUME TypeOK, NEW p
  PROVE  Cardinality(Bound(p)) \in Nat
BY FS_Subset, FS_CardinalityType DEF TypeOK, Bound

LEMMA LeaderTypes ==
  ASSUME TypeOK, NEW p, leader' \in {leader, leader \ {p}} \/ (leader' = {p} /\ p \in Pods)
  PROVE  leader' \subseteq Pods /\ Cardinality(leader') <= 1
<1>1. leader \subseteq Pods /\ Cardinality(leader) <= 1 /\ IsFiniteSet(leader)
  BY FS_Subset, Configuration DEF TypeOK
<1>2. Cardinality(leader) \in Nat
  BY <1>1, FS_CardinalityType
<1>3. CASE leader' \in {leader, leader \ {p}}
  <2>1. leader' \in SUBSET leader
    BY <1>3
  <2>2. Cardinality(leader') <= Cardinality(leader) /\ IsFiniteSet(leader')
    BY <1>1, <2>1, FS_Subset
  <2>3. Cardinality(leader') \in Nat
    BY <2>2, FS_CardinalityType
  <2>. QED  BY <1>1, <1>2, <2>1, <2>2, <2>3
<1>4. CASE leader' = {p} /\ p \in Pods
  <2>1. Cardinality({p}) = 1
    BY FS_Singleton, Zenon
  <2>. QED  BY <1>4, <2>1
<1>. QED  BY <1>3, <1>4

\* The process that takes a step.
LEMMA OwnType ==
  ASSUME WebhookInv, NEW p \in Processes, Runs(p), Changes
  PROVE  proc' \in [Processes -> ProcType] /\ proc' = [proc EXCEPT ![p] = proc'[p]]
<1> USE ConfigurationTypes
<1>1. /\ TypeOK /\ proc \in [Processes -> ProcType] /\ proc[p] \in ProcType
      /\ pk \in [Objects -> Pks] /\ pk' \in [Objects -> Pks] /\ MaxPk \in Nat
  BY DEF WebhookInv, TypeOK, ProcType, Changes
<1> DEFINE To(r) == proc' = [proc EXCEPT ![p] = r]
<1>2. SUFFICES \E r \in ProcType : To(r)
  BY <1>1
<1>3. ASSUME NEW fault \in BOOLEAN, Fails(p, fault)
      PROVE  Failed(p, fault) \in ProcType /\ To(Failed(p, fault))
  BY <1>1, <1>3, OffType DEF Failed, ProcType, Fails
<1>4. ASSUME NEW key \in Nat, Looks(p, key)
      PROVE  \E r \in ProcType : To(r)
  <2>1. [proc[p] EXCEPT !.found = key, !.stage = "write"] \in ProcType
    BY <1>1 DEF ProcType
  <2>. QED  BY <1>4, <2>1 DEF Looks
<1>5. ASSUME NEW at \in Ensuring, NEW k \in Pks, GoOn(p, at, k), proc[p].at \in Ensuring
      PROVE  \E r \in ProcType : To(r)
  <2>1. [proc[p] EXCEPT !.at = at, !.stage = "find", !.found = 0, !.held[proc[p].at] = k]
           \in ProcType
    BY <1>1, <1>5 DEF ProcType
  <2>2. To([proc[p] EXCEPT !.at = at, !.stage = "find", !.found = 0,
                           !.held[proc[p].at] = k])
    BY <1>1, <1>5 DEF GoOn, ProcType
  <2>. QED  BY <2>1, <2>2
<1>6. ASSUME NextAction(p)
      PROVE  \E r \in ProcType : To(r)
  <2>1. CASE proc[p].n = Len(eventMatcherActions)
    <3>1. [proc[p] EXCEPT !.at = "waiting", !.stage = "find", !.registered = TRUE] \in ProcType
      BY <1>1 DEF ProcType
    <3>. QED  BY <1>1, <1>6, <2>1, <3>1 DEF NextAction
  <2>2. CASE proc[p].n # Len(eventMatcherActions)
    <3>1. proc[p].n + 1 \in 1 .. Len(eventMatcherActions)
      BY <1>1, <2>2 DEF ProcType
    <3>2. [proc[p] EXCEPT !.n = @ + 1, !.at = "policy", !.stage = "find", !.found = 0]
             \in ProcType
      BY <1>1, <3>1 DEF ProcType, Ensuring
    <3>3. To([proc[p] EXCEPT !.n = @ + 1, !.at = "policy", !.stage = "find", !.found = 0])
      BY <1>6, <2>2 DEF NextAction
    <3>. QED  BY <3>2, <3>3
  <2>. QED  BY <2>1, <2>2
<1>7. ASSUME NextObject(p), proc[p].at \in Cleaning
      PROVE  \E r \in ProcType : To(r)
  <2>1. Cleaned(p) \in ProcType
    <3>1. [Off EXCEPT !.cleaned = TRUE] \in ProcType
      BY OffType DEF ProcType
    <3>2. /\ [proc[p] EXCEPT !.at = "cleanTransport", !.stage = "find"] \in ProcType
          /\ [proc[p] EXCEPT !.at = "cleanRule", !.stage = "find"] \in ProcType
      BY <1>1 DEF ProcType, Cleaning
    <3>3. CASE proc[p].n # Len(eventMatcherActions)
      <4>1. proc[p].n + 1 \in 1 .. Len(eventMatcherActions)
        BY <1>1, <3>3 DEF ProcType
      <4>2. [proc[p] EXCEPT !.n = @ + 1, !.stage = "find"] \in ProcType
        BY <1>1, <4>1 DEF ProcType
      <4>. QED  BY <1>7, <3>1, <3>2, <4>2 DEF Cleaned, Cleaning
    <3>. QED  BY <1>7, <3>1, <3>2, <3>3 DEF Cleaned, Cleaning
  <2>. QED  BY <1>7, <2>1 DEF NextObject
<1>8. \A k \in Pks : k \in Nat
  BY DEF Pks
<1>9. CASE Lead(p)
  <2>1. [proc[p] EXCEPT !.at = "leading"] \in ProcType
    BY <1>1 DEF ProcType
  <2>. QED  BY <1>9, <2>1 DEF Lead
<1>10. CASE Terminate(p)
  <2>1. [Off EXCEPT !.at = "cleanPolicy"] \in ProcType
    BY OffType DEF ProcType, Cleaning
  <2>. QED  BY <1>10, <2>1, OffType DEF Terminate
<1>11. CASE Kill(p)
  BY <1>11, OffType DEF Kill
<1>12. CASE EnsureStep(p)
  <2>1. proc[p].at \in Writing => Item(p) \in Objects /\ After(proc[p].at) \in Ensuring
                                  /\ proc[p].at \in Ensuring
    BY <1>1, ProcTypes DEF Item, After, Writing, Objects, Ensuring
  <2>2. ASSUME proc[p].at \in Writing, Looks(p, pk[Item(p)])
        PROVE  \E r \in ProcType : To(r)
    BY <1>1, <1>4, <1>8, <2>1, <2>2
  <2>3. ASSUME Looks(p, Cardinality(Bound(p)))
        PROVE  \E r \in ProcType : To(r)
    BY <1>1, <1>4, <2>3, BoundCount
  <2>4. ASSUME Puts(p), GoOn(p, After(proc[p].at), pk'[Item(p)])
        PROVE  \E r \in ProcType : To(r)
    BY <1>1, <1>5, <2>1, <2>4 DEF Puts
  <2>5. ASSUME proc[p].at = "policy", proc[p].found # 0, proc[p].stage = "write",
               GoOn(p, "binding", proc[p].found)
        PROVE  \E r \in ProcType : To(r)
    <3>1. proc[p].found \in Pks /\ "binding" \in Ensuring /\ proc[p].at \in Ensuring
      <4>1. HeldInv(p) /\ proc[p].found \in Nat /\ lastPk \in Pks
        BY <1>1, ProcTypes DEF WebhookInv, TypeOK
      <4>2. proc[p].found <= lastPk
        BY <2>5, <4>1 DEF HeldInv, Writing
      <4>. QED  BY <2>5, <4>1, <4>2 DEF Pks, Ensuring
    <3>. QED  BY <1>5, <2>5, <3>1
  <2>. QED  BY <1>3, <1>6, <1>12, <2>2, <2>3, <2>4, <2>5 DEF EnsureStep, Fails1
<1>13. CASE CleanupStep(p)
  <2>1. Doomed(p) \in Objects
    BY <1>1, <1>13, ProcTypes DEF CleanupStep, Doomed, Cleaning
  <2>2. pk[Doomed(p)] \in Nat
    BY <1>1, <1>8, <2>1
  <2>. QED  BY <1>3, <1>4, <1>7, <1>13, <2>2 DEF CleanupStep, Fails1
<1>. QED  BY <1>9, <1>10, <1>11, <1>12, <1>13 DEF Runs

\* What a step of a process that runs does to all the rest.
LEMMA RunsEffect ==
  ASSUME WebhookInv, NEW p \in Processes, Runs(p)
  PROVE  /\ p \in Running /\ Changes
         /\ Grows \/ (/\ proc[p].at \in Cleaning /\ undone' = Running \cap Pods
                      /\ Doomed(p) \in Objects
                      /\ \A o \in Objects : pk'[o] = IF o = Doomed(p) THEN 0 ELSE pk[o])
         /\ leader' \in {leader, leader \ {p}} \/ (leader' = {p} /\ p \in Pods)
         /\ spent' \in SpentType /\ spent'.starts = spent.starts
         /\ spent'.faults = 0 => spent.faults = 0
         /\ spent'.stops = 0 => spent.stops = 0
<1> USE ConfigurationTypes
<1>1. TypeOK /\ HeldInv(p)
  BY DEF WebhookInv
<1>2. spent \in SpentType
  BY <1>1 DEF TypeOK, SpentType
<1>3. ASSUME Same
      PROVE  Changes /\ Grows
  BY <1>3, SameGrows, GrowsChanges
<1>4. ASSUME Puts(p) \/ Binds(p)
      PROVE  Changes /\ Grows
  BY <1>4, PutsGrows, BindsGrows, GrowsChanges
<1> DEFINE Leaves == leader' \in {leader, leader \ {p}}
           Spends == /\ spent' \in SpentType /\ spent'.starts = spent.starts
                     /\ spent'.faults = 0 => spent.faults = 0
                     /\ spent'.stops = 0 => spent.stops = 0
<1>5. ASSUME NEW fault, Fails(p, fault)
      PROVE  Leaves
  BY <1>5 DEF Fails, Ends
<1>6. ASSUME Fails1(p)
      PROVE  Leaves /\ Spends
  <2>1. spent' = [spent EXCEPT !.faults = @ + 1] /\ spent.faults < MaxFaults
    BY <1>6 DEF Fails1
  <2>2. Spends
    BY <1>2, <2>1, Configuration DEF SpentType
  <2>. QED  BY <1>5, <1>6, <2>2 DEF Fails1
<1>7. ASSUME UNCHANGED spent
      PROVE  Spends
  BY <1>2, <1>7
<1>8. CASE Lead(p)
  <2>1. p \in Running /\ p \in Pods
    BY <1>1, <1>8 DEF Lead, Running, HeldInv, Cleaning, Processes
  <2>. QED  BY <1>3, <1>7, <1>8, <2>1 DEF Lead, Same
<1>9. CASE Terminate(p)
  <2>1. spent' = [spent EXCEPT !.stops = @ + 1] /\ spent.stops < MaxStops
    BY <1>9 DEF Terminate
  <2>2. Spends
    BY <1>2, <2>1, Configuration DEF SpentType
  <2>. QED  BY <1>3, <1>9, <2>2 DEF Terminate, Same, Running
<1>10. CASE Kill(p)
  <2>1. spent' = [spent EXCEPT !.faults = @ + 1] /\ spent.faults < MaxFaults
    BY <1>10 DEF Kill
  <2>2. Spends
    BY <1>2, <2>1, Configuration DEF SpentType
  <2>. QED  BY <1>3, <1>10, <2>2 DEF Kill, Same, Running
<1>11. CASE EnsureStep(p)
  <2>1. p \in Running
    BY <1>11 DEF EnsureStep, Running, Writing, Ensuring, Refused, Puts, Binds
  <2>2. ASSUME NEW key, Looks(p, key)
        PROVE  Changes /\ Grows /\ Leaves /\ Spends
    BY <1>3, <1>7, <2>2 DEF Looks
  <2>3. ASSUME NEW at, NEW k, GoOn(p, at, k)
        PROVE  Leaves /\ Spends
    BY <1>7, <2>3 DEF GoOn
  <2>4. ASSUME NextAction(p)
        PROVE  Leaves /\ Spends
    BY <1>7, <2>4 DEF NextAction
  <2> HIDE DEF Leaves, Spends
  <2>5. Changes /\ Grows /\ Leaves /\ Spends
    BY <1>3, <1>4, <1>5, <1>6, <1>7, <1>11, <2>2, <2>3, <2>4 DEF EnsureStep
  <2>. QED  BY <2>1, <2>5 DEF Leaves, Spends
<1>12. CASE CleanupStep(p)
  <2>1. p \in Running /\ proc[p].at \in Cleaning
    BY <1>12 DEF CleanupStep, Running, Cleaning
  <2>2. ASSUME NEW key, Looks(p, key)
        PROVE  Changes /\ Grows /\ Leaves /\ Spends
    BY <1>3, <1>7, <2>2 DEF Looks
  <2>3. ASSUME NextObject(p)
        PROVE  Leaves /\ Spends
    BY <1>7, <2>3 DEF NextObject, Ends
  <2> HIDE DEF Leaves, Spends
  <2>4. CASE Destroy(Doomed(p)) /\ (NextObject(p) \/ Fails1(p))
    <3>1. Leaves /\ Spends
      BY <1>6, <2>3, <2>4
    <3>. QED  BY <2>1, <2>4, <3>1, Destroys DEF Leaves, Spends
  <2>5. CASE ~(Destroy(Doomed(p)) /\ (NextObject(p) \/ Fails1(p)))
    <3>1. Changes /\ Grows /\ Leaves /\ Spends
      BY <1>3, <1>5, <1>6, <1>7, <1>12, <2>2, <2>3, <2>5 DEF CleanupStep
    <3>. QED  BY <2>1, <3>1 DEF Leaves, Spends
  <2>. QED  BY <2>4, <2>5
<1>. QED  BY <1>8, <1>9, <1>10, <1>11, <1>12 DEF Runs

LEMMA RunsTypes ==
  ASSUME WebhookInv, NEW p \in Processes, Runs(p), UNCHANGED <<shared, undeletable>>
  PROVE  TypeOK'
<1>1. TypeOK
  BY DEF WebhookInv
<1>2. Changes /\ proc' \in [Processes -> ProcType] /\ spent' \in SpentType
  BY RunsEffect, OwnType
<1>3. leader' \subseteq Pods /\ Cardinality(leader') <= 1
  BY <1>1, RunsEffect, LeaderTypes
<1>. QED  BY <1>1, <1>2, <1>3 DEF TypeOK, Changes, ProcType, SpentType

LEMMA StartTypes ==
  ASSUME WebhookInv, NEW p \in Processes, Start(p), UNCHANGED undeletable
  PROVE  TypeOK'
<1> USE ConfigurationTypes
<1>1. TypeOK /\ proc \in [Processes -> ProcType]
  BY DEF WebhookInv, TypeOK, ProcType
<1>2. \A q \in Processes : [proc[q] EXCEPT !.cleaned = FALSE] \in ProcType
  <2> SUFFICES ASSUME NEW q \in Processes
               PROVE  [proc[q] EXCEPT !.cleaned = FALSE] \in ProcType
    OBVIOUS
  <2>1. proc[q] \in ProcType
    BY <1>1
  <2>. QED  BY <2>1 DEF ProcType
<1>3. \A at \in Ensuring \cup Cleaning : [Off EXCEPT !.at = at] \in ProcType
  BY OffType DEF ProcType
<1>4. proc' \in [Processes -> ProcType]
  BY <1>2, <1>3 DEF Start, Ensuring, Cleaning
<1>5. spent' \in SpentType
  <2>1. spent \in SpentType /\ MaxStarts \in Nat
    BY <1>1, Configuration DEF TypeOK, SpentType
  <2>2. spent.starts < MaxStarts /\ spent' = [spent EXCEPT !.starts = @ + 1]
    BY DEF Start
  <2>. QED  BY <2>1, <2>2 DEF SpentType
<1>6. undone' \subseteq Pods /\ shared' \subseteq Processes
  BY <1>1 DEF Start, TypeOK
<1>7. UNCHANGED <<pk, mappingOf, transportOf, bindings, lastPk, leader>>
  BY DEF Start
<1>. QED  BY <1>1, <1>4, <1>5, <1>6, <1>7 DEF TypeOK, ProcType, SpentType

-----------------------------------------------------------------------------
(* What the process itself has seen *)

\* An object that was updated or created is there, and its key is of no other.
LEMMA PutThere ==
  ASSUME WebhookInv, NEW p \in Processes, Puts(p)
  PROVE  /\ Item(p) \in Objects /\ pk'[Item(p)] \in Pks \ {0} /\ pk'[Item(p)] <= lastPk'
         /\ \A o \in Objects : pk'[o] = pk'[Item(p)] => o = Item(p)
         /\ proc[p].at \in {"mapping", "transport", "rule"} => Item(p) = proc[p].at
         /\ proc[p].at = "policy" => Item(p) = Policy(p)
<1> USE ConfigurationTypes
<1>1. TypeOK /\ Grows /\ proc[p].at \in Writing /\ pk' \in [Objects -> Pks] /\ KeysInv'
  BY PutsGrows DEF WebhookInv, Puts, Grows
<1>2. Item(p) \in Objects
  BY <1>1, ProcTypes DEF Item, Writing, Objects
<1>3. pk'[Item(p)] # 0
  <2>1. pk \in [Objects -> Pks] /\ lastPk \in Pks
    BY <1>1 DEF TypeOK
  <2>. QED  BY <1>2, <2>1 DEF Puts, Pks
<1>. QED  BY <1>1, <1>2, <1>3 DEF KeysInv, Item

LEMMA OwnHold ==
  ASSUME WebhookInv, NEW p \in Processes, Runs(p)
  PROVE  HeldInv(p)'
<1> USE ConfigurationTypes
<1> DEFINE r == proc'[p]
<1>1. /\ TypeOK /\ HeldInv(p) /\ KeysInv /\ KeysInv' /\ Changes /\ Fits(proc[p].held)
      /\ proc \in [Processes -> ProcType] /\ proc[p] \in ProcType
  BY RunsEffect, HeldFits DEF WebhookInv, Changes, TypeOK, ProcType
<1>2. lastPk \in Nat /\ lastPk' \in Nat /\ lastPk <= lastPk'
  BY <1>1 DEF TypeOK, Changes, Pks
<1>3. Fits(Off.held)
  <2>1. \A s \in Ensuring : Off.held[s] = 0
    BY DEF Off
  <2>. QED  BY <1>2, <2>1 DEF Fits, Ensuring
<1> DEFINE Goal == /\ Fits(r.held)
                   /\ r.at \in Writing /\ r.stage = "write" => r.found <= lastPk'
                   /\ Secret /\ r.at \in {"transport", "rule", "policy", "binding"} =>
                        r.held["mapping"] # 0
                   /\ r.registered => r.at \in {"waiting", "leading"}
                   /\ r.cleaned => r.at = "off"
                   /\ p \in Jobs => r.at \in Cleaning \cup {"off"}
<1>4. SUFFICES Goal
  BY DEF HeldInv, Fits
<1>5. ASSUME proc' = [proc EXCEPT ![p] = Off]
      PROVE  Goal
  <2>1. r = Off
    BY <1>1, <1>5
  <2>. QED  BY <1>3, <2>1 DEF Off, Writing
<1>6. ASSUME NEW fault, Fails(p, fault)
      PROVE  Goal
  <2>1. CASE proc[p].at \in Ensuring
    <3>1. r = [proc[p] EXCEPT !.at = "waiting", !.stage = "find", !.faulted = @ \/ fault]
      BY <1>1, <1>6, <2>1 DEF Fails, Failed
    <3>2. /\ r.held = proc[p].held /\ r.at = "waiting" /\ r.registered = proc[p].registered
          /\ r.cleaned = proc[p].cleaned
      BY <1>1, <3>1 DEF ProcType
    <3>. QED  BY <1>1, <2>1, <3>2 DEF HeldInv, Ensuring, Cleaning, Writing
  <2>2. CASE proc[p].at \notin Ensuring
    BY <1>5, <1>6, <2>2 DEF Fails, Failed
  <2>. QED  BY <2>1, <2>2
<1>7. ASSUME NEW key \in Nat, Looks(p, key), proc[p].at \in Writing => key <= lastPk
      PROVE  Goal
  <2>1. /\ r.held = proc[p].held /\ r.at = proc[p].at /\ r.registered = proc[p].registered
        /\ r.cleaned = proc[p].cleaned /\ r.found = key
    BY <1>1, <1>7 DEF Looks, ProcType
  <2>. QED  BY <1>1, <1>2, <1>7, <2>1 DEF HeldInv
<1>8. ASSUME NEW at \in Ensuring, NEW k, GoOn(p, at, k), proc[p].at \in Ensuring,
             Secret /\ proc[p].at = "mapping" => k # 0,
             Fits([proc[p].held EXCEPT ![proc[p].at] = k])
      PROVE  Goal
  <2>1. /\ r.held = [proc[p].held EXCEPT ![proc[p].at] = k] /\ r.at = at
        /\ r.registered = proc[p].registered /\ r.cleaned = proc[p].cleaned
        /\ r.stage = "find" /\ proc[p].held \in [Ensuring -> Pks]
    BY <1>1, <1>8 DEF GoOn, ProcType
  <2>2. proc[p].at # "mapping" =>
          r.held["mapping"] = proc[p].held["mapping"]
    BY <1>8, <2>1 DEF Ensuring
  <2>3. proc[p].at = "mapping" => r.held["mapping"] = k
    BY <1>8, <2>1 DEF Ensuring
  <2>4. p \notin Jobs /\ ~proc[p].registered /\ ~proc[p].cleaned
    BY <1>1, <1>8 DEF HeldInv, Ensuring, Cleaning
  <2>5. Secret => r.held["mapping"] # 0
    BY <1>1, <1>8, <2>2, <2>3 DEF HeldInv, Ensuring
  <2>. QED  BY <1>8, <2>1, <2>4, <2>5
<1>9. ASSUME NextAction(p), proc[p].at = "binding"
      PROVE  Goal
  <2>1. r = IF proc[p].n = Len(eventMatcherActions)
            THEN [proc[p] EXCEPT !.at = "waiting", !.stage = "find", !.registered = TRUE]
            ELSE [proc[p] EXCEPT !.n = @ + 1, !.at = "policy", !.stage = "find",
                                 !.found = 0]
    BY <1>1, <1>9 DEF NextAction
  <2>2. /\ r.held = proc[p].held /\ r.at \in {"waiting", "policy"}
        /\ r.at = "policy" => r.registered = proc[p].registered
        /\ r.cleaned = proc[p].cleaned /\ r.stage = "find"
    BY <1>1, <2>1 DEF ProcType
  <2>. QED  BY <1>1, <1>9, <2>2 DEF HeldInv, Cleaning
<1>10. ASSUME NextObject(p), proc[p].at \in Cleaning
       PROVE  Goal
  <2>1. r = Cleaned(p)
    BY <1>1, <1>10 DEF NextObject
  <2>2. \/ r = [Off EXCEPT !.cleaned = TRUE]
        \/ r.held = proc[p].held /\ r.at \in Cleaning
           /\ r.registered = proc[p].registered /\ r.cleaned = proc[p].cleaned
    BY <1>1, <1>10, <2>1 DEF Cleaned, Cleaning, ProcType
  <2>3. CASE r = [Off EXCEPT !.cleaned = TRUE]
    BY <1>3, <2>3 DEF Off, Writing
  <2>4. CASE r.held = proc[p].held /\ r.at \in Cleaning
             /\ r.registered = proc[p].registered /\ r.cleaned = proc[p].cleaned
    BY <1>1, <1>10, <2>4 DEF HeldInv, Cleaning, Writing
  <2>. QED  BY <2>2, <2>3, <2>4
<1>11. CASE Lead(p)
  <2>1. /\ r.held = proc[p].held /\ r.at = "leading" /\ proc[p].at = "waiting"
        /\ r.cleaned = proc[p].cleaned
    BY <1>1, <1>11 DEF Lead, ProcType
  <2>. QED  BY <1>1, <2>1 DEF HeldInv, Cleaning, Writing
<1>12. CASE Terminate(p)
  <2>1. CASE proc' = [proc EXCEPT ![p] = [Off EXCEPT !.at = "cleanPolicy"]]
    <3>1. r = [Off EXCEPT !.at = "cleanPolicy"]
      BY <1>1, <2>1
    <3>. QED  BY <1>3, <3>1 DEF Off, Writing, Cleaning
  <2>. QED  BY <1>5, <1>12, <2>1 DEF Terminate
<1>13. CASE Kill(p)
  BY <1>5, <1>13 DEF Kill
<1>14. CASE EnsureStep(p)
  <2>1. ASSUME proc[p].at \in Writing, Looks(p, pk[Item(p)])
        PROVE  Goal
    <3>1. Item(p) \in Objects
      BY <1>1, <2>1, ProcTypes DEF Item, Writing, Objects
    <3>2. pk[Item(p)] \in Nat /\ pk[Item(p)] <= lastPk
      BY <1>1, <3>1 DEF KeysInv, TypeOK, Pks
    <3>. QED  BY <1>7, <2>1, <3>2
  <2>2. ASSUME proc[p].at = "binding", Looks(p, Cardinality(Bound(p)))
        PROVE  Goal
    BY <1>1, <1>7, <2>2, BoundCount DEF Writing
  <2>3. ASSUME Puts(p), GoOn(p, After(proc[p].at), pk'[Item(p)])
        PROVE  Goal
    <3> DEFINE k == pk'[Item(p)]
               h == [proc[p].held EXCEPT ![proc[p].at] = k]
    <3>1. /\ proc[p].at \in Writing /\ proc[p].at \in Ensuring
          /\ After(proc[p].at) \in Ensuring
          /\ proc[p].held \in [Ensuring -> Pks] /\ k # 0 /\ k <= lastPk'
          /\ \A o \in Objects : pk'[o] = k => o = Item(p)
          /\ proc[p].at \in {"mapping", "transport", "rule"} => Item(p) = proc[p].at
      BY <1>1, <2>3, PutThere DEF Puts, Writing, Ensuring, After, ProcType
    <3> HIDE DEF k
    <3>2. \A s \in Ensuring : h[s] = IF s = proc[p].at THEN k ELSE proc[p].held[s]
      BY <3>1
    <3>3. /\ proc[p].at = "mapping" => k = pk'["mapping"]
          /\ \A o \in Objects : pk'[o] # 0 =>
               /\ pk'[o] = h["transport"] => o = "transport"
               /\ pk'[o] = h["rule"] => o = "rule"
      BY <1>1, <3>1, <3>2 DEF Fits, Ensuring, k
    <3>4. Fits(h)
      BY <1>1, <3>1, <3>2, <3>3 DEF Fits, Ensuring
    <3>. QED  BY <1>8, <2>3, <3>1, <3>4 DEF k
  <2>4. ASSUME proc[p].at = "policy", proc[p].stage = "write",
               GoOn(p, "binding", proc[p].found)
        PROVE  Goal
    <3> DEFINE h == [proc[p].held EXCEPT !["policy"] = proc[p].found]
    <3>1. proc[p].found <= lastPk' /\ proc[p].held \in [Ensuring -> Pks]
      BY <1>1, <1>2, <2>4 DEF HeldInv, Writing, ProcType
    <3>2. \A s \in Ensuring : h[s] = IF s = "policy" THEN proc[p].found ELSE proc[p].held[s]
      BY <3>1
    <3>3. Fits(h)
      BY <1>1, <3>1, <3>2 DEF Fits, Ensuring
    <3>4. "binding" \in Ensuring /\ proc[p].at \in Ensuring
      BY <2>4 DEF Ensuring
    <3>. QED  BY <1>8, <2>4, <3>3, <3>4
  <2> HIDE DEF Goal
  <2>. QED  BY <1>6, <1>9, <1>14, <2>1, <2>2, <2>3, <2>4 DEF EnsureStep, Fails1, Binds
<1>15. CASE CleanupStep(p)
  <2>1. proc[p].at \in Cleaning /\ proc[p].at \notin Writing
    BY <1>15 DEF CleanupStep, Cleaning, Writing
  <2>2. pk[Doomed(p)] \in Nat
    BY <1>1, <2>1, ProcTypes DEF Doomed, Cleaning, TypeOK, Pks
  <2> HIDE DEF Goal
  <2>. QED  BY <1>6, <1>7, <1>10, <1>15, <2>1, <2>2 DEF CleanupStep, Fails1
<1>. QED  BY <1>11, <1>12, <1>13, <1>14, <1>15 DEF Runs

\* What a pod has made so far is there after every write that is not a deletion.
Made(p) ==
  LET held == proc[p].held
      at == proc[p].at
  IN
  /\ at \in {"rule", "policy", "binding"} =>
       held["transport"] # 0 /\ held["transport"] = pk'["transport"]
  /\ at \in {"policy", "binding"} =>
       /\ held["rule"] # 0 /\ held["rule"] = pk'["rule"] /\ transportOf' = pk'["transport"]
       /\ \A i \in 1 .. proc[p].n - 1 : IsBound(eventMatcherActions[i])'
  /\ at = "binding" => held["policy"] # 0 /\ held["policy"] = pk'[Policy(p)]
  /\ proc[p].registered =>
       /\ pk'["transport"] # 0 /\ pk'["rule"] # 0 /\ transportOf' = pk'["transport"]
       /\ \A o \in Policies : IsBound(o)'

LEMMA MadeStays ==
  ASSUME WebhookInv, Grows, NEW p \in Pods \ undone
  PROVE  Made(p)
<1> USE ConfigurationTypes
<1>1. /\ TypeOK /\ ProgressInv(p) /\ p \in Processes
      /\ proc[p].n \in 1 .. Len(eventMatcherActions) /\ Policy(p) \in Policies
  BY ProcTypes DEF WebhookInv, Processes
<1>2. \A o \in Objects : pk[o] # 0 => pk'[o] = pk[o]
  BY DEF Grows
<1>3. \A i \in 1 .. proc[p].n - 1 :
        IsBound(eventMatcherActions[i]) => IsBound(eventMatcherActions[i])'
  BY <1>1, BoundStays
<1>4. \A o \in Policies : IsBound(o) => IsBound(o)'
  BY BoundStays
<1>5. pk["transport"] # 0 /\ transportOf = pk["transport"] =>
        transportOf' = pk'["transport"] /\ pk'["transport"] = pk["transport"]
  BY <1>2 DEF Grows
<1>. QED  BY <1>1, <1>2, <1>3, <1>4, <1>5 DEF ProgressInv, Made

\* The policy of a pod that is done with an action is bound.
LEMMA ActionBound ==
  ASSUME WebhookInv, NEW p \in Pods \ undone, proc[p].at = "binding",
         \/ Same /\ \E b \in Bound(p) : b.policy = proc[p].held["policy"]
         \/ Binds(p)
  PROVE  \A o \in Objects : o = Policy(p) => IsBound(o)'
<1> SUFFICES ASSUME NEW o \in Objects, o = Policy(p)
             PROVE  IsBound(o)'
  OBVIOUS
<1>1. /\ ProgressInv(p) /\ Policy(p) \in Objects /\ p \in Processes
  BY ConfigurationTypes, ProcTypes DEF WebhookInv, Processes
<1>2. proc[p].held["policy"] = pk[Policy(p)] /\ proc[p].held["rule"] = pk["rule"]
  BY <1>1 DEF ProgressInv
<1>3. CASE Same /\ \E b \in Bound(p) : b.policy = proc[p].held["policy"]
  <2>1. PICK b \in bindings : b.target = pk["rule"] /\ b.policy = pk[o]
    BY <1>2, <1>3 DEF Bound, Target
  <2>2. \E c \in bindings' : c.policy = pk'[o] /\ c.target = pk'["rule"]
    BY <1>3, <2>1 DEF Same, authentik
  <2>. QED  BY <2>2 DEF IsBound
<1>4. CASE Binds(p)
  <2>1. /\ Binding(p) \in bindings' /\ pk' = pk
        /\ Binding(p).policy = pk[o] /\ Binding(p).target = pk["rule"]
    BY <1>2, <1>4 DEF Binds, Binding, Target
  <2>2. \E c \in bindings' : c.policy = pk'[o] /\ c.target = pk'["rule"]
    BY <2>1
  <2>. QED  BY <2>2 DEF IsBound
<1>. QED  BY <1>3, <1>4

LEMMA OwnProgress ==
  ASSUME WebhookInv, NEW p \in Pods \ undone, Runs(p), Grows
  PROVE  ProgressInv(p)'
<1> USE ConfigurationTypes
<1> DEFINE r == proc'[p]
<1>1. /\ TypeOK /\ HeldInv(p) /\ KeysInv /\ ProgressInv(p) /\ Made(p) /\ p \in Processes
      /\ proc \in [Processes -> ProcType] /\ proc[p] \in ProcType
      /\ proc[p].n \in 1 .. Len(eventMatcherActions) /\ Policy(p) \in Policies
  BY MadeStays, ProcTypes DEF WebhookInv, TypeOK, ProcType, Processes
<1>2. p \notin Jobs
  BY Configuration
<1>3. ASSUME r.at \notin Ensuring, ~r.registered
      PROVE  ProgressInv(p)'
  BY <1>3 DEF ProgressInv, Ensuring, Writing
<1>4. ASSUME proc' = [proc EXCEPT ![p] = Off]
      PROVE  ProgressInv(p)'
  BY <1>1, <1>3, <1>4 DEF Off, Ensuring
<1>5. ASSUME NEW fault, Fails(p, fault)
      PROVE  ProgressInv(p)'
  <2>1. CASE proc[p].at \in Ensuring
    <3>1. r = [proc[p] EXCEPT !.at = "waiting", !.stage = "find", !.faulted = @ \/ fault]
      BY <1>1, <1>5, <2>1 DEF Fails, Failed
    <3>2. r.at = "waiting" /\ r.registered = proc[p].registered
      BY <1>1, <3>1 DEF ProcType
    <3>. QED  BY <1>1, <1>3, <2>1, <3>2 DEF HeldInv, Ensuring
  <2>2. CASE proc[p].at \notin Ensuring
    BY <1>4, <1>5, <2>2 DEF Fails, Failed
  <2>. QED  BY <2>1, <2>2
<1>6. CASE Lead(p)
  <2>1. r.at = "leading" /\ r.registered = proc[p].registered
    BY <1>1, <1>6 DEF Lead, ProcType
  <2>. QED  BY <1>1, <2>1 DEF ProgressInv, Made, Writing
<1>7. CASE Terminate(p)
  <2>1. CASE proc' = [proc EXCEPT ![p] = [Off EXCEPT !.at = "cleanPolicy"]]
    <3>1. r = [Off EXCEPT !.at = "cleanPolicy"]
      BY <1>1, <2>1
    <3>. QED  BY <1>3, <3>1 DEF Off, Ensuring
  <2>. QED  BY <1>4, <1>7, <2>1 DEF Terminate
<1>8. CASE Kill(p)
  BY <1>4, <1>8 DEF Kill
<1>9. CASE CleanupStep(p)
  <2>1. proc[p].at \in Cleaning /\ ~proc[p].registered
    BY <1>1, <1>9 DEF CleanupStep, HeldInv, Cleaning
  <2>2. ASSUME NEW key, Looks(p, key)
        PROVE  r.at \notin Ensuring /\ ~r.registered
    <3>1. r.at = proc[p].at /\ r.registered = proc[p].registered
      BY <1>1, <2>2 DEF Looks, ProcType
    <3>. QED  BY <2>1, <3>1 DEF Cleaning, Ensuring
  <2>3. ASSUME NextObject(p)
        PROVE  r.at \notin Ensuring /\ ~r.registered
    <3>1. r = Cleaned(p)
      BY <1>1, <2>3 DEF NextObject
    <3>2. r.at \in Cleaning \cup {"off"} /\ ~r.registered
      BY <1>1, <2>1, <3>1 DEF Cleaned, Cleaning, ProcType, Off
    <3>. QED  BY <3>2 DEF Cleaning, Ensuring
  <2>. QED  BY <1>3, <1>5, <1>9, <2>2, <2>3 DEF CleanupStep, Fails1
<1>10. CASE EnsureStep(p)
  <2>1. ASSUME NEW key, Looks(p, key), proc[p].at \in Writing => key = pk[Item(p)],
               proc[p].at \in Ensuring
        PROVE  ProgressInv(p)'
    <3>1. /\ r.held = proc[p].held /\ r.at = proc[p].at /\ r.registered = proc[p].registered
          /\ r.n = proc[p].n /\ r.found = key /\ pk' = pk
      BY <1>1, <2>1 DEF Looks, ProcType, Same, authentik
    <3>2. Policy(p)' = Policy(p) /\ Item(p)' = Item(p)
      BY <3>1 DEF Policy, Item
    <3>. QED  BY <1>1, <2>1, <3>1, <3>2 DEF ProgressInv, Made
  <2>2. ASSUME NEW at, NEW k, GoOn(p, at, k), proc[p].at \in Ensuring
        PROVE  /\ r.held = [proc[p].held EXCEPT ![proc[p].at] = k] /\ r.at = at
               /\ ~r.registered /\ r.n = proc[p].n /\ r.stage = "find"
               /\ proc[p].held \in [Ensuring -> Pks] /\ Policy(p)' = Policy(p)
    <3>1. ~proc[p].registered
      BY <1>1, <2>2 DEF HeldInv, Ensuring
    <3>2. /\ r.held = [proc[p].held EXCEPT ![proc[p].at] = k] /\ r.at = at
          /\ r.registered = proc[p].registered /\ r.n = proc[p].n /\ r.stage = "find"
          /\ proc[p].held \in [Ensuring -> Pks]
      BY <1>1, <2>2 DEF GoOn, ProcType
    <3>. QED  BY <3>1, <3>2 DEF Policy
  <2>3. ASSUME Puts(p), GoOn(p, After(proc[p].at), pk'[Item(p)])
        PROVE  ProgressInv(p)'
    <3>1. /\ proc[p].at \in Writing /\ proc[p].at \in Ensuring /\ pk'[Item(p)] # 0
          /\ proc[p].at \in {"mapping", "transport", "rule"} => Item(p) = proc[p].at
          /\ proc[p].at = "policy" => Item(p) = Policy(p)
      BY <1>1, <2>3, PutThere DEF Puts, Writing, Ensuring
    <3>2. /\ r.held = [proc[p].held EXCEPT ![proc[p].at] = pk'[Item(p)]]
          /\ r.at = After(proc[p].at) /\ ~r.registered /\ r.n = proc[p].n
          /\ r.stage = "find" /\ proc[p].held \in [Ensuring -> Pks]
          /\ Policy(p)' = Policy(p)
      BY <2>2, <2>3, <3>1
    <3>3. \A s \in Ensuring :
            r.held[s] = IF s = proc[p].at THEN pk'[Item(p)] ELSE proc[p].held[s]
      BY <3>2
    <3>4. CASE proc[p].at = "mapping"
      <4>1. r.at = "transport"
        BY <3>2, <3>4 DEF After
      <4>2. r.n = 1
        BY <1>1, <3>2, <3>4 DEF ProgressInv
      <4>. QED  BY <3>2, <4>1, <4>2 DEF ProgressInv, Writing
    <3>5. CASE proc[p].at = "transport"
      <4>1. r.at = "rule" /\ r.held["transport"] = pk'["transport"] /\ pk'["transport"] # 0
        BY <3>1, <3>2, <3>3, <3>5 DEF After, Ensuring
      <4>2. r.n = 1
        BY <1>1, <3>2, <3>5 DEF ProgressInv
      <4>. QED  BY <3>2, <4>1, <4>2 DEF ProgressInv, Writing
    <3>6. CASE proc[p].at = "rule"
      <4>1. /\ r.at = "policy" /\ r.held["rule"] = pk'["rule"] /\ pk'["rule"] # 0
            /\ r.held["transport"] = proc[p].held["transport"]
        BY <3>1, <3>2, <3>3, <3>6 DEF After, Ensuring
      <4>2. /\ r.held["transport"] = pk'["transport"] /\ r.held["transport"] # 0
            /\ transportOf' = pk'["transport"]
        BY <1>1, <2>3, <3>6, <4>1 DEF Made, Puts
      <4>3. \A i \in 1 .. r.n - 1 : IsBound(eventMatcherActions[i])'
        BY <1>1, <3>2, <3>6 DEF ProgressInv
      <4>. QED  BY <3>2, <4>1, <4>2, <4>3 DEF ProgressInv, Writing
    <3>7. CASE proc[p].at = "policy"
      <4>1. /\ r.at = "binding" /\ r.held["policy"] = pk'[Policy(p)] /\ pk'[Policy(p)] # 0
            /\ r.held["transport"] = proc[p].held["transport"]
            /\ r.held["rule"] = proc[p].held["rule"]
        BY <3>1, <3>2, <3>3, <3>7 DEF After, Ensuring
      <4>. QED  BY <1>1, <3>2, <3>7, <4>1 DEF ProgressInv, Made, Writing
    <3>. QED  BY <3>1, <3>4, <3>5, <3>6, <3>7 DEF Writing
  <2>4. ASSUME proc[p].at = "policy", proc[p].stage = "write", proc[p].found # 0,
               GoOn(p, "binding", proc[p].found), Same
        PROVE  ProgressInv(p)'
    <3>1. proc[p].at \in Ensuring /\ proc[p].at \in Writing /\ Item(p) = Policy(p)
      BY <2>4 DEF Ensuring, Writing, Item
    <3>2. /\ r.held = [proc[p].held EXCEPT !["policy"] = proc[p].found]
          /\ r.at = "binding" /\ ~r.registered /\ r.n = proc[p].n
          /\ r.stage = "find" /\ proc[p].held \in [Ensuring -> Pks]
          /\ Policy(p)' = Policy(p)
      BY <2>2, <2>4, <3>1
    <3>3. \A s \in Ensuring :
            r.held[s] = IF s = "policy" THEN proc[p].found ELSE proc[p].held[s]
      BY <3>2
    <3>4. proc[p].found = pk[Policy(p)] /\ pk' = pk
      BY <1>1, <2>4, <3>1 DEF ProgressInv, Same, authentik
    <3>5. /\ r.held["policy"] = pk'[Policy(p)] /\ r.held["policy"] # 0
          /\ r.held["transport"] = proc[p].held["transport"]
          /\ r.held["rule"] = proc[p].held["rule"]
      BY <2>4, <3>3, <3>4 DEF Ensuring
    <3>. QED  BY <1>1, <2>4, <3>2, <3>5 DEF ProgressInv, Made, Writing
  <2>5. ASSUME NextAction(p), proc[p].at = "binding",
               \A o \in Objects : o = Policy(p) => IsBound(o)'
        PROVE  ProgressInv(p)'
    <3>1. r = IF proc[p].n = Len(eventMatcherActions)
              THEN [proc[p] EXCEPT !.at = "waiting", !.stage = "find", !.registered = TRUE]
              ELSE [proc[p] EXCEPT !.n = @ + 1, !.at = "policy", !.stage = "find",
                                   !.found = 0]
      BY <1>1, <2>5 DEF NextAction
    <3>2. \A i \in 1 .. proc[p].n : IsBound(eventMatcherActions[i])'
      BY <1>1, <2>5 DEF Made, Policy
    <3>3. CASE proc[p].n = Len(eventMatcherActions)
      <4>1. r.at = "waiting"
        BY <1>1, <3>1, <3>3 DEF ProcType
      <4>2. \A o \in Policies : IsBound(o)'
        BY <3>2, <3>3
      <4>3. pk'["transport"] # 0 /\ pk'["rule"] # 0 /\ transportOf' = pk'["transport"]
        BY <1>1, <2>5 DEF Made
      <4>. QED  BY <4>1, <4>2, <4>3 DEF ProgressInv, Writing
    <3>4. CASE proc[p].n # Len(eventMatcherActions)
      <4>1. /\ r.at = "policy" /\ r.stage = "find" /\ r.held = proc[p].held
            /\ r.n = proc[p].n + 1 /\ r.registered = proc[p].registered
        BY <1>1, <3>1, <3>4 DEF ProcType
      <4>2. 1 .. r.n - 1 = 1 .. proc[p].n
        BY <1>1, <4>1
      <4>3. ~r.registered
        BY <1>1, <2>5, <4>1 DEF HeldInv
      <4>. QED  BY <1>1, <2>5, <3>2, <4>1, <4>2, <4>3 DEF ProgressInv, Made, Writing
    <3>. QED  BY <3>3, <3>4
  <2>6. proc[p].at \in Writing => proc[p].at \in Ensuring
    BY DEF Writing, Ensuring
  <2>7. proc[p].at = "binding" => proc[p].at \notin Writing /\ proc[p].at \in Ensuring
    BY DEF Writing, Ensuring
  <2>8. Binds(p) => proc[p].at = "binding"
    BY DEF Binds
  <2>. QED  BY <1>5, <1>10, <2>1, <2>3, <2>4, <2>5, <2>6, <2>7, <2>8, ActionBound
            DEF EnsureStep, Fails1
<1>. QED  BY <1>6, <1>7, <1>8, <1>9, <1>10 DEF Runs

-----------------------------------------------------------------------------
(* Processes that run alone *)

\* A process that is off stays clear of AloneInv, and of CleanInv when it forgot.
LEMMA OffAlone ==
  ASSUME NEW p \in Processes, proc'[p].at = "off", ~proc'[p].cleaned
  PROVE  AloneInv(p)' /\ CleanInv(p)'
BY DEF AloneInv, CleanInv, Running, Ensuring, Writing, Cleaning

\* No step of another process is a step next to a process that runs alone.
LEMMA OthersAlone ==
  ASSUME WebhookInv, NEW p \in Processes, Runs(p), UNCHANGED shared,
         NEW q \in Processes \ shared, q # p
  PROVE  AloneInv(q)' /\ CleanInv(q)'
<1>1. p \in Running /\ proc'[q] = proc[q] /\ AloneInv(q) /\ CleanInv(q)
  <2>1. proc \in [Processes -> ProcType] /\ proc' = [proc EXCEPT ![p] = proc'[p]]
    BY RunsEffect, OwnType DEF WebhookInv, TypeOK, ProcType
  <2>. QED  BY <2>1, RunsEffect DEF WebhookInv
<1>2. proc[q].at = "off" /\ ~proc[q].cleaned
  BY <1>1 DEF AloneInv, CleanInv, Running
<1>. QED  BY <1>1, <1>2, OffAlone

\* Authentik refuses no call of a registration that runs alone.
LEMMA NeverRefused ==
  ASSUME WebhookInv, NEW p \in Processes \ shared, proc[p].at \in Ensuring
  PROVE  ~Refused(p)
<1> USE ConfigurationTypes
<1>1. AloneInv(p) /\ HeldInv(p) /\ KeysInv
  BY DEF WebhookInv
<1>2. p \in Pods \ undone
  BY <1>1 DEF AloneInv, HeldInv, Ensuring, Cleaning, Processes
<1>3. ProgressInv(p) /\ Policy(p) \in Objects
  BY <1>2, ProcTypes DEF WebhookInv
<1>4. proc[p].at = "rule" => Kept(proc[p].held["transport"])
  BY <1>3 DEF ProgressInv, Kept
<1>5. CASE proc[p].at = "binding" /\ proc[p].stage = "write"
  <2>1. Kept(proc[p].held["policy"]) /\ Kept(Target(p))
    BY <1>3, <1>5 DEF ProgressInv, Kept, Target
  <2>2. Binding(p) \notin bindings
    BY <1>1, <1>5 DEF AloneInv, Binding, Bound
  <2>. QED  BY <1>5, <2>1, <2>2 DEF Refused, Writing
<1>6. CASE proc[p].at \in Writing
  BY <1>1, <1>4, <1>6 DEF AloneInv, Refused, Writing
<1>. QED  BY <1>5, <1>6 DEF Refused, Writing, Ensuring

LEMMA OwnAlone ==
  ASSUME WebhookInv, NEW p \in Processes \ shared, Runs(p), UNCHANGED undeletable
  PROVE  AloneInv(p)' /\ CleanInv(p)'
<1> USE ConfigurationTypes
<1> DEFINE r == proc'[p]
<1>1. /\ TypeOK /\ HeldInv(p) /\ AloneInv(p) /\ CleanInv(p) /\ p \in Running
      /\ proc \in [Processes -> ProcType] /\ proc[p] \in ProcType
      /\ Policy(p) \in Policies
  BY RunsEffect, ProcTypes DEF WebhookInv, TypeOK, ProcType
<1>2. /\ proc' \in [Processes -> ProcType] /\ Running = {p}
      /\ \A q \in Processes : q # p => proc'[q] = proc[q] /\ proc[q].at = "off"
  <2>1. proc' \in [Processes -> ProcType] /\ proc' = [proc EXCEPT ![p] = proc'[p]]
    BY RunsEffect, OwnType
  <2>. QED  BY <1>1, <2>1 DEF AloneInv, Running
<1>3. Running' = IF r.at = "off" THEN {} ELSE {p}
  BY <1>2 DEF Running
<1>4. p \in Running' => Running' = {p}
  BY <1>3
<1>5. ASSUME r.at \notin Cleaning, r.at # "off"
      PROVE  CleanInv(p)'
  <2>1. ~r.cleaned
    BY <1>5, OwnHold DEF HeldInv
  <2>. QED  BY <1>5, <2>1 DEF CleanInv, Cleaning
<1>6. ASSUME r.at \in Cleaning \cup {"off"}
      PROVE  AloneInv(p)'
  BY <1>4, <1>6 DEF AloneInv, Cleaning, Ensuring, Writing
<1>7. ASSUME proc' = [proc EXCEPT ![p] = Off]
      PROVE  AloneInv(p)' /\ CleanInv(p)'
  <2>1. r = Off
    BY <1>1, <1>7
  <2>. QED  BY <2>1, OffAlone DEF Off
<1>8. CASE Lead(p)
  <2>1. /\ r.at = "leading" /\ r.registered = proc[p].registered
        /\ r.faulted = proc[p].faulted /\ proc[p].at = "waiting" /\ undone' = undone
    BY <1>1, <1>8 DEF Lead, ProcType, authentik
  <2>2. AloneInv(p)'
    BY <1>1, <1>4, <2>1 DEF AloneInv, Writing
  <2>. QED  BY <1>5, <2>1, <2>2 DEF Cleaning
<1>9. CASE Terminate(p)
  <2>1. CASE proc' = [proc EXCEPT ![p] = [Off EXCEPT !.at = "cleanPolicy"]]
    <3>1. r = [Off EXCEPT !.at = "cleanPolicy"]
      BY <1>1, <2>1
    <3>2. r.at = "cleanPolicy" /\ r.n = 1 /\ r.stage = "find" /\ ~r.cleaned
      BY <3>1 DEF Off
    <3>3. CleanInv(p)'
      BY <3>2 DEF CleanInv
    <3>. QED  BY <1>6, <3>2, <3>3 DEF Cleaning
  <2>. QED  BY <1>7, <1>9, <2>1 DEF Terminate
<1>10. CASE Kill(p)
  BY <1>7, <1>10 DEF Kill
<1>11. CASE EnsureStep(p)
  <2>1. proc[p].at \in Ensuring /\ p \notin undone
    BY <1>1, <1>11 DEF EnsureStep, Writing, Ensuring, Refused, Puts, Binds, AloneInv
  <2>2. undone' = undone
    BY <2>1, RunsEffect DEF Grows, Ensuring, Cleaning
  <2>3. ASSUME AloneInv(p)', r.at \in Ensuring \cup {"waiting"}
        PROVE  AloneInv(p)' /\ CleanInv(p)'
    BY <1>5, <2>3 DEF Ensuring, Cleaning
  <2>4. CASE Fails1(p)
    <3>1. r = [proc[p] EXCEPT !.at = "waiting", !.stage = "find", !.faulted = @ \/ TRUE]
      BY <1>1, <2>1, <2>4 DEF Fails1, Fails, Failed
    <3>2. r.at = "waiting" /\ r.faulted
      BY <1>1, <3>1 DEF ProcType
    <3>. QED  BY <1>4, <2>1, <2>2, <2>3, <3>2 DEF AloneInv, Writing
  <2>5. ASSUME NEW key, Looks(p, key), proc[p].at \in Writing => key = pk[Item(p)],
               proc[p].at = "binding" => \A b \in Bound(p) : b.policy # proc[p].held["policy"]
        PROVE  AloneInv(p)' /\ CleanInv(p)'
    <3>1. /\ r.at = proc[p].at /\ r.found = key /\ r.held = proc[p].held
          /\ r.n = proc[p].n /\ pk' = pk /\ bindings' = bindings
      BY <1>1, <2>5 DEF Looks, ProcType, Same, authentik
    <3>2. Item(p)' = Item(p) /\ Bound(p)' = Bound(p)
      BY <3>1 DEF Item, Policy, Bound, Target
    <3>. QED  BY <1>4, <2>1, <2>2, <2>3, <2>5, <3>1, <3>2 DEF AloneInv, Ensuring
  <2>6. ASSUME NEW at \in Ensuring, NEW k, GoOn(p, at, k)
        PROVE  AloneInv(p)' /\ CleanInv(p)'
    <3>1. r.at = at /\ r.stage = "find"
      BY <1>1, <2>6 DEF GoOn, ProcType
    <3>. QED  BY <1>4, <2>1, <2>2, <2>3, <2>6, <3>1 DEF AloneInv, Ensuring
  <2>7. CASE NextAction(p)
    <3>1. r = IF proc[p].n = Len(eventMatcherActions)
              THEN [proc[p] EXCEPT !.at = "waiting", !.stage = "find", !.registered = TRUE]
              ELSE [proc[p] EXCEPT !.n = @ + 1, !.at = "policy", !.stage = "find",
                                   !.found = 0]
      BY <1>1, <2>7 DEF NextAction
    <3>2. (r.at = "waiting" /\ r.registered) \/ (r.at = "policy" /\ r.stage = "find")
      BY <1>1, <3>1 DEF ProcType
    <3>. QED  BY <1>4, <2>1, <2>2, <2>3, <3>2 DEF AloneInv, Writing, Ensuring
  <2>8. "binding" \in Ensuring /\ (proc[p].at \in Writing => After(proc[p].at) \in Ensuring)
        /\ (proc[p].at = "binding" => proc[p].at \notin Writing)
        /\ (Puts(p) => proc[p].at \in Writing)
    BY DEF Ensuring, Writing, After, Puts
  <2>9. ~Refused(p)
    BY <2>1, NeverRefused
  <2>10. proc[p].at \in Writing => proc[p].at # "binding"
    BY <2>8
  <2>. QED  BY <1>11, <2>4, <2>5, <2>6, <2>7, <2>8, <2>9, <2>10 DEF EnsureStep
<1>12. CASE CleanupStep(p)
  <2>1. proc[p].at \in Cleaning /\ ~proc[p].cleaned
    BY <1>1, <1>12 DEF CleanupStep, HeldInv, Cleaning
  <2>2. ASSUME NEW fault, Fails(p, fault)
        PROVE  AloneInv(p)' /\ CleanInv(p)'
    BY <1>7, <2>1, <2>2 DEF Fails, Failed, Cleaning, Ensuring
  <2>3. CASE Looks(p, pk[Doomed(p)])
    <3>1. /\ r.at = proc[p].at /\ r.found = pk[Doomed(p)] /\ r.n = proc[p].n /\ pk' = pk
          /\ r.cleaned = proc[p].cleaned
      BY <1>1, <2>3 DEF Looks, ProcType, Same, authentik
    <3>2. Doomed(p)' = Doomed(p)
      BY <3>1 DEF Doomed, Policy
    <3>3. \A o \in Objects : Gone(o) => Gone(o)'
      BY <3>1 DEF Gone
    <3>4. \A i \in 1 .. Len(eventMatcherActions) :
            Gone(eventMatcherActions[i]) => Gone(eventMatcherActions[i])'
      BY <3>3
    <3>5. CleanInv(p)'
      BY <1>1, <2>1, <3>1, <3>2, <3>3, <3>4 DEF CleanInv, ProcType
    <3>. QED  BY <1>6, <2>1, <3>1, <3>5
  <2>4. ASSUME NextObject(p), proc[p].stage = "write",
               \/ Same /\ (proc[p].found = 0 \/ Doomed(p) \in undeletable)
               \/ Destroy(Doomed(p))
        PROVE  AloneInv(p)' /\ CleanInv(p)'
    <3> DEFINE d == Doomed(p)
    <3>1. /\ d \in Objects /\ \A o \in Objects : Gone(o) => Gone(o)'
          /\ \A o \in Objects : o = d => Gone(o)'
      <4>1. CASE Same /\ (proc[p].found = 0 \/ d \in undeletable)
        <5>1. pk' = pk /\ d \in Objects /\ proc[p].found = pk[d]
          BY <1>1, <2>1, <2>4, <4>1
             DEF Same, authentik, Doomed, CleanInv, Cleaning
        <5>. QED  BY <4>1, <5>1 DEF Gone
      <4>2. CASE Destroy(d)
        <5>1. d \in Objects /\ \A o \in Objects : pk'[o] = IF o = d THEN 0 ELSE pk[o]
          BY <2>1, <4>2, Destroys
        <5> HIDE DEF d
        <5>. QED  BY <5>1 DEF Gone
      <4>. QED  BY <2>4, <4>1, <4>2
    <3>2. r = Cleaned(p)
      BY <1>1, <2>4 DEF NextObject
    <3>3. \A i \in 1 .. Len(eventMatcherActions) :
            Gone(eventMatcherActions[i]) => Gone(eventMatcherActions[i])'
      BY <3>1
    <3>4. CASE proc[p].at = "cleanTransport"
      <4>1. r.at = "off" /\ r.cleaned
        <5>1. r = [Off EXCEPT !.cleaned = TRUE]
          BY <3>2, <3>4 DEF Cleaned
        <5>. QED  BY <5>1 DEF Off
      <4>2. \A o \in Policies : Gone(o)'
        BY <1>1, <3>1, <3>4 DEF CleanInv
      <4>3. Gone("rule")' /\ Gone("transport")'
        BY <1>1, <3>1, <3>4 DEF CleanInv, Doomed
      <4>4. \A o \in Objects \ {"mapping"} : Gone(o)'
        BY <4>2, <4>3 DEF Objects
      <4>5. CleanInv(p)'
        BY <1>3, <4>1, <4>4 DEF CleanInv, Cleaning
      <4>. QED  BY <1>6, <4>1, <4>5
    <3>5. CASE proc[p].at = "cleanRule"
      <4>1. r.at = "cleanTransport" /\ r.stage = "find" /\ ~r.cleaned
        <5>1. r = [proc[p] EXCEPT !.at = "cleanTransport", !.stage = "find"]
          BY <3>2, <3>5 DEF Cleaned
        <5>. QED  BY <1>1, <2>1, <5>1 DEF ProcType
      <4>2. \A o \in Policies : Gone(o)'
        BY <1>1, <3>1, <3>5 DEF CleanInv
      <4>3. Gone("rule")'
        BY <3>1, <3>5 DEF Doomed
      <4>4. CleanInv(p)'
        BY <4>1, <4>2, <4>3 DEF CleanInv
      <4>. QED  BY <1>6, <4>1, <4>4 DEF Cleaning
    <3>6. CASE proc[p].at = "cleanPolicy"
      <4>1. \A i \in 1 .. proc[p].n : Gone(eventMatcherActions[i])'
        <5>1. /\ d = eventMatcherActions[proc[p].n]
              /\ proc[p].n \in 1 .. Len(eventMatcherActions)
              /\ \A i \in 1 .. proc[p].n - 1 : Gone(eventMatcherActions[i])
          BY <1>1, <3>6 DEF Doomed, Policy, CleanInv, ProcType
        <5> HIDE DEF d
        <5>. QED  BY <3>1, <3>3, <5>1
      <4>2. CASE proc[p].n = Len(eventMatcherActions)
        <5>1. r.at = "cleanRule" /\ r.stage = "find" /\ ~r.cleaned
          BY <1>1, <2>1, <3>2, <3>6, <4>2 DEF Cleaned, ProcType
        <5>2. \A o \in Policies : Gone(o)'
          BY <4>1, <4>2
        <5>3. CleanInv(p)'
          BY <5>1, <5>2 DEF CleanInv
        <5>. QED  BY <1>6, <5>1, <5>3 DEF Cleaning
      <4>3. CASE proc[p].n # Len(eventMatcherActions)
        <5>1. /\ r.at = "cleanPolicy" /\ r.stage = "find" /\ ~r.cleaned
              /\ r.n = proc[p].n + 1
          BY <1>1, <2>1, <3>2, <3>6, <4>3 DEF Cleaned, ProcType
        <5>2. 1 .. r.n - 1 = 1 .. proc[p].n
          BY <1>1, <5>1 DEF ProcType
        <5>3. CleanInv(p)'
          BY <4>1, <5>1, <5>2 DEF CleanInv
        <5>. QED  BY <1>6, <5>1, <5>3 DEF Cleaning
      <4>. QED  BY <4>2, <4>3
    <3>. QED  BY <2>1, <3>4, <3>5, <3>6 DEF Cleaning
  <2>. QED  BY <1>12, <2>2, <2>3, <2>4 DEF CleanupStep, Fails1
<1>. QED  BY <1>8, <1>9, <1>10, <1>11, <1>12 DEF Runs

-----------------------------------------------------------------------------
(* The invariant holds *)

LEMMA StartKeeps ==
  ASSUME WebhookInv, NEW p \in Processes, Start(p), UNCHANGED undeletable
  PROVE  WebhookInv'
<1> USE ConfigurationTypes
<1>1. /\ TypeOK /\ KeysInv /\ proc \in [Processes -> ProcType] /\ proc[p].at = "off"
      /\ proc' \in [Processes -> ProcType]
  BY StartTypes DEF WebhookInv, TypeOK, ProcType, Start
<1>2. /\ UNCHANGED <<pk, mappingOf, transportOf, bindings, lastPk, undeletable>>
      /\ undone' = undone \ {p}
      /\ shared' = IF Running = {} THEN shared \ {p} ELSE shared \cup Running \cup {p}
  BY DEF Start, Running
<1>3. ASSUME NEW q \in Processes, q # p
      PROVE  /\ proc'[q].at = proc[q].at /\ proc'[q].stage = proc[q].stage
             /\ proc'[q].n = proc[q].n /\ proc'[q].found = proc[q].found
             /\ proc'[q].held = proc[q].held /\ proc'[q].registered = proc[q].registered
             /\ proc'[q].faulted = proc[q].faulted /\ ~proc'[q].cleaned
  <2>1. proc[q] \in ProcType /\ proc'[q] = [proc[q] EXCEPT !.cleaned = FALSE]
    BY <1>1, <1>3 DEF Start
  <2>. QED  BY <2>1 DEF ProcType
<1> DEFINE r == proc'[p]
<1>4. /\ r.at = IF p \in Jobs THEN "cleanPolicy" ELSE IF Secret THEN "mapping" ELSE "transport"
      /\ r.stage = "find" /\ r.n = 1 /\ r.held = Off.held /\ ~r.registered /\ ~r.cleaned
  <2> DEFINE at == IF p \in Jobs THEN "cleanPolicy"
                   ELSE IF Secret THEN "mapping" ELSE "transport"
  <2>1. r = [Off EXCEPT !.at = at]
    BY DEF Start
  <2> HIDE DEF at
  <2>2. r.at = at /\ r.stage = "find" /\ r.n = 1 /\ ~r.registered /\ ~r.cleaned
        /\ r.held = Off.held
    BY <2>1 DEF Off
  <2>. QED  BY <2>2 DEF at
<1>5. TypeOK'
  BY StartTypes
<1>6. KeysInv'
  BY <1>1, <1>2 DEF KeysInv
<1>7. ASSUME NEW q \in Processes
      PROVE  HeldInv(q)'
  <2>1. CASE q = p
    <3>1. \A s \in Ensuring : r.held[s] = 0
      BY <1>4 DEF Off
    <3>2. lastPk \in Nat
      BY <1>1 DEF TypeOK, Pks
    <3>. QED  BY <1>2, <1>4, <2>1, <3>1, <3>2 DEF HeldInv, Ensuring, Writing, Cleaning
  <2>2. CASE q # p
    <3>1. HeldInv(q)
      BY DEF WebhookInv
    <3>. QED  BY <1>2, <1>3, <2>2, <3>1 DEF HeldInv
  <2>. QED  BY <2>1, <2>2
<1>8. ASSUME NEW q \in Pods \ undone'
      PROVE  ProgressInv(q)'
  <2>1. CASE q = p
    BY <1>4, <2>1 DEF ProgressInv, Writing
  <2>2. CASE q # p
    <3>1. ProgressInv(q) /\ q \in Processes
      BY <1>2, <2>2 DEF WebhookInv, Processes
    <3>2. Policy(q)' = Policy(q) /\ Item(q)' = Item(q)
      BY <1>3, <2>2, <3>1 DEF Policy, Item
    <3>3. \A o \in Objects : IsBound(o) => IsBound(o)'
      BY <1>2 DEF IsBound
    <3>4. \A i \in 1 .. Len(eventMatcherActions) :
            IsBound(eventMatcherActions[i]) => IsBound(eventMatcherActions[i])'
      BY <3>3
    <3>. QED  BY <1>1, <1>2, <1>3, <2>2, <3>1, <3>2, <3>3, <3>4 DEF ProgressInv, ProcType
  <2>. QED  BY <2>1, <2>2
<1>9. ASSUME NEW q \in Processes \ shared'
      PROVE  AloneInv(q)' /\ CleanInv(q)'
  <2>1. CASE q = p
    <3>1. Running = {} /\ p \notin undone'
      BY <1>2, <2>1
    <3>2. Running' = {p}
      BY <1>3, <1>4, <3>1 DEF Running
    <3>. QED  BY <1>4, <2>1, <3>1, <3>2 DEF AloneInv, CleanInv, Cleaning, Writing
  <2>2. CASE q # p
    <3>1. q \notin Running
      BY <1>2, <2>2
    <3>2. proc'[q].at = "off" /\ ~proc'[q].cleaned
      BY <1>3, <2>2, <3>1 DEF Running
    <3>. QED  BY <3>2, OffAlone
  <2>. QED  BY <2>1, <2>2
<1>. QED  BY <1>5, <1>6, <1>7, <1>8, <1>9 DEF WebhookInv

LEMMA RunsKeeps ==
  ASSUME WebhookInv, NEW p \in Processes, Runs(p), UNCHANGED <<shared, undeletable>>
  PROVE  WebhookInv'
<1>1. \A q \in Processes : q # p => proc'[q] = proc[q]
  BY RunsEffect, OwnType DEF WebhookInv, TypeOK, ProcType
<1>2. TypeOK' /\ KeysInv' /\ Changes
  BY RunsTypes, RunsEffect DEF Changes
<1>3. ASSUME NEW q \in Processes
      PROVE  HeldInv(q)'
  BY <1>1, <1>2, OwnHold, OthersHold
<1>4. ASSUME NEW q \in Pods \ undone'
      PROVE  ProgressInv(q)'
  <2>1. CASE Grows
    <3>1. q \in Pods \ undone /\ q \in Processes
      BY <2>1 DEF Grows, Processes
    <3>. QED  BY <1>1, <2>1, <3>1, OwnProgress, OthersProgress
  <2>2. CASE ~Grows
    <3>1. q \notin Running /\ q \in Processes /\ q # p
      BY <2>2, RunsEffect DEF Processes
    <3>2. proc[q].at = "off" /\ HeldInv(q) /\ proc'[q] = proc[q]
      BY <1>1, <3>1 DEF Running, WebhookInv
    <3>. QED  BY <3>2 DEF HeldInv, ProgressInv, Writing
  <2>. QED  BY <2>1, <2>2
<1>5. ASSUME NEW q \in Processes \ shared'
      PROVE  AloneInv(q)' /\ CleanInv(q)'
  BY OwnAlone, OthersAlone
<1>. QED  BY <1>2, <1>3, <1>4, <1>5 DEF WebhookInv

LEMMA WebhookStart == Init => WebhookInv
<1> USE ConfigurationTypes
<1> SUFFICES ASSUME Init PROVE WebhookInv
  OBVIOUS
<1>1. \A p \in Processes : proc[p] = Off
  BY DEF Init
<1>2. /\ Off.at = "off" /\ Off.stage = "find" /\ Off.n = 1 /\ ~Off.registered /\ ~Off.cleaned
      /\ \A s \in Ensuring : Off.held[s] = 0
  BY DEF Off
<1>3. TypeOK
  <2>1. proc \in [Processes -> ProcType]
    BY OffType DEF Init
  <2>2. spent \in SpentType
    BY Configuration DEF Init, SpentType
  <2>3. IsFiniteSet({}) /\ Cardinality({}) = 0
    BY FS_EmptySet
  <2>. QED  BY <2>1, <2>2, <2>3 DEF Init, TypeOK, ProcType, SpentType
<1>4. KeysInv
  BY DEF Init, KeysInv
<1>5. \A p \in Processes : HeldInv(p)
  BY <1>1, <1>2 DEF Init, HeldInv, Ensuring, Writing
<1>6. \A p \in Pods : ProgressInv(p)
  BY <1>1, <1>2 DEF ProgressInv, Processes, Writing
<1>7. \A p \in Processes : AloneInv(p) /\ CleanInv(p)
  BY <1>1, <1>2 DEF AloneInv, CleanInv, Running, Ensuring, Cleaning, Writing
<1>. QED  BY <1>3, <1>4, <1>5, <1>6, <1>7 DEF WebhookInv

LEMMA WebhookStep ==
  ASSUME WebhookInv, [Next]_vars
  PROVE  WebhookInv'
<1>1. CASE UNCHANGED vars
  <2>1. TypeOK' /\ KeysInv' /\ Running' = Running
    BY <1>1 DEF vars, authentik, WebhookInv, TypeOK, KeysInv, Running
  <2>2. ASSUME NEW q \in Processes
        PROVE  HeldInv(q) => HeldInv(q)'
    BY <1>1 DEF vars, authentik, HeldInv
  <2>3. ASSUME NEW q \in Pods
        PROVE  ProgressInv(q) => ProgressInv(q)'
    BY <1>1 DEF vars, authentik, ProgressInv, IsBound, Item, Policy
  <2>4. ASSUME NEW q \in Processes
        PROVE  AloneInv(q) => AloneInv(q)'
    BY <1>1, <2>1 DEF vars, authentik, AloneInv, Item, Policy, Bound, Target
  <2>5. ASSUME NEW q \in Processes
        PROVE  CleanInv(q) => CleanInv(q)'
    BY <1>1, <2>1 DEF vars, authentik, CleanInv, Gone, Doomed, Policy
  <2>6. undone' = undone /\ shared' = shared
    BY <1>1 DEF vars, authentik
  <2>. QED  BY <2>1, <2>2, <2>3, <2>4, <2>5, <2>6 DEF WebhookInv
<1>2. CASE \E p \in Processes : /\ UNCHANGED undeletable
                                /\ Start(p) \/ (Runs(p) /\ UNCHANGED shared)
  BY <1>2, StartKeeps, RunsKeeps
<1>. QED  BY <1>1, <1>2, NextCases DEF WebhookInv

\* What the pods and jobs running EnsureEventWebhookConfig and
\* CleanupEventWebhookConfig know agrees with Authentik at every step.
LEMMA WebhookInvariant == Spec => []WebhookInv
<1>1. Init => WebhookInv
  BY WebhookStart
<1>2. WebhookInv /\ [Next]_vars => WebhookInv'
  BY WebhookStep
<1>. QED  BY <1>1, <1>2, PTL DEF Spec

\* Type correctness of the registration: keys, bindings, processes and the lease.
THEOREM WebhookTypes == Spec => []TypeOK
<1>1. WebhookInv => TypeOK
  BY DEF WebhookInv
<1>. QED  BY <1>1, WebhookInvariant, PTL

\* While a pod runs whose EnsureEventWebhookConfig returned no error, everything
\* events need is in Authentik, unless a cleanup has deleted something meanwhile.
THEOREM RegistrationHolds == Spec => []RegisteredIsComplete
<1>1. WebhookInv => RegisteredIsComplete
  BY DEF WebhookInv, KeysInv, ProgressInv, IsBound, RegisteredIsComplete, Complete
<1>. QED  BY <1>1, WebhookInvariant, PTL

\* EnsureEventWebhookConfig on a pod that runs alone returns an error only after a
\* call of it failed, whatever earlier processes left behind.
THEOREM AloneSucceeds == Spec => []OnlyFaultsFail
<1>1. WebhookInv => OnlyFaultsFail
  BY DEF WebhookInv, AloneInv, OnlyFaultsFail, Processes
<1>. QED  BY <1>1, WebhookInvariant, PTL

\* CleanupEventWebhookConfig that ran alone and returned no error left nothing that
\* forwards events but what this Authentik cannot delete.
THEOREM CleanupHolds == Spec => []NothingForwards
<1>1. WebhookInv => NothingForwards
  BY DEF WebhookInv, CleanInv, Gone, NothingForwards
<1>. QED  BY <1>1, WebhookInvariant, PTL

-----------------------------------------------------------------------------
(* Pods that start together *)

LEMMA RunningPods ==
  /\ IsFiniteSet(Running \cap Pods) /\ Cardinality(Running \cap Pods) \in Nat
  /\ Cardinality(Running \cap Pods) <= Cardinality(Pods)
  /\ Cardinality(Running \cap Pods) = Cardinality(Pods) => Pods \subseteq Running
<1>1. Running \cap Pods \in SUBSET Pods /\ IsFiniteSet(Pods)
  BY Configuration
<1>2. /\ IsFiniteSet(Running \cap Pods)
      /\ Cardinality(Running \cap Pods) <= Cardinality(Pods)
      /\ Cardinality(Pods) = Cardinality(Running \cap Pods) => Pods = Running \cap Pods
  BY <1>1, FS_Subset
<1>3. Cardinality(Running \cap Pods) \in Nat
  BY <1>2, FS_CardinalityType
<1>. QED  BY <1>2, <1>3

\* Where a pod is, as a number.
LEMMA Places ==
  ASSUME WebhookInv, NEW p \in Processes
  PROVE  /\ Place(p) \in Nat /\ proc[p].n \in 1 .. Len(eventMatcherActions)
         /\ Place(p) <= 2 * Len(eventMatcherActions) + 4
         /\ proc[p].at \in Ensuring => Place(p) > 0 /\ ~proc[p].registered
         /\ ~proc[p].registered /\ proc[p].at \notin Ensuring => Place(p) = 0
         /\ proc[p].registered => Place(p) = 2 * Len(eventMatcherActions) + 4
         /\ proc[p].at = "mapping" => Place(p) = 1
         /\ proc[p].at = "transport" => Place(p) = 2
         /\ proc[p].at = "rule" => Place(p) = 3
         /\ proc[p].at = "policy" => Place(p) = 2 * proc[p].n + 2
         /\ proc[p].at = "binding" => Place(p) = 2 * proc[p].n + 3
<1>1. /\ Len(eventMatcherActions) \in Nat /\ proc[p].n \in 1 .. Len(eventMatcherActions)
      /\ proc[p].at \in Ensuring => ~proc[p].registered
  BY ConfigurationTypes, ProcTypes DEF WebhookInv, HeldInv, Ensuring
<1>2. CASE proc[p].registered
  BY <1>1, <1>2 DEF Place, Ensuring
<1>3. CASE ~proc[p].registered /\ proc[p].at \in Ensuring
  <2>1. CASE proc[p].at = "mapping"
    BY <1>1, <1>3, <2>1 DEF Place, Ensuring
  <2>2. CASE proc[p].at = "transport"
    BY <1>1, <1>3, <2>2 DEF Place, Ensuring
  <2>3. CASE proc[p].at = "rule"
    BY <1>1, <1>3, <2>3 DEF Place, Ensuring
  <2>4. CASE proc[p].at = "policy"
    BY <1>1, <1>3, <2>4 DEF Place, Ensuring
  <2>5. CASE proc[p].at = "binding"
    BY <1>1, <1>3, <2>5 DEF Place, Ensuring
  <2>. QED  BY <1>3, <2>1, <2>2, <2>3, <2>4, <2>5 DEF Ensuring
<1>4. CASE ~proc[p].registered /\ proc[p].at \notin Ensuring
  <2>1. Place(p) = 0
    BY <1>4 DEF Place, Ensuring
  <2>. QED  BY <1>1, <1>4, <2>1 DEF Ensuring
<1>. QED  BY <1>2, <1>3, <1>4

\* A pod that is refused finds what another one, now further, has made.
LEMMA RefusedBehind ==
  ASSUME WebhookInv, Undisturbed, NEW p \in Pods, Refused(p)
  PROVE  \E q \in Pods : Place(q) > Place(p)
<1> USE ConfigurationTypes
<1>1. /\ p \in Processes /\ p \in Pods \ undone /\ ProgressInv(p)
      /\ Policy(p) \in Policies /\ TypeOK
  BY ProcTypes DEF WebhookInv, Undisturbed, Processes
<1>2. /\ proc[p].n \in 1 .. Len(eventMatcherActions)
      /\ proc[p].at = "mapping" => Place(p) = 1
      /\ proc[p].at = "transport" => Place(p) = 2
      /\ proc[p].at = "rule" => Place(p) = 3
      /\ proc[p].at = "policy" => Place(p) = 2 * proc[p].n + 2
      /\ proc[p].at = "binding" => Place(p) = 2 * proc[p].n + 3
  BY <1>1, Places
<1>3. SUFFICES Reached(Place(p))
  BY DEF Reached
<1>4. CASE proc[p].at \in Writing /\ proc[p].stage = "write" /\ proc[p].found # 0
  <2>1. proc[p].found = pk[Item(p)]
    BY <1>1, <1>4 DEF ProgressInv
  <2>2. proc[p].at = "rule" => Kept(proc[p].held["transport"])
    BY <1>1 DEF ProgressInv, Kept
  <2>. QED  BY <1>4, <2>1, <2>2 DEF Refused, Writing
<1>5. CASE proc[p].at \in Writing /\ proc[p].found = 0
  <2>1. proc[p].at = "rule" => Kept(proc[p].held["transport"])
    BY <1>1 DEF ProgressInv, Kept
  <2>2. pk[Item(p)] # 0
    BY <1>5, <2>1 DEF Refused, Writing
  <2>3. CASE proc[p].at \in {"mapping", "transport", "rule"}
    BY <1>2, <2>2, <2>3 DEF Item, Undisturbed
  <2>4. CASE proc[p].at = "policy"
    <3>1. pk[eventMatcherActions[proc[p].n]] # 0
      BY <2>2, <2>4 DEF Item, Policy
    <3>. QED  BY <1>2, <2>4, <3>1 DEF Undisturbed
  <2>. QED  BY <1>5, <2>3, <2>4 DEF Writing
<1>6. CASE proc[p].at = "binding"
  <2>1. Kept(proc[p].held["policy"]) /\ Kept(Target(p))
    BY <1>1, <1>6 DEF ProgressInv, Kept, Target
  <2>2. Binding(p) \in bindings
    BY <1>6, <2>1 DEF Refused, Writing
  <2>3. /\ Binding(p).policy = pk[eventMatcherActions[proc[p].n]]
        /\ Binding(p).target = pk["rule"]
    BY <1>1, <1>6 DEF ProgressInv, Binding, Target, Policy
  <2>4. IsBound(eventMatcherActions[proc[p].n])
    BY <2>2, <2>3 DEF IsBound
  <2>. QED  BY <1>2, <1>6, <2>4 DEF Undisturbed
<1>. QED  BY <1>4, <1>5, <1>6 DEF Refused, Writing

\* A write of an object binds nothing, and a binding binds the policy of the pod.
LEMMA NewBound ==
  ASSUME WebhookInv, NEW p \in Processes, NEW o \in Objects, IsBound(o)'
  PROVE  /\ Same \/ Puts(p) => IsBound(o)
         /\ Binds(p) => IsBound(o) \/ pk[o] = proc[p].held["policy"]
<1> USE ConfigurationTypes
<1>1. TypeOK /\ KeysInv
  BY DEF WebhookInv
<1>2. PICK b \in bindings' : b.policy = pk'[o] /\ b.target = pk'["rule"]
  BY DEF IsBound
<1>3. CASE Same
  BY <1>2, <1>3 DEF Same, authentik, IsBound
<1>4. CASE Puts(p)
  <2>1. Grows /\ b \in bindings
    BY <1>2, <1>4, PutsGrows DEF Puts
  <2>2. PICK x \in Objects : pk[x] = b.policy
    BY <1>1, <2>1 DEF KeysInv
  <2>3. /\ b.policy \in Pks \ {0} /\ b.target = pk["rule"] /\ b.policy <= lastPk
        /\ lastPk \in Pks
    BY <1>1, <2>1, <2>2 DEF TypeOK, KeysInv
  <2>4. pk'[o] # lastPk + 1
    BY <1>2, <2>3 DEF Pks
  <2>5. pk[o] = b.policy
    BY <1>2, <2>1, <2>4 DEF Grows
  <2>. QED  BY <2>1, <2>3, <2>5, Configuration DEF IsBound, Puts, Binds, Writing
<1>5. CASE Binds(p)
  <2>1. pk' = pk /\ b \in bindings \cup {Binding(p)}
    BY <1>2, <1>5 DEF Binds
  <2>. QED  BY <1>2, <1>5, <2>1 DEF IsBound, Binding, Binds, Puts, Writing, Same, authentik
<1>. QED  BY <1>3, <1>4, <1>5

\* A step of an undisturbed pod that fails nothing takes it on, beyond what it writes.
LEMMA Advances ==
  ASSUME WebhookInv, NEW p \in Pods \ undone, Runs(p), proc[p].at \notin Cleaning,
         spent'.faults = 0, spent'.stops = 0
  PROVE  \/ Refused(p) /\ Same /\ proc'[p].at = "waiting" /\ Place(p)' \in Nat
         \/ /\ Place(p)' \in Nat /\ Place(p)' >= Place(p) /\ Same
            /\ proc'[p].at \in Ensuring \cup {"waiting", "leading"}
         \/ /\ Place(p)' \in Nat /\ Place(p)' > Place(p)
            /\ proc'[p].at \in Ensuring \cup {"waiting", "leading"}
            /\ Puts(p) \/ Binds(p)
<1> USE ConfigurationTypes
<1> DEFINE r == proc'[p]
           len == Len(eventMatcherActions)
<1>1. /\ TypeOK /\ HeldInv(p) /\ p \in Processes /\ ProgressInv(p) /\ spent \in SpentType
      /\ proc \in [Processes -> ProcType] /\ proc[p] \in ProcType
      /\ len \in Nat /\ proc[p].n \in 1 .. len
  BY ProcTypes DEF WebhookInv, TypeOK, ProcType, SpentType, Processes
<1>2. ~Fails1(p) /\ ~Terminate(p) /\ ~Kill(p) /\ ~CleanupStep(p)
  <2>1. spent.faults \in Nat /\ spent.stops \in Nat
    BY <1>1 DEF SpentType
  <2>2. ASSUME spent' = [spent EXCEPT !.faults = @ + 1]
        PROVE  FALSE
    BY <1>1, <2>1, <2>2 DEF SpentType
  <2>3. ASSUME spent' = [spent EXCEPT !.stops = @ + 1]
        PROVE  FALSE
    BY <1>1, <2>1, <2>3 DEF SpentType
  <2>. QED  BY <2>2, <2>3 DEF Fails1, Terminate, Kill, CleanupStep
<1>3. CASE Lead(p)
  <2>1. /\ r.at = "leading" /\ r.registered = proc[p].registered /\ Same
        /\ proc[p].at = "waiting"
    BY <1>1, <1>3 DEF Lead, ProcType, Same
  <2>2. /\ proc[p].registered => Place(p)' = Place(p)
        /\ ~proc[p].registered => Place(p)' = 0 /\ Place(p) = 0
    BY <1>1, <2>1 DEF Place
  <2>3. Place(p) \in Nat
    BY <1>1, Places
  <2>. QED  BY <2>1, <2>2, <2>3
<1>4. CASE EnsureStep(p)
  <2>1. proc[p].at \in Ensuring /\ ~proc[p].registered
    BY <1>1, <1>4 DEF EnsureStep, HeldInv, Writing, Ensuring, Refused, Puts, Binds
  <2>2. /\ Place(p) \in Nat
        /\ proc[p].at = "mapping" => Place(p) = 1
        /\ proc[p].at = "transport" => Place(p) = 2
        /\ proc[p].at = "rule" => Place(p) = 3
        /\ proc[p].at = "policy" => Place(p) = 2 * proc[p].n + 2
        /\ proc[p].at = "binding" => Place(p) = 2 * proc[p].n + 3
    BY <1>1, Places
  <2>3. ASSUME NEW key, Looks(p, key)
        PROVE  Place(p)' = Place(p) /\ r.at = proc[p].at /\ Same
    <3>1. r.at = proc[p].at /\ r.n = proc[p].n /\ r.registered = proc[p].registered
      BY <1>1, <2>3 DEF Looks, ProcType
    <3>. QED  BY <2>3, <3>1 DEF Place, Looks
  <2>4. CASE Refused(p) /\ Fails(p, FALSE) /\ Same
    <3>1. r = [proc[p] EXCEPT !.at = "waiting", !.stage = "find", !.faulted = @ \/ FALSE]
      BY <1>1, <2>1, <2>4 DEF Fails, Failed
    <3>2. r.at = "waiting" /\ ~r.registered
      BY <1>1, <2>1, <3>1 DEF ProcType
    <3>3. Place(p)' = 0
      BY <3>2 DEF Place
    <3>. QED  BY <2>4, <3>2, <3>3
  <2>5. ASSUME NEW at \in Ensuring, NEW k, GoOn(p, at, k)
        PROVE  r.at = at /\ ~r.registered /\ r.n = proc[p].n
    BY <1>1, <2>1, <2>5 DEF GoOn, ProcType
  <2>6. CASE Puts(p) /\ GoOn(p, After(proc[p].at), pk'[Item(p)])
    <3>1. proc[p].at \in Writing /\ After(proc[p].at) \in Ensuring
      BY <2>6 DEF Puts, Writing, After, Ensuring
    <3>2. r.at = After(proc[p].at) /\ ~r.registered /\ r.n = proc[p].n
      BY <2>5, <2>6, <3>1
    <3>3. CASE proc[p].at = "mapping"
      <4>1. Place(p)' = 2
        BY <3>2, <3>3 DEF Place, After
      <4>. QED  BY <2>2, <2>6, <3>1, <3>2, <3>3, <4>1
    <3>4. CASE proc[p].at = "transport"
      <4>1. Place(p)' = 3
        BY <3>2, <3>4 DEF Place, After
      <4>. QED  BY <2>2, <2>6, <3>1, <3>2, <3>4, <4>1
    <3>5. CASE proc[p].at = "rule"
      <4>1. Place(p)' = 2 * proc[p].n + 2
        BY <3>2, <3>5 DEF Place, After
      <4>. QED  BY <1>1, <2>2, <2>6, <3>1, <3>2, <3>5, <4>1
    <3>6. CASE proc[p].at = "policy"
      <4>1. Place(p)' = 2 * proc[p].n + 3
        BY <3>2, <3>6 DEF Place, After
      <4>. QED  BY <1>1, <2>2, <2>6, <3>1, <3>2, <3>6, <4>1
    <3>. QED  BY <3>1, <3>3, <3>4, <3>5, <3>6 DEF Writing
  <2>7. CASE proc[p].at = "policy" /\ GoOn(p, "binding", proc[p].found) /\ Same
    <3>1. r.at = "binding" /\ ~r.registered /\ r.n = proc[p].n
      BY <2>5, <2>7 DEF Ensuring
    <3>2. Place(p)' = 2 * proc[p].n + 3
      BY <3>1 DEF Place
    <3>. QED  BY <1>1, <2>2, <2>7, <3>1, <3>2 DEF Ensuring
  <2>8. ASSUME proc[p].at = "binding", NextAction(p)
        PROVE  /\ Place(p)' \in Nat /\ Place(p)' > Place(p)
               /\ r.at \in Ensuring \cup {"waiting", "leading"}
    <3>1. r = IF proc[p].n = len
              THEN [proc[p] EXCEPT !.at = "waiting", !.stage = "find", !.registered = TRUE]
              ELSE [proc[p] EXCEPT !.n = @ + 1, !.at = "policy", !.stage = "find",
                                   !.found = 0]
      BY <1>1, <2>8 DEF NextAction
    <3>2. CASE proc[p].n = len
      <4>1. r.at = "waiting" /\ r.registered
        BY <1>1, <3>1, <3>2 DEF ProcType
      <4>2. Place(p)' = 2 * len + 4
        BY <4>1 DEF Place
      <4> HIDE DEF len
      <4>. QED  BY <1>1, <2>2, <2>8, <3>2, <4>1, <4>2
    <3>3. CASE proc[p].n # len
      <4>1. r.at = "policy" /\ ~r.registered /\ r.n = proc[p].n + 1
        BY <1>1, <2>1, <3>1, <3>3 DEF ProcType
      <4>2. Place(p)' = 2 * (proc[p].n + 1) + 2
        BY <4>1 DEF Place
      <4> HIDE DEF len
      <4>. QED  BY <1>1, <2>2, <2>8, <4>1, <4>2 DEF Ensuring
    <3>. QED  BY <3>2, <3>3
  <2>9. CASE Binds(p) /\ NextAction(p)
    BY <2>8, <2>9 DEF Binds
  <2>10. CASE proc[p].at = "binding" /\ NextAction(p) /\ Same
    BY <2>2, <2>8, <2>10
  <2>11. \A a, b \in Nat : a = b \/ a > b => a >= b
    OBVIOUS
  <2>12. ASSUME NEW key, Looks(p, key)
         PROVE  /\ Place(p)' \in Nat /\ Place(p)' >= Place(p) /\ Same
                /\ proc'[p].at \in Ensuring \cup {"waiting", "leading"}
    BY <2>1, <2>2, <2>3, <2>11, <2>12
  <2>. QED  BY <1>2, <1>4, <2>4, <2>6, <2>7, <2>9, <2>10, <2>12 DEF EnsureStep
<1>. QED  BY <1>2, <1>3, <1>4 DEF Runs

LEMMA UndisturbedRuns ==
  ASSUME WebhookInv, Undisturbed, NEW p \in Processes, Runs(p),
         spent'.faults = 0, spent'.stops = 0
  PROVE  Undisturbed'
<1> USE ConfigurationTypes
<1>1. p \in Running /\ p \in Pods \ undone /\ proc[p].at \notin Cleaning
  <2>1. p \in Running
    BY RunsEffect
  <2>. QED  BY <2>1 DEF Undisturbed, Running, Processes
<1>2. /\ \A q \in Processes : q # p => proc'[q] = proc[q]
      /\ \A q \in Pods : q # p => Place(q)' = Place(q)
  <2>1. proc \in [Processes -> ProcType] /\ proc' = [proc EXCEPT ![p] = proc'[p]]
    BY RunsEffect, OwnType DEF WebhookInv, TypeOK, ProcType
  <2>2. \A q \in Processes : q # p => proc'[q] = proc[q]
    BY <2>1
  <2>. QED  BY <2>2 DEF Place, Processes
<1>3. /\ \A q \in Pods : Place(q) \in Nat
      /\ ProgressInv(p) /\ proc[p].n \in 1 .. Len(eventMatcherActions)
      /\ Policy(p) \in Objects /\ TypeOK
      /\ proc[p].at = "mapping" => Place(p) = 1
      /\ proc[p].at = "transport" => Place(p) = 2
      /\ proc[p].at = "rule" => Place(p) = 3
      /\ proc[p].at = "policy" => Place(p) = 2 * proc[p].n + 2
      /\ proc[p].at = "binding" => Place(p) = 2 * proc[p].n + 3
  BY <1>1, Places, ProcTypes DEF WebhookInv, Processes
<1>4. ASSUME Place(p)' \in Nat, Place(p)' >= Place(p), NEW k \in Nat, Reached(k)
      PROVE  Reached(k)'
  <2>1. PICK q \in Pods : Place(q) > k
    BY <1>4 DEF Reached
  <2>2. Place(q)' > k
    BY <1>2, <1>3, <1>4, <2>1
  <2>. QED  BY <2>2 DEF Reached
<1>5. ASSUME Refused(p), NEW k \in Nat, Reached(k)
      PROVE  Reached(k)'
  <2>1. PICK q \in Pods : Place(q) > k
    BY <1>5 DEF Reached
  <2>2. PICK other \in Pods : Place(other) > Place(p)
    BY <1>1, <1>5, RefusedBehind
  <2>3. other # p
    BY <1>3, <2>2
  <2>4. CASE q = p
    BY <1>2, <1>3, <2>1, <2>2, <2>3, <2>4 DEF Reached
  <2>5. CASE q # p
    BY <1>2, <2>1, <2>5 DEF Reached
  <2>. QED  BY <2>4, <2>5
<1>6. \/ Refused(p) /\ Same /\ proc'[p].at = "waiting" /\ Place(p)' \in Nat
      \/ /\ Place(p)' \in Nat /\ Place(p)' >= Place(p) /\ Same
         /\ proc'[p].at \in Ensuring \cup {"waiting", "leading"}
      \/ /\ Place(p)' \in Nat /\ Place(p)' > Place(p)
         /\ proc'[p].at \in Ensuring \cup {"waiting", "leading"}
         /\ Puts(p) \/ Binds(p)
  BY <1>1, Advances
<1>7. ASSUME NEW k \in Nat, Reached(k)
      PROVE  Reached(k)'
  <2>1. \A a, b \in Nat : a > b => a >= b
    OBVIOUS
  <2>. QED  BY <1>1, <1>3, <1>4, <1>5, <1>6, <1>7, <2>1
<1>8. undone' = {} /\ proc'[p].at \in Ensuring \cup {"waiting", "leading"}
  <2>1. undone' = undone
    BY <1>1, RunsEffect DEF Grows
  <2>. QED  BY <1>6, <2>1 DEF Undisturbed
<1>9. /\ \A q \in Jobs : proc'[q].at = "off"
      /\ \A q \in Pods : proc'[q].at \notin Cleaning
  BY <1>1, <1>2, <1>8, Configuration DEF Undisturbed, Processes, Ensuring, Cleaning
<1>10. Reached(0)'
  BY <1>1, <1>7 DEF Undisturbed
<1>11. ASSUME NEW k \in Nat, Place(p)' > k
       PROVE  Reached(k)'
  BY <1>1, <1>11 DEF Reached
<1>12. ASSUME NEW o \in Objects, pk'[o] # 0, pk[o] = 0
       PROVE  o = Item(p) /\ proc[p].at \in Writing /\ Place(p)' > Place(p)
  <2>1. Puts(p) /\ Place(p)' > Place(p)
    BY <1>6, <1>12 DEF Same, authentik, Binds
  <2>2. pk \in [Objects -> Pks] /\ proc[p].at \in Writing
    BY <1>3, <2>1 DEF Puts, TypeOK
  <2>. QED  BY <1>12, <2>1, <2>2 DEF Puts
<1>13. /\ pk'["mapping"] # 0 => Reached(1)'
       /\ pk'["transport"] # 0 => Reached(2)'
       /\ pk'["rule"] # 0 => Reached(3)'
  <2>1. ASSUME NEW o \in {"mapping", "transport", "rule"}, pk'[o] # 0, pk[o] = 0
        PROVE  proc[p].at = o /\ Place(p)' > Place(p)
    <3>1. o = Item(p) /\ Place(p)' > Place(p)
      BY <1>12, <2>1
    <3>2. proc[p].at # "policy"
      <4>1. proc[p].at = "policy" => Item(p) \in Policies
        BY <1>1, ProcTypes DEF Item, Processes, WebhookInv
      <4>. QED  BY <2>1, <3>1, <4>1, Configuration
    <3>. QED  BY <3>1, <3>2 DEF Item
  <2>2. pk["mapping"] # 0 => Reached(1)'
    BY <1>7 DEF Undisturbed
  <2>3. pk["transport"] # 0 => Reached(2)'
    BY <1>7 DEF Undisturbed
  <2>4. pk["rule"] # 0 => Reached(3)'
    BY <1>7 DEF Undisturbed
  <2>5. pk'["mapping"] # 0 /\ pk["mapping"] = 0 => Reached(1)'
    BY <1>3, <1>11, <2>1
  <2>6. pk'["transport"] # 0 /\ pk["transport"] = 0 => Reached(2)'
    BY <1>3, <1>11, <2>1
  <2>7. pk'["rule"] # 0 /\ pk["rule"] = 0 => Reached(3)'
    BY <1>3, <1>11, <2>1
  <2>. QED  BY <2>2, <2>3, <2>4, <2>5, <2>6, <2>7
<1>14. ASSUME NEW i \in 1 .. Len(eventMatcherActions)
       PROVE  /\ pk'[eventMatcherActions[i]] # 0 => Reached(2 * i + 2)'
              /\ IsBound(eventMatcherActions[i])' => Reached(2 * i + 3)'
  <2> DEFINE o == eventMatcherActions[i]
  <2>1. /\ o \in Policies /\ o \in Objects /\ 2 * i + 2 \in Nat /\ 2 * i + 3 \in Nat
        /\ o \notin {"mapping", "transport", "rule"}
        /\ o = Policy(p) => i = proc[p].n
    BY <1>3, Configuration DEF Policy
  <2>2. ASSUME pk'[o] # 0, pk[o] = 0
        PROVE  Reached(2 * i + 2)'
    <3>1. o = Item(p) /\ proc[p].at \in Writing /\ Place(p)' > Place(p)
      BY <1>12, <2>1, <2>2
    <3>2. proc[p].at = "policy" /\ i = proc[p].n
      BY <2>1, <3>1 DEF Item, Writing
    <3>3. Place(p)' > 2 * i + 2
      BY <1>3, <3>1, <3>2
    <3>. QED  BY <1>11, <2>1, <3>3
  <2>3. ASSUME pk[o] # 0
        PROVE  Reached(2 * i + 2)'
    BY <1>7, <2>1, <2>3 DEF Undisturbed
  <2>4. ASSUME IsBound(o)
        PROVE  Reached(2 * i + 3)'
    BY <1>7, <2>1, <2>4 DEF Undisturbed
  <2>5. ASSUME IsBound(o)', ~IsBound(o)
        PROVE  Reached(2 * i + 3)'
    <3>1. Binds(p) /\ pk[o] = proc[p].held["policy"]
      BY <1>6, <2>1, <2>5, NewBound
    <3>2. pk[o] = pk[Policy(p)] /\ pk[o] # 0 /\ proc[p].at = "binding"
      BY <1>3, <3>1 DEF ProgressInv, Binds
    <3>3. o = Policy(p)
      BY <1>3, <2>1, <3>2 DEF WebhookInv, KeysInv
    <3>4. Place(p)' > Place(p)
      BY <1>6, <2>1, <2>5, <3>1, NewBound
    <3>. QED  BY <1>3, <1>11, <2>1, <3>2, <3>3, <3>4
  <2>. QED  BY <2>2, <2>3, <2>4, <2>5
<1>. QED  BY <1>8, <1>9, <1>10, <1>13, <1>14 DEF Undisturbed

LEMMA UndisturbedStarts ==
  ASSUME WebhookInv, Undisturbed, NEW p \in Pods, Start(p)
  PROVE  Undisturbed'
<1> USE ConfigurationTypes
<1>1. /\ p \in Processes /\ proc[p].at = "off" /\ p \notin Jobs
      /\ UNCHANGED <<pk, bindings>> /\ undone' = undone \ {p}
  BY Configuration DEF Start, Processes
<1>2. proc'[p].at \in {"mapping", "transport"} /\ ~proc'[p].registered
  <2>1. proc'[p] = [Off EXCEPT !.at = IF Secret THEN "mapping" ELSE "transport"]
    BY <1>1 DEF Start
  <2>. QED  BY <2>1 DEF Off
<1>3. ASSUME NEW q \in Processes, q # p
      PROVE  proc'[q].at = proc[q].at /\ Place(q)' = Place(q)
  <2>1. proc[q] \in ProcType /\ proc'[q] = [proc[q] EXCEPT !.cleaned = FALSE]
    BY <1>3 DEF Start, WebhookInv, TypeOK, ProcType
  <2>2. /\ proc'[q].at = proc[q].at /\ proc'[q].n = proc[q].n
        /\ proc'[q].registered = proc[q].registered
    BY <2>1 DEF ProcType
  <2>. QED  BY <2>2 DEF Place
<1>4. Place(p) = 0
  BY <1>1, Places DEF Ensuring, WebhookInv, HeldInv
<1>5. Place(p)' > 0
  <2>1. Place(p)' \in {1, 2}
    BY <1>2 DEF Place
  <2>. QED  BY <2>1
<1>6. ASSUME NEW k \in Nat, Reached(k)
      PROVE  Reached(k)'
  <2>1. PICK q \in Pods : Place(q) > k
    BY <1>6 DEF Reached
  <2>2. q # p /\ q \in Processes
    BY <1>4, <2>1 DEF Processes
  <2>. QED  BY <1>3, <2>1, <2>2 DEF Reached
<1>7. Reached(0)'
  BY <1>5 DEF Reached
<1>8. undone' = {}
  BY <1>1 DEF Undisturbed
<1>9. /\ \A q \in Jobs : proc'[q].at = "off"
      /\ \A q \in Pods : proc'[q].at \notin Cleaning
  BY <1>1, <1>2, <1>3 DEF Undisturbed, Processes, Cleaning
<1>10. \A o \in Objects : IsBound(o)' => IsBound(o)
  BY <1>1 DEF IsBound
<1>11. \A i \in 1 .. Len(eventMatcherActions) :
         /\ pk'[eventMatcherActions[i]] # 0 => Reached(2 * i + 2)'
         /\ IsBound(eventMatcherActions[i])' => Reached(2 * i + 3)'
  BY <1>1, <1>6, <1>10 DEF Undisturbed
<1>12. /\ pk'["mapping"] # 0 => Reached(1)'
       /\ pk'["transport"] # 0 => Reached(2)'
       /\ pk'["rule"] # 0 => Reached(3)'
  BY <1>1, <1>6 DEF Undisturbed
<1>. QED  BY <1>7, <1>8, <1>9, <1>11, <1>12 DEF Undisturbed

LEMMA CompanyStep ==
  ASSUME WebhookInv, CompanyInv, [Next]_vars
  PROVE  CompanyInv'
<1> DEFINE count == Cardinality(Running \cap Pods)
<1>1. /\ TypeOK /\ spent \in SpentType /\ IsFiniteSet(Running \cap Pods) /\ count \in Nat
      /\ spent.starts \in Nat
  BY RunningPods, Configuration DEF WebhookInv, TypeOK, SpentType
<1>2. CASE UNCHANGED vars
  BY <1>2 DEF vars, authentik, CompanyInv, Running, Undisturbed, Reached, Place, IsBound
<1>3. ASSUME NEW p \in Processes, Start(p)
      PROVE  CompanyInv'
  <2>1. /\ spent'.starts = spent.starts + 1 /\ spent'.faults = spent.faults
        /\ spent'.stops = spent.stops
    BY <1>1, <1>3 DEF Start, SpentType
  <2>2. Running' = Running \cup {p}
    <3>1. \A q \in Processes : q # p => proc'[q].at = proc[q].at
      BY <1>1, <1>3 DEF Start, TypeOK
    <3>2. proc'[p].at # "off"
      <4> DEFINE at == IF p \in Jobs THEN "cleanPolicy"
                       ELSE IF Secret THEN "mapping" ELSE "transport"
      <4>1. proc'[p] = [Off EXCEPT !.at = at]
        BY <1>3 DEF Start
      <4>2. at # "off"
        OBVIOUS
      <4> HIDE DEF at
      <4>. QED  BY <4>1, <4>2 DEF Off
    <3>. QED  BY <3>1, <3>2 DEF Running
  <2>3. CASE p \in Pods
    <3>1. Running' \cap Pods = (Running \cap Pods) \cup {p}
      BY <2>2, <2>3
    <3>2. count' <= count + 1 /\ count' \in Nat
      BY <1>1, <3>1, FS_AddElement
    <3>3. Undisturbed => Undisturbed'
      BY <1>3, <2>3, UndisturbedStarts
    <3>. QED  BY <1>1, <2>1, <3>2, <3>3 DEF CompanyInv
  <2>4. CASE p \notin Pods
    <3>1. Running' \cap Pods = Running \cap Pods
      BY <2>2, <2>4
    <3>2. count' = count
      BY <3>1
    <3>. QED  BY <1>1, <2>1, <3>2 DEF CompanyInv
  <2>. QED  BY <2>3, <2>4
<1>4. ASSUME NEW p \in Processes, Runs(p)
      PROVE  CompanyInv'
  <2>1. /\ spent'.starts = spent.starts /\ p \in Running
        /\ spent'.faults = 0 => spent.faults = 0
        /\ spent'.stops = 0 => spent.stops = 0
    BY <1>4, RunsEffect
  <2>2. Running' \subseteq Running
    <3>1. proc \in [Processes -> ProcType] /\ proc' = [proc EXCEPT ![p] = proc'[p]]
      BY <1>1, <1>4, RunsEffect, OwnType DEF TypeOK, ProcType
    <3>. QED  BY <2>1, <3>1 DEF Running
  <2>3. count' <= count /\ count' \in Nat
    <3>1. Running' \cap Pods \in SUBSET (Running \cap Pods)
      BY <2>2
    <3>2. IsFiniteSet(Running' \cap Pods) /\ count' <= count
      BY <1>1, <3>1, FS_Subset
    <3>. QED  BY <3>2, FS_CardinalityType
  <2>4. spent'.faults = 0 /\ spent'.stops = 0 /\ Undisturbed => Undisturbed'
    BY <1>4, UndisturbedRuns
  <2>. QED  BY <1>1, <2>1, <2>3, <2>4 DEF CompanyInv
<1>. QED  BY <1>2, <1>3, <1>4, NextCases DEF WebhookInv

LEMMA CompanyStart == Init => CompanyInv
<1> SUFFICES ASSUME Init PROVE CompanyInv
  OBVIOUS
<1>1. /\ Running = {} /\ spent.starts = 0 /\ undone = {} /\ bindings = {}
      /\ \A o \in Objects : pk[o] = 0
      /\ \A p \in Processes : proc[p].at = "off"
  BY DEF Init, Running, Off
<1>2. Running \cap Pods = {} /\ Cardinality({}) = 0
  BY <1>1, FS_EmptySet
<1>3. \A o : ~IsBound(o)
  BY <1>1 DEF IsBound
<1>4. Undisturbed
  BY <1>1, <1>3, ConfigurationTypes DEF Undisturbed, Processes, Cleaning
<1>. QED  BY <1>1, <1>2, <1>4 DEF CompanyInv

LEMMA CompanyInvariant == Spec => []CompanyInv
<1>1. Init => CompanyInv
  BY CompanyStart
<1>2. WebhookInv /\ CompanyInv /\ [Next]_vars => CompanyInv'
  BY CompanyStep
<1>. QED  BY <1>1, <1>2, WebhookInvariant, PTL DEF Spec

\* When all pods have started once, without a fault or a stop, and the last of them
\* is through EnsureEventWebhookConfig, the registration is complete, although pods
\* that found an object of another one too late have fallen back to polling.
THEOREM OneSucceeds == Spec => []SomeoneRegisters
<1>1. WebhookInv /\ CompanyInv => SomeoneRegisters
  <2> SUFFICES ASSUME WebhookInv, CompanyInv, spent.faults = 0, spent.stops = 0,
                      spent.starts = Cardinality(Pods),
                      \A p \in Pods : proc[p].at \in {"waiting", "leading"}
               PROVE  Complete
    BY DEF SomeoneRegisters
  <2>1. Pods \subseteq Running /\ Running # {}
    BY Configuration DEF Running, Processes
  <2>2. Cardinality(Running \cap Pods) = Cardinality(Pods)
    <3>1. Running \cap Pods = Pods
      BY <2>1
    <3>. QED  BY <3>1
  <2>3. Cardinality(Pods) \in Nat
    BY FS_CardinalityType, Configuration
  <2>4. Undisturbed
    BY <2>2, <2>3 DEF CompanyInv
  <2>5. PICK p \in Pods : Place(p) > 0
    BY <2>1, <2>4 DEF Undisturbed, Reached
  <2>6. p \in Processes /\ p \in Pods \ undone
    BY <2>4 DEF Processes, Undisturbed
  <2>7. proc[p].at \notin Ensuring
    BY DEF Ensuring
  <2>8. proc[p].registered
    BY <2>5, <2>6, <2>7, Places
  <2>. QED  BY <2>6, <2>8 DEF WebhookInv, KeysInv, ProgressInv, IsBound, Complete
<1>. QED  BY <1>1, WebhookInvariant, CompanyInvariant, PTL
=============================================================================
