---------------------------- MODULE MCReconciler ----------------------------
(* Small instances of Reconciler for TLC: one or two resources. *)
EXTENDS ReconcilerProperties

CONSTANTS c1, c2, s1, s2, n1, n2, l1, l2

A(slug, secret, template, label) ==
  [slug |-> slug, secret |-> secret, template |-> template, labels |-> label,
   settings |-> "complete"]

\* Resources whose specs never change what they name: slug s1 and secret n1 of
\* c1, slug s2 and secret n2 of c2.
OneSpec == [c \in CRs |->
  IF c = c1 THEN {A(s1, n1, "default", l1)} ELSE {A(s2, n2, "default", l1)}]

\* The user renames the secret and gives it data that do not depend on the provider,
\* breaks the template, and mends it.
LifeSpecs == [c \in CRs |->
  {A(s1, n1, "default", l1), A(s1, n2, "constant", l1), A(s1, n1, "malformed", l1)}]

\* Bound on combinations: an administrator's deletion goes with edits and faults, in
\* the life of the first resource, crashes and second lives go without it; and a
\* second life goes with an edit, or with a fault and a crash, but not with both.
DriftBound ==
  /\ spent.drifts = 0 \/ (nextUid <= 2 /\ spent.crashes = 0)
  /\ nextUid <= 2 \/ spent.edits = 0 \/ spent.faults + spent.crashes = 0

\* Two resources that name the same slug and the same secret, one of them with data
\* that do not depend on its provider.
SharedAll == [c \in CRs |->
  {A(s1, n1, IF c = c1 THEN "custom" ELSE "constant", l1)}]

\* The user changes only the labels of the secret.
LabelSpecs == [c \in CRs |-> {A(s1, n1, "default", l1), A(s1, n1, "default", l2)}]
=============================================================================
