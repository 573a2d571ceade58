---------------------------- MODULE MCAdmission ----------------------------
(* Instances of MCReconciler with the admission webhook. *)
EXTENDS MCReconciler, Admission

\* The user renames the secret with a template that cannot be rendered, or names a
\* flow that Authentik does not have; and mends it.
LiveSpecs == [c \in CRs |->
  {A(s1, n1, "default", l1), A(s1, n2, "unrenderable", l1),
   [A(s1, n1, "default", l1) EXCEPT !.settings = "dangling"]}]

\* Bound on combinations: a fault or an administrator's deletion, not both.
FaultOrDrift == spent.faults + spent.drifts <= 1
=============================================================================
