----------------------------- MODULE Admission -----------------------------
(***************************************************************************)
(* The validating admission webhook next to the reconcile loop.  The API   *)
(* server asks it before it stores a create or an update of a custom       *)
(* resource, from the user or from the operator itself: the updates that   *)
(* add and remove the finalizer are among them, the status subresource and *)
(* deletes are not.  The webhook may be switched on and off by a Helm      *)
(* upgrade while there are resources it would not have admitted.           *)
(***************************************************************************)
EXTENDS ReconcilerProperties

CONSTANT Refused  \* classes of templates that ValidateCreate and ValidateUpdate refuse

\* A malformed template does not parse; whether an unrenderable one fails with the
\* dummy values too depends on the template.
ASSUME RefusedAssumption ==
  {"malformed"} \subseteq Refused /\ Refused \subseteq {"malformed", "unrenderable"}

VARIABLE enabled  \* the ValidatingWebhookConfiguration is in place

admissionVars == <<vars, enabled>>

AdmissionInit == Init /\ enabled \in BOOLEAN

-----------------------------------------------------------------------------

validateTemplate(spec) == spec.template \notin Refused

\* A create or an update of the object itself is in this step ...
Asked(c) ==
  \/ Exists(cr'[c]) /\ cr'[c].spec # cr[c].spec
  \/ cr'[c].fin # cr[c].fin

\* ... and this is the spec of the new object.
NewSpec(c) == IF Exists(cr'[c]) THEN cr'[c].spec ELSE cr[c].spec

\* ValidateCreate, ValidateUpdate and failurePolicy Fail.
Admitted == enabled => \A c \in CRs : Asked(c) => validateTemplate(NewSpec(c))

\* Mutant of RefuseUpdate: the refusal of the finalizer is taken for final.
RefuseForGood(c) ==
  /\ enabled /\ ~validateTemplate(App(c).spec)
  /\ work[c].pc \in {"addFinalizer", "removeFinalizer"}
  /\ Return(c)
  /\ UNCHANGED <<kubernetes, authentik, spent, enabled>>

\* The r.Update of the finalizer is refused, and Reconcile returns the error.
RefuseUpdate(c) ==
  /\ enabled /\ ~validateTemplate(App(c).spec)
  /\ work[c].pc \in {"addFinalizer", "removeFinalizer"}
  /\ ReturnRequeue(c)
  /\ UNCHANGED <<kubernetes, authentik, spent, enabled>>

\* helm upgrade with another webhook.enabled.
Configure == enabled' = ~enabled /\ UNCHANGED vars

AdmittedReconcile(c) ==
  RefuseUpdate(c) \/ (Reconcile(c) /\ Admitted /\ UNCHANGED enabled)

AdmissionNext ==
  \/ Next /\ Admitted /\ UNCHANGED enabled
  \/ \E c \in CRs : RefuseUpdate(c)
  \/ Configure

AdmissionSpec == AdmissionInit /\ [][AdmissionNext]_admissionVars

\* What FairSpec says, with the webhook in between.
FairAdmissionSpec ==
  /\ AdmissionSpec
  /\ \A c \in CRs :
       /\ WF_admissionVars(AdmittedReconcile(c))
       /\ WF_admissionVars(WatchCR(c) /\ UNCHANGED enabled)
       /\ WF_admissionVars(TimerFires(c) /\ UNCHANGED enabled)
  /\ \A n \in SecretNames :
       /\ WF_admissionVars(WatchSecret(n) /\ UNCHANGED enabled)
       /\ WF_admissionVars(CollectSecret(n) /\ UNCHANGED enabled)

-----------------------------------------------------------------------------
(* Properties *)

Blocked(c) == enabled /\ ~validateTemplate(cr[c].spec)

\* A resource that is being deleted goes, except while the webhook is on and
\* refuses its template: then the update that removes the finalizer is refused, and
\* the deletion goes on when the template is mended or the webhook switched off.
DeletionCompletesUnlessBlocked ==
  \A c \in CRs : cr[c].del ~> ~cr[c].del \/ Blocked(c)

=============================================================================
