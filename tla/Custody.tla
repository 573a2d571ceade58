------------------------------ MODULE Custody ------------------------------
(***************************************************************************)
(* What the operator promises about the applications in Authentik, without *)
(* how it keeps it: a custom resource is taken into custody before any     *)
(* application is written for it, its deletion is not taken back, and it   *)
(* is let go only when no application is left that was written for it.     *)
(***************************************************************************)
EXTENDS Naturals

CONSTANTS Keys,   \* namespace/name of the custom resources
          Slugs,  \* slugs of applications
          Uids    \* uids of custom resources

VARIABLES
  held,     \* held[k]: uid of the resource k in custody, 0 when there is none
  leaving,  \* keys of the resources in custody whose deletion was asked for
  owner     \* owner[s]: uid the application s was last written for, 0 without one

vars == <<held, leaving, owner>>

Init == held = [k \in Keys |-> 0] /\ leaving = {} /\ owner = [s \in Slugs |-> 0]

\* The finalizer is added to a resource that nothing was written for before.
Hold(k, u) ==
  /\ held[k] = 0
  /\ \A j \in Keys : held[j] # u
  /\ \A s \in Slugs : owner[s] # u
  /\ held' = [held EXCEPT ![k] = u]
  /\ UNCHANGED <<leaving, owner>>

\* Also for a resource that is leaving: the reconcile may not know yet.
Write(k, s) ==
  /\ held[k] # 0
  /\ owner' = [owner EXCEPT ![s] = held[k]]
  /\ UNCHANGED <<held, leaving>>

\* By a deletion, of whichever resource has the slug, or by an administrator.
Withdraw(s) ==
  /\ owner' = [owner EXCEPT ![s] = 0]
  /\ UNCHANGED <<held, leaving>>

AskToLeave(k) ==
  /\ held[k] # 0
  /\ leaving' = leaving \cup {k}
  /\ UNCHANGED <<held, owner>>

LetGo(k) ==
  /\ k \in leaving
  /\ \A s \in Slugs : owner[s] # held[k]
  /\ held' = [held EXCEPT ![k] = 0]
  /\ leaving' = leaving \ {k}
  /\ UNCHANGED owner

Next ==
  \/ \E k \in Keys :
       \/ \E u \in Uids : Hold(k, u)
       \/ \E s \in Slugs : Write(k, s)
       \/ AskToLeave(k) \/ LetGo(k)
  \/ \E s \in Slugs : Withdraw(s)

Spec == Init /\ [][Next]_vars

=============================================================================
