---------------------------- MODULE EventWebhook ----------------------------
(***************************************************************************)
(* Event-driven drift detection.  Authentik posts a notification when      *)
(* something changes; the receiver sends one event per custom resource of  *)
(* either kind into a bounded channel without ever blocking; the channel   *)
(* sources of the two controllers receive from that one channel and put    *)
(* the name into the queue of their own kind.  The requeue after           *)
(* RequeueDelay goes on underneath.                                        *)
(*                                                                         *)
(* A reconcile is one step here: Reconciler has its inside.                *)
(***************************************************************************)
EXTENDS Naturals, Sequences, FiniteSets

CONSTANTS OAuth2,        \* names of the AuthentikOAuth2Applications
          SAMLs,         \* names of the AuthentikSAMLApplications
          Requests,      \* requests the HTTP server serves concurrently
          ChannelSize,   \* capacity of eventChan
          MaxDrifts,     \* how often something is changed in Authentik
          MaxListErrors  \* how many List calls fail

ASSUME Sizes ==
  ChannelSize \in Nat \ {0} /\ MaxDrifts \in Nat /\ MaxListErrors \in Nat

Kinds == {"oauth2", "saml"}
Names(kind) == IF kind = "oauth2" THEN OAuth2 ELSE SAMLs
Apps == {a \in [kind : Kinds, name : OAuth2 \cup SAMLs] : a.name \in Names(a.kind)}

VARIABLES
  drifted,    \* resources Authentik does not agree with since it was changed
  posts,      \* notifications on their way to the receiver
  handler,    \* handler[r]: where ServeHTTP is with request r
  eventChan,  \* the channel
  queue,      \* queue[k]: names in the workqueue of the controller of kind k
  timers,     \* resources with a requeue pending
  spent,      \* drifts and list errors so far
  missed      \* history: resources whose event went nowhere since their reconcile

vars == <<drifted, posts, handler, eventChan, queue, timers, spent, missed>>

\* pc is the list being sent, todo what is left of it to send.
Idle == [pc |-> "idle", todo |-> {}]
Handler == [pc : {"idle", "listOAuth2", "oauth2", "listSAML", "saml", "answer"},
            todo : SUBSET Apps]

TypeOK ==
  /\ drifted \subseteq Apps /\ timers \subseteq Apps /\ missed \subseteq Apps
  /\ posts \in 0 .. MaxDrifts
  /\ handler \in [Requests -> Handler]
  /\ eventChan \in Seq(Apps) /\ Len(eventChan) <= ChannelSize
  /\ queue \in [Kinds -> SUBSET (OAuth2 \cup SAMLs)]
  /\ spent \in [drifts : 0 .. MaxDrifts, errors : 0 .. MaxListErrors]

\* Every resource has been reconciled once.
Init ==
  /\ drifted = {} /\ posts = 0
  /\ handler = [r \in Requests |-> Idle]
  /\ eventChan = << >>
  /\ queue = [k \in Kinds |-> {}]
  /\ timers = Apps
  /\ spent = [drifts |-> 0, errors |-> 0]
  /\ missed = {}

-----------------------------------------------------------------------------
(* Authentik *)

\* A change of one application or provider, and the notification of it.
Drift(a) ==
  /\ spent.drifts < MaxDrifts
  /\ spent' = [spent EXCEPT !.drifts = @ + 1]
  /\ drifted' = drifted \cup {a}
  /\ posts' = posts + 1
  /\ UNCHANGED <<handler, eventChan, queue, timers, missed>>

-----------------------------------------------------------------------------
(* Receiver *)

\* A POST that passes the checks of the token, the method and the body.
ServeHTTP(r) ==
  /\ handler[r].pc = "idle" /\ posts > 0
  /\ posts' = posts - 1
  /\ handler' = [handler EXCEPT ![r].pc = "listOAuth2"]
  /\ UNCHANGED <<drifted, eventChan, queue, timers, spent, missed>>

\* After an error the function returns and the next one is called.
ListApps(r, list, kind, next) ==
  /\ handler[r].pc = list
  /\ \/ /\ handler' = [handler EXCEPT ![r] =
             [pc |-> kind, todo |-> {a \in Apps : a.kind = kind}]]
        /\ UNCHANGED <<spent, missed>>
     \/ /\ spent.errors < MaxListErrors
        /\ spent' = [spent EXCEPT !.errors = @ + 1]
        /\ handler' = [handler EXCEPT ![r].pc = next]
        /\ missed' = missed \cup {a \in Apps : a.kind = kind}
  /\ UNCHANGED <<drifted, posts, eventChan, queue, timers>>

ListSAML(r) == ListApps(r, "listSAML", "saml", "answer")

\* Mutant of ListOAuth2: an error of the first List ends the request.
ListOAuth2OrAnswer(r) == ListApps(r, "listOAuth2", "oauth2", "answer")

ListOAuth2(r) == ListApps(r, "listOAuth2", "oauth2", "listSAML")

\* Mutant of TrySend: the send waits for room in the channel.
SendOrWait(a) ==
  /\ Len(eventChan) < ChannelSize
  /\ eventChan' = Append(eventChan, a)
  /\ UNCHANGED missed

\* select with default: the event is dropped when the channel is full.
TrySend(a) ==
  \/ /\ Len(eventChan) < ChannelSize
     /\ eventChan' = Append(eventChan, a)
     /\ UNCHANGED missed
  \/ /\ Len(eventChan) = ChannelSize
     /\ missed' = missed \cup {a}
     /\ UNCHANGED eventChan

SendOne(r) ==
  /\ \E a \in handler[r].todo :
       TrySend(a) /\ handler' = [handler EXCEPT ![r].todo = @ \ {a}]
  /\ UNCHANGED <<drifted, posts, queue, timers, spent>>

SentAll(r) ==
  /\ handler[r].pc \in Kinds /\ handler[r].todo = {}
  /\ handler' = [handler EXCEPT ![r].pc = IF @ = "oauth2" THEN "listSAML" ELSE "answer"]
  /\ UNCHANGED <<drifted, posts, eventChan, queue, timers, spent, missed>>

Answer(r) ==
  /\ handler[r].pc = "answer"
  /\ handler' = [handler EXCEPT ![r] = Idle]
  /\ UNCHANGED <<drifted, posts, eventChan, queue, timers, spent, missed>>

Serve(r) ==
  ServeHTTP(r) \/ ListOAuth2(r) \/ ListSAML(r) \/ SendOne(r) \/ SentAll(r) \/ Answer(r)

-----------------------------------------------------------------------------
(* Controllers *)

\* source.Channel with EnqueueRequestForObject: whichever controller is first
\* gets the event, and the request it queues has a name but no kind.
Receive(kind) ==
  /\ eventChan # << >>
  /\ eventChan' = Tail(eventChan)
  /\ LET a == Head(eventChan) IN
     /\ queue' = [queue EXCEPT ![kind] = @ \cup {a.name}]
     /\ missed' = IF a.kind = kind THEN missed ELSE missed \cup {a}
  /\ UNCHANGED <<drifted, posts, handler, timers, spent>>

\* Mutant of Reconcile: the SAML controller requeues nothing after a success.
ReconcileSAMLOnce(kind, name) ==
  LET a == [kind |-> kind, name |-> name] IN
  /\ name \in queue[kind]
  /\ queue' = [queue EXCEPT ![kind] = @ \ {name}]
  /\ drifted' = drifted \ {a} /\ missed' = missed \ {a}
  /\ timers' = timers \cup {b \in {a} \cap Apps : b.kind = "oauth2"}
  /\ UNCHANGED <<posts, handler, eventChan, spent>>

\* Mutant of Reconcile: a name that is not found is requeued like the others.
RequeueNotFound(kind, name) ==
  LET a == [kind |-> kind, name |-> name] IN
  /\ name \in queue[kind]
  /\ queue' = [queue EXCEPT ![kind] = @ \ {name}]
  /\ drifted' = drifted \ {a} /\ missed' = missed \ {a}
  /\ timers' = timers \cup {a}
  /\ UNCHANGED <<posts, handler, eventChan, spent>>

\* A name the controller's kind does not have is not found and ignored.
Reconcile(kind, name) ==
  LET a == [kind |-> kind, name |-> name] IN
  /\ name \in queue[kind]
  /\ queue' = [queue EXCEPT ![kind] = @ \ {name}]
  /\ drifted' = drifted \ {a} /\ missed' = missed \ {a}
  /\ timers' = timers \cup ({a} \cap Apps)
  /\ UNCHANGED <<posts, handler, eventChan, spent>>

TimerFires(a) ==
  /\ a \in timers
  /\ timers' = timers \ {a}
  /\ queue' = [queue EXCEPT ![a.kind] = @ \cup {a.name}]
  /\ UNCHANGED <<drifted, posts, handler, eventChan, spent, missed>>

Control(kind) == Receive(kind) \/ \E name \in OAuth2 \cup SAMLs : Reconcile(kind, name)

-----------------------------------------------------------------------------

Next ==
  \/ \E a \in Apps : Drift(a) \/ TimerFires(a)
  \/ \E r \in Requests : Serve(r)
  \/ \E k \in Kinds : Control(k)

Spec == Init /\ [][Next]_vars

\* Every goroutine runs, and the workqueue hands out every name that is in it:
\* each is fair on its own.
FairSpec ==
  /\ Spec
  /\ \A r \in Requests : WF_vars(Serve(r))
  /\ \A k \in Kinds :
       /\ WF_vars(Receive(k))
       /\ \A name \in OAuth2 \cup SAMLs : WF_vars(Reconcile(k, name))
  /\ \A a \in Apps : WF_vars(TimerFires(a))

-----------------------------------------------------------------------------
(* Properties *)

Quiet ==
  /\ posts = 0 /\ \A r \in Requests : handler[r].pc = "idle"
  /\ eventChan = << >> /\ \A k \in Kinds : queue[k] = {}

\* When no notification, request, event or reconcile is outstanding, what is
\* still out of sync had its event dropped, given to the wrong controller, or
\* never sent because its List failed: nothing else loses an event, and one
\* List that fails does not cost the other kind its events.
NothingElseMissed == Quiet => drifted \subseteq missed

\* "near-instant drift detection" (cmd/main.go:68): then nothing is out of sync.
DetectedWithoutPolling == Quiet => drifted = {}

\* Polling makes good what the events miss (cmd/main.go:296).
DriftRepaired == \A a \in Apps : a \in drifted ~> a \notin drifted

\* Authentik gets its answer although no controller takes an event: a request
\* that is being served can always go on by itself.
NeverWaits == \A r \in Requests : handler[r].pc # "idle" => ENABLED Serve(r)

=============================================================================
