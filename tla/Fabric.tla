------------------------------- MODULE Fabric -------------------------------
(***************************************************************************)
(* The Remote Node Fabric (firm-fabric): a Control Plane that owns the     *)
(* route of every operation, and the gateways of the nodes that submit     *)
(* operations to it and apply the ones it delivers.                        *)
(*                                                                         *)
(* One gateway connection is one session, named by its node and gateway    *)
(* generation; a predecessor's process may still run beside its successor. *)
(* A session speaks in strict request and response, so an exchange is one  *)
(* step of the Control Plane (request read, transaction, response) between *)
(* two steps of the node.  A lost request, a lost response, a crash, a     *)
(* read timeout and a refusal all end the session: SessionEnds, before or  *)
(* after the Control Plane's step.  Every Store transaction is atomic (a   *)
(* torn last frame is dropped when the Store is opened).                   *)
(*                                                                         *)
(* Time is left open.  Each machine compares an operation's expiry, and a  *)
(* lease's, with its own wall clock, and every such look may come out      *)
(* either way.  The NodeDaemon generation a gateway speaks for is the one  *)
(* in the node's current certificate: it grows with the gateway generation *)
(* and is not kept apart from it.                                          *)
(***************************************************************************)
EXTENDS Naturals, Sequences, FiniteSets

CONSTANTS
    Node,           \* enrolled nodes
    ControlPlane,   \* the Control Plane, as a source
    NumOps,         \* operations, named by their ids in the Store's order
    SourceOf,       \* per operation: the node that submits it, or ControlPlane
    TargetOf,       \* per operation: the node that applies it
    KeyOf,          \* per operation: its ordering key at its target
    NoOp,           \* no operation
    MaxGateway,     \* bound on a node's gateway generations
    MaxControlPlane,\* bound on Control Plane generations
    MaxQueue        \* FabricStoreLimits: unended attempts of one target

Op == 1..NumOps
Gateway == 1..MaxGateway
Key == {KeyOf[o] : o \in Op}

ASSUME FabricAssumption ==
    /\ {NumOps, MaxGateway, MaxControlPlane, MaxQueue} \subseteq Nat \ {0}
    /\ ControlPlane \notin Node
    /\ NoOp \notin Op
    /\ SourceOf \in [Op -> Node \cup {ControlPlane}]
    /\ TargetOf \in [Op -> Node]
    /\ \A o, q \in Op : KeyOf[o] = KeyOf[q] => TargetOf[o] = TargetOf[q]

VARIABLES
    cpGen,      \* the Control Plane's generation
    lease,      \* per node: its NodeGatewayLease
    route,      \* per operation: its RouteAttempts, oldest first
    receipts,   \* RouteReceipts
    routeSeq,   \* per node: route_sequences
    keySeq,     \* per key: ordering_sequences
    active,     \* per node: active_session of its local store
    inbox,      \* per operation: the target's LocalRemoteInbox
    tombstone,  \* per operation: the target's LocalOrderingTombstone
    consumed,   \* per key: persisted_ordering_sequences of the target
    outbox,     \* per operation: the source's LocalRemoteOutbox
    session,    \* per node and gateway generation: the gateway process
    native      \* per operation: history of the application's runs

cpVars    == <<cpGen, lease, route, receipts, routeSeq, keySeq>>
storeVars == <<active, inbox, tombstone, consumed, outbox>>
vars      == <<cpVars, storeVars, session, native>>

Effect == {"Applied", "NotApplied", "Unknown"}

Kind == {"ControlPlaneAccepted", "TargetPersisted", "OperationApplied",
         "OperationRejected", "RecoveryRequired"}
Terminal == {"OperationApplied", "OperationRejected"}

Attempt == [gw : Gateway, cp : 1..MaxControlPlane, route : Nat, ord : Nat,
            state : {"Queued", "TargetPersisted", "Ended"}]

Outbox == [state : {"Absent", "QueuedForControlPlane", "Submitted", "Accepted",
                    "ReconcileRequired", "Terminal"},
           gw : 0..MaxGateway,                       \* of its envelope
           truth : Terminal \cup {"None", "Expired"}]    \* terminal_receipt_ref

Session == [at : {"none", "welcome", "idle", "delivered", "persisting",
                  "persisted", "claimed", "applied", "reporting", "expiring",
                  "answered", "submitting", "gone"},
            op : Op \cup {NoOp}, cp : 0..MaxControlPlane,
            effect : Effect \cup {"None"},
            reply : Kind \cup {"None"}]

\* State types of every variable.
TypeOK ==
    /\ cpGen \in 1..MaxControlPlane
    /\ lease \in [Node -> [gen : 0..MaxGateway, cp : 0..MaxControlPlane]]
    /\ route \in [Op -> Seq(Attempt)]
    /\ receipts \subseteq [op : Op, kind : Kind, gw : Gateway]
    /\ routeSeq \in [Node -> Nat] /\ keySeq \in [Key -> Nat]
    /\ active \in [Node -> 0..MaxGateway]
    /\ inbox \in [Op -> [state : {"Absent", "Persisted", "Claimed", "Applied",
                                  "Rejected", "RecoveryRequired"},
                         gw : 0..MaxGateway]]
    /\ tombstone \in [Op -> 0..MaxGateway]
    /\ consumed \in [Key -> Nat]
    /\ outbox \in [Op -> Outbox]
    /\ session \in [Node -> [Gateway -> Session]]
    /\ native \in [Op -> [runs : Nat, effect : Effect \cup {"None"}]]

NoSession == [at |-> "none", op |-> NoOp, cp |-> 0,
              effect |-> "None", reply |-> "None"]

Init ==
    /\ cpGen = 1
    /\ lease = [n \in Node |-> [gen |-> 0, cp |-> 0]]
    /\ route = [o \in Op |-> <<>>]
    /\ receipts = {}
    /\ routeSeq = [n \in Node |-> 0]
    /\ keySeq = [k \in Key |-> 0]
    /\ active = [n \in Node |-> 0]
    /\ inbox = [o \in Op |-> [state |-> "Absent", gw |-> 0]]
    /\ tombstone = [o \in Op |-> 0]
    /\ consumed = [k \in Key |-> 0]
    /\ outbox = [o \in Op |-> [state |-> "Absent", gw |-> 0, truth |-> "None"]]
    /\ session = [n \in Node |-> [g \in Gateway |-> NoSession]]
    /\ native = [o \in Op |-> [runs |-> 0, effect |-> "None"]]

-----------------------------------------------------------------------------
(* What the code asks of this state.                                       *)

Receipt(o, k, g) == [op |-> o, kind |-> k, gw |-> g]
HasReceipt(o, K) == \E r \in receipts : r.op = o /\ r.kind \in K

Accepted(o) == route[o] # <<>>
Latest(o) == route[o][Len(route[o])]

\* attempts[last].state := s, in the route of one operation
Moved(atts, s) == [atts EXCEPT ![Len(atts)].state = s]

\* Mutant of CurrentGateway: any session of this Control Plane will do.
CurrentControlPlane(n, g) == session[n][g].cp = cpGen

\* require_active_control_plane and require_current_gateway
CurrentGateway(n, g) ==
    /\ session[n][g].cp = cpGen
    /\ lease[n].gen = g /\ lease[n].cp = cpGen

\* transact_session: the exact active session, looked at under the store's lock
ActiveSession(n, g) == active[n] = g

\* the attempt of o under the session's generation, with the state it must have
AttemptIs(o, g, s) == Accepted(o) /\ Latest(o).gw = g /\ Latest(o).state = s

InQueue(n) ==
    {o \in Op : TargetOf[o] = n /\ Accepted(o) /\ Latest(o).state # "Ended"}

At(n, g, place) == session[n][g].at = place
Goes(n, g, place) == session' = [session EXCEPT ![n][g].at = place]
Rests(n, g) == [session EXCEPT ![n][g] =
                  [@ EXCEPT !.at = "idle", !.op = NoOp, !.effect = "None",
                            !.reply = "None"]]

-----------------------------------------------------------------------------
(* The Control Plane's own succession.                                     *)

\* acquire_lease by a successor, once the predecessor's lease has run out.
SucceedControlPlane ==
    /\ cpGen < MaxControlPlane
    /\ cpGen' = cpGen + 1
    /\ UNCHANGED <<lease, route, receipts, routeSeq, keySeq, storeVars, session, native>>

-----------------------------------------------------------------------------
(* Connecting a gateway.                                                   *)

\* Mutant of Unpersisted: the receipts are not looked at.
UnpersistedAttempt(o) == Accepted(o) /\ Latest(o).state # "Ended"

\* Never persisted, never settled: only such an attempt may be given up.
Unpersisted(o) ==
    /\ Accepted(o) /\ Latest(o).state = "Queued"
    /\ ~HasReceipt(o, Kind \ {"ControlPlaneAccepted"})

\* which operations of the node its successor finds given up or waiting
Waiting(n) == {o \in Op : TargetOf[o] = n /\ Unpersisted(o)}

\* Mutant of Retried: the attempt that is given up is not ended.
RetriedBeside(n, o, g, R) ==
    Append(route[o],
           [gw |-> g, cp |-> cpGen,
            route |-> routeSeq[n] + Cardinality({q \in R : q <= o}),
            ord |-> Latest(o).ord, state |-> "Queued"])

\* expire_unapplied_for_successor: the expired ones end as not applied.
\* rebind_effect_none_attempts_to_successor: retry_operation for each other one,
\* in the order of their ids: the old attempt ends, the new one keeps the
\* ordering sequence and takes the next route sequence.
Retried(n, o, g, R) ==
    Append(Moved(route[o], "Ended"),
           [gw |-> g, cp |-> cpGen,
            route |-> routeSeq[n] + Cardinality({q \in R : q <= o}),
            ord |-> Latest(o).ord, state |-> "Queued"])

\* connect_gateway_mtls: once the node's lease has run out, or belongs to an
\* earlier Control Plane, it moves to the next generation; the expired offline
\* work E is settled and the rest R bound to the successor, all in one
\* transaction; the Welcome is on its way.
Connect(n, E) ==
    LET g == lease[n].gen + 1  R == Waiting(n) \ E IN
    /\ g <= MaxGateway
    /\ E \subseteq Waiting(n)
    /\ lease' = [lease EXCEPT ![n] = [gen |-> g, cp |-> cpGen]]
    /\ route' = [o \in Op |-> IF o \in E THEN Moved(route[o], "Ended")
                              ELSE IF o \in R THEN Retried(n, o, g, R)
                              ELSE route[o]]
    /\ receipts' = receipts
         \cup {Receipt(o, "OperationRejected", g) : o \in E}
         \cup {Receipt(o, "ControlPlaneAccepted", g) : o \in R}
    /\ routeSeq' = [routeSeq EXCEPT ![n] = @ + Cardinality(R)]
    /\ session' = [session EXCEPT ![n][g] =
                    [NoSession EXCEPT !.at = "welcome", !.cp = cpGen]]
    /\ UNCHANGED <<cpGen, keySeq, storeVars, native>>

\* the refusals of bind_gateway_session: authority never moves backwards
MayBind(n, g) ==
    LET old == session[n][active[n]] new == session[n][g] IN
    active[n] # 0 =>
        /\ new.cp >= old.cp
        /\ new.cp = old.cp => g >= active[n]

BindSession(n, g) ==
    /\ At(n, g, "welcome") /\ MayBind(n, g)
    /\ active' = [active EXCEPT ![n] = g]
    /\ Goes(n, g, "idle")
    /\ UNCHANGED <<cpVars, inbox, tombstone, consumed, outbox, native>>

\* The link breaks, the process dies, a read times out, or a request is refused
\* by the Control Plane or by the local store: the gateway process returns.
SessionEnds(n, g) ==
    /\ session[n][g].at \notin {"none", "gone"}
    /\ session' = [session EXCEPT ![n][g] = [@ EXCEPT !.at = "gone", !.op = NoOp,
                                               !.effect = "None", !.reply = "None"]]
    /\ UNCHANGED <<cpVars, storeVars, native>>

-----------------------------------------------------------------------------
(* The target: apply_next.                                                 *)

\* what send_pending may deliver under a session
Pending(n, g) == {o \in Op : TargetOf[o] = n /\ AttemptIs(o, g, "Queued")
                              /\ Latest(o).cp = session[n][g].cp}

\* A heartbeat renews the lease and is answered with the pending attempt of the
\* lowest route sequence.
Deliver(n, g, o) ==
    /\ At(n, g, "idle") /\ CurrentGateway(n, g)
    /\ o \in Pending(n, g)
    /\ \A q \in Pending(n, g) : Latest(o).route <= Latest(q).route
    /\ session' = [session EXCEPT ![n][g].at = "delivered", ![n][g].op = o]
    /\ UNCHANGED <<cpVars, storeVars, native>>

\* Mutant of NextInOrder: the operation may come at any place of its key.
AnyOrder(o, g) == \E a \in 1..Len(route[o]) : route[o][a].gw = g

\* the attempt in hand is the next one of its ordering key
NextInOrder(o, g) ==
    \E a \in 1..Len(route[o]) :
        route[o][a].gw = g /\ route[o][a].ord = consumed[KeyOf[o]] + 1

\* persist_inbox.  A row under another generation is a changed fingerprint and
\* refused; this session was not delivered the operation before.
PersistInbox(n, g) ==
    LET o == session[n][g].op IN
    /\ At(n, g, "delivered")
    /\ ActiveSession(n, g)
    /\ inbox[o].state = "Absent" /\ NextInOrder(o, g)
    /\ inbox' = [inbox EXCEPT ![o] = [state |-> "Persisted", gw |-> g]]
    /\ consumed' = [consumed EXCEPT ![KeyOf[o]] = @ + 1]
    /\ Goes(n, g, "persisting")
    /\ UNCHANGED <<cpVars, active, tombstone, outbox, native>>

\* consume_expired_ordering_tombstone
ConsumeTombstone(n, g) ==
    LET o == session[n][g].op IN
    /\ At(n, g, "delivered")
    /\ ActiveSession(n, g)
    /\ inbox[o].state = "Absent" /\ tombstone[o] = 0 /\ NextInOrder(o, g)
    /\ tombstone' = [tombstone EXCEPT ![o] = g]
    /\ consumed' = [consumed EXCEPT ![KeyOf[o]] = @ + 1]
    /\ Goes(n, g, "expiring")
    /\ UNCHANGED <<cpVars, active, inbox, outbox, native>>

\* record_target_persisted
RecordTargetPersisted(n, g) ==
    LET o == session[n][g].op IN
    /\ At(n, g, "persisting") /\ CurrentGateway(n, g)
    /\ AttemptIs(o, g, "Queued")
    /\ route' = [route EXCEPT ![o] = Moved(@, "TargetPersisted")]
    /\ receipts' = receipts \cup {Receipt(o, "TargetPersisted", g)}
    /\ Goes(n, g, "persisted")
    /\ UNCHANGED <<cpGen, lease, routeSeq, keySeq, storeVars, native>>

\* claim_inbox
ClaimInbox(n, g) ==
    LET o == session[n][g].op IN
    /\ At(n, g, "persisted")
    /\ ActiveSession(n, g)
    /\ inbox[o] = [state |-> "Persisted", gw |-> g]
    /\ inbox' = [inbox EXCEPT ![o].state = "Claimed"]
    /\ Goes(n, g, "claimed")
    /\ UNCHANGED <<cpVars, active, tombstone, consumed, outbox, native>>

\* Mutant of Apply: an unknown outcome is tried again.
ApplyAgain(n, g, e) ==
    LET o == session[n][g].op IN
    /\ At(n, g, "claimed")
    /\ native' = [native EXCEPT ![o] = [runs |-> @.runs + 1, effect |-> e]]
    /\ session' = [session EXCEPT ![n][g].at = IF e = "Unknown" THEN @ ELSE "applied",
                                  ![n][g].effect = e]
    /\ native[o].runs < 2
    /\ UNCHANGED <<cpVars, storeVars>>

\* NodeApplication::apply, and the certainty of its effect.  No Store is asked
\* between the claim and here.
Apply(n, g, e) ==
    LET o == session[n][g].op IN
    /\ At(n, g, "claimed")
    /\ native' = [native EXCEPT ![o] = [runs |-> @.runs + 1, effect |-> e]]
    /\ session' = [session EXCEPT ![n][g].at = "applied", ![n][g].effect = e]
    /\ UNCHANGED <<cpVars, storeVars>>

InboxOf(e) == CASE e = "Applied" -> "Applied" [] e = "NotApplied" -> "Rejected"
                [] OTHER -> "RecoveryRequired"

\* record_application_result
RecordResult(n, g) ==
    LET o == session[n][g].op IN
    /\ At(n, g, "applied") /\ ActiveSession(n, g)
    /\ inbox[o] = [state |-> "Claimed", gw |-> g]
    /\ inbox' = [inbox EXCEPT ![o].state = InboxOf(session[n][g].effect)]
    /\ Goes(n, g, "reporting")
    /\ UNCHANGED <<cpVars, active, tombstone, consumed, outbox, native>>

\* Mutant of KindOf: what is not known to be applied is rejected.
KindOrRejected(e) ==
    IF e = "Applied" THEN "OperationApplied" ELSE "OperationRejected"

KindOf(e) == CASE e = "Applied" -> "OperationApplied"
               [] e = "NotApplied" -> "OperationRejected"
               [] OTHER -> "RecoveryRequired"

\* record_application_receipt of an application's result
RecordReceipt(n, g) ==
    LET o == session[n][g].op e == session[n][g].effect IN
    /\ At(n, g, "reporting") /\ CurrentGateway(n, g)
    /\ AttemptIs(o, g, "TargetPersisted")
    /\ route' = [route EXCEPT ![o] =
                  Moved(@, IF e = "Unknown" THEN "TargetPersisted" ELSE "Ended")]
    /\ receipts' = receipts \cup {Receipt(o, KindOf(e), g)}
    /\ session' = Rests(n, g)
    /\ UNCHANGED <<cpGen, lease, routeSeq, keySeq, storeVars, native>>

\* and of the target's proof that the operation expired on its way
RecordExpired(n, g) ==
    LET o == session[n][g].op IN
    /\ At(n, g, "expiring") /\ CurrentGateway(n, g)
    /\ AttemptIs(o, g, "Queued")
    /\ route' = [route EXCEPT ![o] = Moved(@, "Ended")]
    /\ receipts' = receipts \cup {Receipt(o, "OperationRejected", g)}
    /\ session' = Rests(n, g)
    /\ UNCHANGED <<cpGen, lease, routeSeq, keySeq, storeVars, native>>

-----------------------------------------------------------------------------
(* The source: the outbox pass of node_gateway_command.                    *)

\* prepare_outbox, from another process on the node, under the active session.
PrepareOutbox(o) ==
    LET n == SourceOf[o] IN
    /\ n # ControlPlane
    /\ outbox[o].state = "Absent" /\ active[n] # 0
    /\ outbox' = [outbox EXCEPT ![o].state = "QueuedForControlPlane",
                                ![o].gw = active[n]]
    /\ UNCHANGED <<cpVars, active, inbox, tombstone, consumed, session, native>>

Unaccepted == {"QueuedForControlPlane", "Submitted", "ReconcileRequired"}

\* expire_unaccepted_outbox: asked first of every pending operation that the
\* node's clock finds expired.
ExpireOutbox(n, g, o) ==
    /\ At(n, g, "idle") /\ SourceOf[o] = n
    /\ ActiveSession(n, g)
    /\ outbox[o].state \in Unaccepted
    /\ outbox' = [outbox EXCEPT ![o].state = "Terminal", ![o].truth = "Expired"]
    /\ UNCHANGED <<cpVars, active, inbox, tombstone, consumed, session, native>>

\* what the receipts returned by reconcile come to: none, the terminal one or
\* recovery where there is one, otherwise the acceptance
Reconciled(o) ==
    CASE ~Accepted(o) -> "None"
      [] HasReceipt(o, {"RecoveryRequired"}) -> "RecoveryRequired"
      [] HasReceipt(o, {"OperationRejected"}) -> "OperationRejected"
      [] HasReceipt(o, {"OperationApplied"}) -> "OperationApplied"
      [] OTHER -> "ControlPlaneAccepted"

\* reconcile, for one pending operation
Reconcile(n, g, o) ==
    /\ At(n, g, "idle") /\ SourceOf[o] = n
    /\ outbox[o].state \in Unaccepted \cup {"Accepted"}
    /\ CurrentGateway(n, g)
    /\ session' = [session EXCEPT ![n][g].at = "answered", ![n][g].op = o,
                                  ![n][g].reply = Reconciled(o)]
    /\ UNCHANGED <<cpVars, storeVars, native>>

\* Mutant of MarkReceipt: every receipt but a recovery is terminal.
MarkEveryReceipt(n, g) ==
    LET o == session[n][g].op k == session[n][g].reply IN
    /\ At(n, g, "answered") /\ k # "None" /\ ActiveSession(n, g)
    /\ outbox' = [outbox EXCEPT ![o].state = "Terminal", ![o].truth = k]
    /\ session' = Rests(n, g)
    /\ UNCHANGED <<cpVars, active, inbox, tombstone, consumed, native>>

\* mark_outbox_receipt, of a reconciled or of a fresh acceptance
MarkReceipt(n, g) ==
    LET o == session[n][g].op k == session[n][g].reply IN
    /\ At(n, g, "answered") /\ k # "None" /\ ActiveSession(n, g)
    /\ outbox' = [outbox EXCEPT ![o] =
         CASE k \in Terminal -> [@ EXCEPT !.state = "Terminal", !.truth = k]
           [] k = "RecoveryRequired" ->
                [@ EXCEPT !.state = "ReconcileRequired", !.truth = "None"]
           [] OTHER -> IF @.state = "Terminal" THEN @
                       ELSE [@ EXCEPT !.state = "Accepted"]]
    /\ session' = Rests(n, g)
    /\ UNCHANGED <<cpVars, active, inbox, tombstone, consumed, native>>

\* rebind_unaccepted_outbox: the Control Plane has never heard of it, so its
\* envelope may move to this session's generation.
RebindOutbox(n, g) ==
    LET o == session[n][g].op IN
    /\ At(n, g, "answered") /\ session[n][g].reply = "None" /\ ActiveSession(n, g)
    /\ outbox[o].gw # g /\ outbox[o].state \in Unaccepted
    /\ outbox' = [outbox EXCEPT ![o].state = "QueuedForControlPlane", ![o].gw = g]
    /\ UNCHANGED <<cpVars, active, inbox, tombstone, consumed, session, native>>

\* submit_operation up to the frame it sends: mark_outbox_submitted.
Submit(n, g) ==
    LET o == session[n][g].op IN
    /\ At(n, g, "answered") /\ session[n][g].reply = "None" /\ ActiveSession(n, g)
    /\ outbox[o].gw = g /\ outbox[o].state # "Terminal"
    /\ outbox' = [outbox EXCEPT ![o].state = "Submitted"]
    /\ Goes(n, g, "submitting")
    /\ UNCHANGED <<cpVars, active, inbox, tombstone, consumed, native>>

\* queue_capacity_exceeded, by count
HasRoom(n) == Cardinality(InQueue(n)) < MaxQueue

\* accept_and_enqueue, for an operation that is new to the Store: its target is
\* online and its queue has room; it takes the next route and ordering sequence.
Enqueue(o) ==
    LET n == TargetOf[o] k == KeyOf[o] IN
    /\ ~Accepted(o)
    /\ lease[n].cp = cpGen /\ HasRoom(n)
    /\ route' = [route EXCEPT ![o] =
                  <<[gw |-> lease[n].gen, cp |-> cpGen, route |-> routeSeq[n] + 1,
                     ord |-> keySeq[k] + 1, state |-> "Queued"]>>]
    /\ receipts' = receipts
         \cup {Receipt(o, "ControlPlaneAccepted", lease[n].gen)}
    /\ routeSeq' = [routeSeq EXCEPT ![n] = @ + 1]
    /\ keySeq' = [keySeq EXCEPT ![k] = @ + 1]
    /\ UNCHANGED <<cpGen, lease>>

\* accept_operation, of the source's submission
AcceptOperation(n, g) ==
    /\ At(n, g, "submitting") /\ CurrentGateway(n, g)
    /\ Enqueue(session[n][g].op)
    /\ session' = [session EXCEPT ![n][g].at = "answered",
                                  ![n][g].reply = "ControlPlaneAccepted"]
    /\ UNCHANGED <<storeVars, native>>

\* accept_control_plane_operation
AcceptControlPlaneOperation(o) ==
    /\ SourceOf[o] = ControlPlane
    /\ Enqueue(o)
    /\ UNCHANGED <<storeVars, session, native>>

-----------------------------------------------------------------------------

TargetStep(n, g) ==
    \/ \E o \in Op : Deliver(n, g, o)
    \/ PersistInbox(n, g) \/ ConsumeTombstone(n, g)
    \/ RecordTargetPersisted(n, g) \/ ClaimInbox(n, g)
    \/ \E e \in Effect : Apply(n, g, e)
    \/ RecordResult(n, g) \/ RecordReceipt(n, g) \/ RecordExpired(n, g)

SourceStep(n, g) ==
    \/ \E o \in Op : ExpireOutbox(n, g, o) \/ Reconcile(n, g, o)
    \/ MarkReceipt(n, g) \/ RebindOutbox(n, g) \/ Submit(n, g)
    \/ AcceptOperation(n, g)

Next ==
    \/ \E n \in Node, E \in SUBSET Op : Connect(n, E)
    \/ SucceedControlPlane
    \/ \E o \in Op : PrepareOutbox(o) \/ AcceptControlPlaneOperation(o)
    \/ \E n \in Node, g \in Gateway :
         BindSession(n, g) \/ SessionEnds(n, g) \/ TargetStep(n, g) \/ SourceStep(n, g)

Spec == Init /\ [][Next]_vars

-----------------------------------------------------------------------------
(* Properties.                                                             *)

\* The application of an operation runs at most once, whatever is redelivered,
\* however often the target reconnects and though a predecessor's process may
\* still be running (claim_inbox: "native effect must be reconciled before
\* retry").
AppliesAtMostOnce == \A o \in Op : native[o].runs <= 1

ClaimedOrLater(o) == inbox[o].state \notin {"Absent", "Persisted"}
OrdOf(o) == Latest(o).ord

\* Operations of one ordering key cross the application boundary in the order
\* the Control Plane accepted them (persist_inbox: "received an out-of-order
\* operation for its ordering key").
ClaimsKeepOrder ==
    [][\A o, q \in Op :
         (/\ KeyOf[o] = KeyOf[q] /\ Accepted(o) /\ Accepted(q)
          /\ OrdOf(o) < OrdOf(q) /\ ClaimedOrLater(q))
             => ClaimedOrLater(o) \/ ~ClaimedOrLater(o)']_vars

\* A retry takes the place of the attempt it ends: reconnecting never grows a
\* target's queue past its limit, though it does not ask for room
\* (retry_operation, queue_capacity_exceeded).
QueueIsBounded ==
    \A n \in Node :
        Cardinality({p \in Op \X (1..MaxGateway) :
            LET o == p[1] i == p[2] IN
            TargetOf[o] = n /\ i <= Len(route[o]) /\ route[o][i].state # "Ended"})
          <= MaxQueue

\* The Control Plane's receipts and the target's application, seen as one route
\* truth: an operation runs at most once and before any verdict, the verdict is
\* what the application said, and an operation closed as expired never runs
\* (remote-node-fabric.md: "It is the sole cross-Node route truth").
Truth == INSTANCE RouteTruth WITH
    effect <- [o \in Op |-> native[o].effect],
    verdict <- [o \in Op |->
                 IF Accepted(o) /\ HasReceipt(o, Terminal \cup {"RecoveryRequired"})
                   THEN Reconciled(o) ELSE "None"]

RouteTruthHolds == Truth!Spec

\* A source that holds a terminal receipt knows what the target did and will do:
\* applied was applied, rejected has no effect now or later, though the receipt
\* came through a session that may be long succeeded (mark_outbox_receipt).
SourceKnowsEffect ==
    \A o \in Op :
        /\ outbox[o].truth = "OperationApplied" => native[o].effect = "Applied"
        /\ outbox[o].truth = "OperationRejected" => native[o].effect \in {"None", "NotApplied"}

\* Reconciling first makes a resubmission safe: what a current session has on its
\* way to the Control Plane is new to it, though an earlier response may have
\* been lost and the envelope rebound (accept_and_enqueue would otherwise answer
\* with a conflict, the rebound envelope being another fingerprint).
SubmitsOnlyTheUnaccepted ==
    \A n \in Node, g \in Gateway :
        At(n, g, "submitting") /\ CurrentGateway(n, g) => ~Accepted(session[n][g].op)

\* What a source settles on its own as expired was never accepted
\* (expire_unaccepted_outbox: "no route attempt or target/native effect ever
\* existed").
LocalExpiryIsTruthful ==
    \A o \in Op : outbox[o].truth = "Expired" => ~Accepted(o)

\* A terminal expiry does not block its successors: what is pending for the
\* current gateway and first of its key is the next one the target will take
\* (consume_expired_ordering_tombstone: "prevents a terminal NotApplied #1 from
\* permanently blocking valid #2").
PendingIsNextInOrder ==
    \A n \in Node, o \in Op :
        o \in Pending(n, lease[n].gen) /\ inbox[o].state = "Absent" /\ tombstone[o] = 0 =>
            \A i \in (consumed[KeyOf[o]] + 1)..(OrdOf(o) - 1) :
                \E q \in Op : /\ KeyOf[q] = KeyOf[o]
                              /\ q \in Pending(n, lease[n].gen) /\ OrdOf(q) = i

-----------------------------------------------------------------------------
(* What the properties rest on: together, an inductive invariant.          *)

HasVerdict(o) == HasReceipt(o, Terminal \cup {"RecoveryRequired"})

\* Gateways succeed each other under one Control Plane after the other, and a
\* node's store follows a gateway that has connected.
SessionsSucceed ==
    \A n \in Node :
        /\ lease[n].gen = 0 => lease[n].cp = 0
        /\ lease[n].cp <= cpGen
        /\ active[n] # 0 => session[n][active[n]].at # "none"
        /\ \A g \in Gateway :
             /\ session[n][g].at # "none" => g <= lease[n].gen
             /\ session[n][g].cp <= lease[n].cp
             /\ \A h \in Gateway :
                  g < h /\ session[n][h].at # "none" => session[n][g].cp <= session[n][h].cp

\* What a gateway has in hand is an operation of its node: as a target, one
\* that its inbox holds under its own generation; once it is entrusted with the
\* effect, the Control Plane knows that and has no verdict; and what it will
\* report is what the application said.
InHand(n, g) ==
    LET s == session[n][g] o == s.op IN
    /\ s.at \in {"delivered", "persisting", "persisted", "claimed", "applied",
                 "reporting", "expiring"} => o \in Op /\ TargetOf[o] = n
    /\ s.at \in {"answered", "submitting"} => o \in Op /\ SourceOf[o] = n
    /\ s.at \in {"persisting", "persisted"} => inbox[o] = [state |-> "Persisted", gw |-> g]
    /\ s.at \in {"claimed", "applied"} => inbox[o] = [state |-> "Claimed", gw |-> g]
    /\ s.at = "reporting" => ClaimedOrLater(o) /\ inbox[o].gw = g
    /\ s.at \in {"persisted", "claimed", "applied", "reporting"} =>
         HasReceipt(o, {"TargetPersisted"}) /\ ~HasVerdict(o)
    /\ s.at = "claimed" => native[o].effect = "None"
    /\ s.at \in {"applied", "reporting"} =>
         s.effect \in Effect /\ native[o].effect = s.effect

\* An application runs once, after the claim, and a claim after the receipt of
\* TargetPersisted.
RunsAfterItsClaim(o) ==
    /\ native[o].runs = IF native[o].effect = "None" THEN 0 ELSE 1
    /\ native[o].effect # "None" => ClaimedOrLater(o)
    /\ ClaimedOrLater(o) => HasReceipt(o, {"TargetPersisted"})

\* What the Control Plane has a word of from the target is not queued again.
PersistedStaysPersisted(o) ==
    HasReceipt(o, Kind \ {"ControlPlaneAccepted"}) => Accepted(o) /\ Latest(o).state # "Queued"

VerdictIsTrue(o) ==
    /\ HasReceipt(o, {"OperationApplied"}) => native[o].effect = "Applied"
    /\ HasReceipt(o, {"OperationRejected"}) => native[o].effect \in {"None", "NotApplied"}
    /\ HasReceipt(o, {"RecoveryRequired"}) => native[o].effect = "Unknown"

\* What the source was told, and what it wrote down, is a receipt.
SourceIsTold ==
    /\ \A o \in Op : outbox[o].truth \in Terminal => HasReceipt(o, {outbox[o].truth})
    /\ \A n \in Node, g \in Gateway :
         At(n, g, "answered") /\ session[n][g].reply \in Terminal =>
             HasReceipt(session[n][g].op, {session[n][g].reply})

\* A current session that was told nothing of its operation asks about one that
\* is new to the Control Plane.
UnheardIsNew(n, g) ==
    (/\ CurrentGateway(n, g)
     /\ At(n, g, "submitting") \/ (At(n, g, "answered") /\ session[n][g].reply = "None"))
        => ~Accepted(session[n][g].op)

\* The attempts of an operation: all but the last have ended, and all have the
\* place of the operation in its key.
WellRouted(atts) ==
    \A i \in 1..Len(atts) :
        /\ atts[i].ord = atts[Len(atts)].ord
        /\ i # Len(atts) => atts[i].state = "Ended"

\* A place was given out, to no other operation of the key.
HasItsPlace(o) ==
    Accepted(o) =>
        /\ OrdOf(o) <= keySeq[KeyOf[o]]
        /\ \A q \in Op : q # o /\ Accepted(q) /\ KeyOf[q] = KeyOf[o] => OrdOf(q) # OrdOf(o)

\* The inbox fills in the order of the places, under generations that grow, and
\* a gateway that has not claimed its operation took it last.
InboxKeepsOrder(o) ==
    inbox[o].state # "Absent" =>
        /\ Accepted(o) /\ OrdOf(o) <= consumed[KeyOf[o]]
        /\ inbox[o].gw \in Gateway /\ inbox[o].gw <= active[TargetOf[o]]
        /\ \A q \in Op :
             inbox[q].state # "Absent" /\ KeyOf[q] = KeyOf[o] /\ OrdOf(o) < OrdOf(q) =>
               /\ inbox[o].gw <= inbox[q].gw
               /\ inbox[o].gw = inbox[q].gw =>
                    LET s == session[TargetOf[o]][inbox[o].gw] IN
                    ~(s.at \in {"persisting", "persisted"} /\ s.op = o)

IndInv ==
    /\ TypeOK
    /\ SessionsSucceed
    /\ \A n \in Node, g \in Gateway : InHand(n, g) /\ UnheardIsNew(n, g)
    /\ SourceIsTold
    /\ \A o \in Op :
         /\ RunsAfterItsClaim(o) /\ PersistedStaysPersisted(o) /\ VerdictIsTrue(o)
         /\ WellRouted(route[o]) /\ HasItsPlace(o) /\ InboxKeepsOrder(o)
    /\ \A n \in Node : Cardinality(InQueue(n)) <= MaxQueue

=============================================================================
