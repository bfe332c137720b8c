---------------------------- MODULE MailDelivery ----------------------------
(***************************************************************************)
(* The delivery of canonical Messages to one AgentMember: the rows of the  *)
(* Store, the member's runner (the thread of a Team Supervisor that claims *)
(* mail, hands it to the provider and records the receipts), the operator, *)
(* and the NodeDaemon generations under which all of it happens.           *)
(*                                                                         *)
(* Every Store call is one step under the Store's write lock, and the      *)
(* runner's reads between two calls are steps of their own, so a row read  *)
(* for a batch may have changed when its turn comes.  The Team Supervisor  *)
(* lease may lapse at any time: its renewal is late, is cancelled, or      *)
(* times out.  That a generation is released only when its runner is gone, *)
(* and that a second runner waits for the first one's thread, is what      *)
(* NodeDaemon shows and is taken from there.                               *)
(***************************************************************************)
EXTENDS Naturals, FiniteSets

CONSTANTS
    NumMail,        \* deliveries to the member, named in the order of creation
    KindOf,         \* per delivery: what kind of Message it carries
    MaxDaemon,      \* bound on NodeDaemon generations
    MaxSupervisor,  \* bound on Team Supervisor generations
    MaxAttempt      \* bound on the attempts of one delivery

Mail == 1..NumMail

ASSUME MailAssumption ==
    /\ {NumMail, MaxDaemon, MaxSupervisor, MaxAttempt} \subseteq Nat \ {0}
    /\ KindOf \in [Mail -> {"required", "informational", "response"}]

VARIABLES
    daemon,     \* the machine lease: generation and status
    session,    \* the node_daemon_generation of the member's AgentSession
    supervisor, \* the TeamSupervisorLease: generation, Active and unexpired
    row,        \* per delivery: its CanonicalMessageDelivery
    claimKeys,  \* idempotency keys of the runner's claims: generation, delivery
    nackKeys,   \* negative-ack keys used: generation, delivery (the key names the latter)
    runner,     \* the member's runner
    handed      \* per delivery: history of the provider's acceptances

vars == <<daemon, session, supervisor, row, claimKeys, nackKeys, runner, handed>>

Version == 1 .. 2 * MaxAttempt + 2

Read == [mail : Mail, version : Version]    \* a row as it was read

\* A row names the NodeDaemon generation of its claim, and only then.
Row ==
    [status : {"None"}, attempt : {1}, version : {0}, claim : {0}]
      \cup [status : {"Queued"}, attempt : 1..MaxAttempt + 1,
            version : Version, claim : {0}]
      \cup [status : {"Claimed", "ProviderReceived", "Acknowledged"},
            attempt : 1..MaxAttempt, version : Version, claim : 1..MaxDaemon]

\* State types of every variable, and what a row of each status may say
\* (CanonicalMessageDelivery).
TypeOK ==
    /\ daemon \in [gen : 1..MaxDaemon, status : {"Active", "Draining", "Released"}]
    /\ session \in 0..MaxDaemon
    /\ supervisor \in [gen : 0..MaxSupervisor, held : BOOLEAN]
    /\ row \in [Mail -> Row]
    /\ claimKeys \subseteq (1..MaxDaemon) \X Mail
    /\ nackKeys \subseteq (1..MaxDaemon) \X Mail
    /\ runner \in [at : {"off", "idle", "claiming", "polling", "ready", "prepared",
                         "accepted", "marking", "acknowledging", "running",
                         "replying", "failing", "requeuing"},
                   todo : SUBSET Read, batch : SUBSET Mail]
    /\ handed \in [Mail -> Nat]

Init ==
    /\ daemon = [gen |-> 1, status |-> "Active"]
    /\ session = 0
    /\ supervisor = [gen |-> 0, held |-> FALSE]
    /\ row = [d \in Mail |->
                [status |-> "None", attempt |-> 1, version |-> 0, claim |-> 0]]
    /\ claimKeys = {} /\ nackKeys = {}
    /\ runner = [at |-> "off", todo |-> {}, batch |-> {}]
    /\ handed = [d \in Mail |-> 0]

-----------------------------------------------------------------------------
(* What the code asks of this state.                                       *)

\* require_current_node_daemon_unlocked, for the session's daemon
CurrentDaemon == daemon.status = "Active" /\ session = daemon.gen

\* require_node_daemon_settlement_authority_unlocked
MaySettle == daemon.status \in {"Active", "Draining"} /\ session = daemon.gen

InStatus(s) == {d \in Mail : row[d].status = s}

AsRead(D) == {[mail |-> d, version |-> row[d].version] : d \in D}

\* of what is left of a batch, the row whose Message was created first
First(T) == CHOOSE t \in T : \A u \in T : t.mail <= u.mail

At(place) == runner.at = place
Goes(place) == runner' = [runner EXCEPT !.at = place]

-----------------------------------------------------------------------------
(* Generations.                                                            *)

\* The shutdown begins, or its own latch drains the lease.
Drain ==
    /\ daemon.status = "Active"
    /\ daemon' = [daemon EXCEPT !.status = "Draining"]
    /\ UNCHANGED <<session, supervisor, row, claimKeys, nackKeys, runner, handed>>

\* The generation's own settlement, or the recovery of its dead process.
Release ==
    /\ daemon.status # "Released" /\ At("off")
    /\ daemon' = [daemon EXCEPT !.status = "Released"]
    /\ UNCHANGED <<session, supervisor, row, claimKeys, nackKeys, runner, handed>>

Succeed ==
    /\ daemon.status = "Released" /\ daemon.gen < MaxDaemon
    /\ daemon' = [gen |-> daemon.gen + 1, status |-> "Active"]
    /\ UNCHANGED <<session, supervisor, row, claimKeys, nackKeys, runner, handed>>

\* prepare_team_run: ensure_team_runtime_fabric attaches the session to this
\* generation, acquire_team_supervisor_under_node_lease takes the next
\* supervisor generation, and the member's runner starts.
StartSupervisor ==
    /\ At("off") /\ daemon.status = "Active"
    /\ ~supervisor.held /\ supervisor.gen < MaxSupervisor
    /\ session' = daemon.gen
    /\ supervisor' = [gen |-> supervisor.gen + 1, held |-> TRUE]
    /\ Goes("idle")
    /\ UNCHANGED <<daemon, row, claimKeys, nackKeys, handed>>

\* The supervisor's next pass starts the member once more.
StartMember ==
    /\ At("off") /\ CurrentDaemon /\ supervisor.held
    /\ Goes("idle")
    /\ UNCHANGED <<daemon, session, supervisor, row, claimKeys, nackKeys, handed>>

\* The supervisor's lease expires unrenewed, or is released.
LeaseLapses ==
    /\ supervisor.held
    /\ supervisor' = [supervisor EXCEPT !.held = FALSE]
    /\ UNCHANGED <<daemon, session, row, claimKeys, nackKeys, runner, handed>>

\* The runner is gone and leaves every row as it is: its process dies, it finds
\* its lease lost, it ends, or a failure after the provider's acceptance (a
\* refused receipt too) blocks the member for reconciliation.
RunnerEnds ==
    /\ ~At("off")
    /\ runner' = [at |-> "off", todo |-> {}, batch |-> {}]
    /\ UNCHANGED <<daemon, session, supervisor, row, claimKeys, nackKeys, handed>>

-----------------------------------------------------------------------------
(* Claiming.                                                               *)

\* author_message expands one delivery for the member.
Author(d) ==
    /\ row[d].status = "None" /\ \A e \in 1..d-1 : row[e].status # "None"
    /\ row' = [row EXCEPT ![d].status = "Queued", ![d].version = 1]
    /\ UNCHANGED <<daemon, session, supervisor, claimKeys, nackKeys, runner, handed>>

\* informational mail alone starts no round
TriggersRound == \E d \in InStatus("Queued") : KindOf[d] # "informational"

\* claim_canonical_messages_for_member by an idle runner, and the batch at the
\* boundary of a cycle that has another purpose, which needs no trigger.
BeginClaims(trigger) ==
    /\ At("idle")
    /\ trigger => TriggersRound
    /\ runner' = [at |-> "claiming", todo |-> AsRead(InStatus("Queued")), batch |-> {}]
    /\ UNCHANGED <<daemon, session, supervisor, row, claimKeys, nackKeys, handed>>

\* wait_for_provider_interaction_response: a running turn waits for a response
\* and claims the member's whole mailbox on the way.
BeginPoll ==
    /\ At("running") /\ CurrentDaemon /\ TriggersRound
    /\ runner' = [at |-> "polling", todo |-> AsRead(InStatus("Queued")), batch |-> {}]
    /\ UNCHANGED <<daemon, session, supervisor, row, claimKeys, nackKeys, handed>>

Claimed(d) == [row EXCEPT ![d].status = "Claimed", ![d].claim = daemon.gen,
                          ![d].version = @ + 1]

\* Mutant of ClaimAdmits: every claim has a key and a revision of its own.
ClaimAdmitsAnew(t) ==
    CurrentDaemon /\ row[t.mail].status = "Queued" /\ row[t.mail].attempt <= MaxAttempt

\* claim_message_for_provider and the commit of its provider_invocation.  The
\* invocation of an attempt that is still queued does not exist, so its expected
\* version must be 0; the runner sends the version it read, less one.  Its key
\* names the generation and the delivery, and its claim_id is always fresh: a
\* used key is refused.
ClaimAdmits(t) ==
    /\ CurrentDaemon
    /\ row[t.mail].status = "Queued" /\ row[t.mail].attempt <= MaxAttempt
    /\ t.version - 1 = 0
    /\ <<daemon.gen, t.mail>> \notin claimKeys

\* one claim of a batch
ClaimNext ==
    /\ runner.at \in {"claiming", "polling"} /\ runner.todo # {}
    /\ LET t == First(runner.todo) IN
         /\ ClaimAdmits(t)
         /\ row' = Claimed(t.mail)
         /\ claimKeys' = claimKeys \cup {<<daemon.gen, t.mail>>}
         /\ runner' = [runner EXCEPT !.todo = @ \ {t}, !.batch = @ \cup {t.mail}]
    /\ UNCHANGED <<daemon, session, supervisor, nackKeys, handed>>

\* The whole batch is claimed.
ClaimsDone ==
    /\ At("claiming") /\ runner.todo = {}
    /\ Goes("ready")
    /\ UNCHANGED <<daemon, session, supervisor, row, claimKeys, nackKeys, handed>>

\* The poll keeps the one response it waits for, if that came, and nothing else
\* of what it claimed.
PollDone ==
    LET R == {d \in runner.batch : KindOf[d] = "response"} IN
    /\ At("polling") /\ runner.todo = {}
    /\ \E kept \in {{}} \cup {{d} : d \in R} :
         runner' = [at |-> IF kept = {} THEN "running" ELSE "replying",
                    todo |-> {}, batch |-> kept]
    /\ UNCHANGED <<daemon, session, supervisor, row, claimKeys, nackKeys, handed>>

\* The daemon's DispatchProvider command claims a delivery for a caller that
\* names the claim and the expected version; nothing is handed over by it.
DispatchClaim(d) ==
    /\ CurrentDaemon
    /\ row[d].status = "Queued" /\ row[d].attempt <= MaxAttempt
    /\ row' = Claimed(d)
    /\ UNCHANGED <<daemon, session, supervisor, claimKeys, nackKeys, runner, handed>>

-----------------------------------------------------------------------------
(* Handing over, and the receipts.                                         *)

\* prepare_provider_effect
Prepare ==
    /\ At("ready") /\ CurrentDaemon
    /\ Goes("prepared")
    /\ UNCHANGED <<daemon, session, supervisor, row, claimKeys, nackKeys, handed>>

Hands(D) == handed' = [d \in Mail |-> IF d \in D THEN handed[d] + 1 ELSE handed[d]]

\* run_cycle: the provider gets the prompt with the batch and accepts it.
\* A prompt that it does not get is Fail.
Drive ==
    /\ At("prepared") /\ supervisor.held
    /\ Hands(runner.batch)
    /\ Goes("accepted")
    /\ UNCHANGED <<daemon, session, supervisor, row, claimKeys, nackKeys>>

\* the answer of the provider to the response of a running turn
Reply ==
    /\ At("replying")
    /\ Hands(runner.batch)
    /\ runner' = [runner EXCEPT !.at = "marking", !.todo = AsRead(runner.batch)]
    /\ UNCHANGED <<daemon, session, supervisor, row, claimKeys, nackKeys>>

\* Mutant of AcceptInput: every claim of the member gets the receipt.
AcceptForAllClaims ==
    /\ At("accepted") /\ CurrentDaemon
    /\ runner' = [runner EXCEPT !.at = "marking", !.todo = AsRead(InStatus("Claimed"))]
    /\ UNCHANGED <<daemon, session, supervisor, row, claimKeys, nackKeys, handed>>

\* The acceptance callback: the effect is settled as Applied, and
\* mark_message_delivered comes for every Message of the batch.
AcceptInput ==
    /\ At("accepted") /\ CurrentDaemon
    /\ runner' = [runner EXCEPT !.at = "marking", !.todo = AsRead(runner.batch)]
    /\ UNCHANGED <<daemon, session, supervisor, row, claimKeys, nackKeys, handed>>

\* record_message_provider_receipt
ReceiptAdmits(d) ==
    MaySettle /\ row[d].status = "Claimed" /\ row[d].claim = daemon.gen

\* mark_message_delivered: the receipt, with the claim the row names by now
RecordReceipt ==
    /\ At("marking") /\ runner.todo # {} /\ supervisor.held
    /\ LET d == First(runner.todo).mail IN
         /\ ReceiptAdmits(d)
         /\ row' = [row EXCEPT ![d].status = "ProviderReceived", ![d].version = @ + 1]
    /\ Goes("acknowledging")
    /\ UNCHANGED <<daemon, session, supervisor, claimKeys, nackKeys, handed>>

\* acknowledge_message_delivery
Acknowledge ==
    /\ At("acknowledging")
    /\ LET t == First(runner.todo) IN
         /\ row[t.mail].status = "ProviderReceived"
         /\ row' = [row EXCEPT ![t.mail].status = "Acknowledged",
                               ![t.mail].version = @ + 1]
         /\ runner' = [runner EXCEPT !.at = "marking", !.todo = @ \ {t}]
    /\ UNCHANGED <<daemon, session, supervisor, claimKeys, nackKeys, handed>>

MarksDone ==
    /\ At("marking") /\ runner.todo = {}
    /\ runner' = [at |-> "running", todo |-> {}, batch |-> {}]
    /\ UNCHANGED <<daemon, session, supervisor, row, claimKeys, nackKeys, handed>>

\* The turn's terminal event.
EndCycle ==
    /\ At("running")
    /\ Goes("idle")
    /\ UNCHANGED <<daemon, session, supervisor, row, claimKeys, nackKeys, handed>>

-----------------------------------------------------------------------------
(* Failures, and putting mail back.                                        *)

\* A claim or a preparation is refused, the provider refuses the prompt, or its
\* acceptance does not arrive (a timeout, a lost transport): the cycle settles
\* as NotApplied.  A member may also be closed while it idles.
Fail ==
    /\ runner.at \in {"idle", "claiming", "ready", "prepared", "accepted"}
    /\ runner' = [at |-> "failing", todo |-> {}, batch |-> {}]
    /\ UNCHANGED <<daemon, session, supervisor, row, claimKeys, nackKeys, handed>>

\* Mutant of OwnClaims: the claims of every generation.
AnyClaims == InStatus("Claimed")

\* which claims a failed runner takes for its own
OwnClaims == {d \in InStatus("Claimed") : row[d].claim = daemon.gen}

\* fail_team_messages_for: the authority, and the rows
BeginRequeue ==
    /\ At("failing") /\ supervisor.held /\ CurrentDaemon
    /\ runner' = [runner EXCEPT !.at = "requeuing", !.todo = AsRead(OwnClaims)]
    /\ UNCHANGED <<daemon, session, supervisor, row, claimKeys, nackKeys, handed>>

\* Mutant of Requeued: the row keeps the generation of its claim.
RequeuedWithClaim(d) == [row EXCEPT ![d].status = "Queued", ![d].attempt = @ + 1,
                                    ![d].version = @ + 1]

\* RetrySafeFailure in reconcile_canonical_message_delivery
Requeued(d) == [row EXCEPT ![d].status = "Queued", ![d].attempt = @ + 1,
                           ![d].version = @ + 1, ![d].claim = 0]

\* reconcile_canonical_message_delivery for one row: a key used under this
\* generation with the same reason is a replay that changes nothing; with another
\* reason, or under an earlier generation, it is refused.
RequeueNext ==
    /\ At("requeuing") /\ runner.todo # {}
    /\ LET t == First(runner.todo) IN
         /\ \/ <<daemon.gen, t.mail>> \in nackKeys /\ UNCHANGED <<row, nackKeys>>
            \/ /\ \A g \in 1..MaxDaemon : <<g, t.mail>> \notin nackKeys
               /\ CurrentDaemon
               /\ row[t.mail].version = t.version /\ row[t.mail].status = "Claimed"
               /\ row' = Requeued(t.mail)
               /\ nackKeys' = nackKeys \cup {<<daemon.gen, t.mail>>}
         /\ runner' = [runner EXCEPT !.todo = @ \ {t}]
    /\ UNCHANGED <<daemon, session, supervisor, claimKeys, handed>>

\* The member is blocked or closed, or it tries a fresh transport.
RequeueDone ==
    /\ At("requeuing") /\ runner.todo = {}
    /\ \E p \in {"off", "idle"} : Goes(p)
    /\ UNCHANGED <<daemon, session, supervisor, row, claimKeys, nackKeys, handed>>

\* The operator's ReconcileMessageDelivery, with either outcome.
OperatorRequeues(d) ==
    /\ daemon.status = "Active" /\ row[d].status = "Claimed"
    /\ row' = Requeued(d)
    /\ UNCHANGED <<daemon, session, supervisor, claimKeys, nackKeys, runner, handed>>

OperatorAcknowledges(d) ==
    /\ daemon.status = "Active" /\ row[d].status = "ProviderReceived"
    /\ row' = [row EXCEPT ![d].status = "Acknowledged", ![d].version = @ + 1]
    /\ UNCHANGED <<daemon, session, supervisor, claimKeys, nackKeys, runner, handed>>

Next ==
    \/ Drain \/ Release \/ Succeed
    \/ StartSupervisor \/ StartMember \/ LeaseLapses \/ RunnerEnds
    \/ \E trigger \in BOOLEAN : BeginClaims(trigger)
    \/ BeginPoll \/ ClaimNext \/ ClaimsDone \/ PollDone
    \/ Prepare \/ Drive \/ Reply \/ AcceptInput
    \/ RecordReceipt \/ Acknowledge \/ MarksDone \/ EndCycle
    \/ Fail \/ BeginRequeue \/ RequeueNext \/ RequeueDone
    \/ \E d \in Mail : \/ Author(d) \/ DispatchClaim(d)
                       \/ OperatorRequeues(d) \/ OperatorAcknowledges(d)

Spec == Init /\ [][Next]_vars

-----------------------------------------------------------------------------
(* Properties.                                                             *)

\* However a batch fails, whoever puts its mail back, and whatever generation
\* goes on: the provider is handed one delivery at most once.  A lost acceptance
\* is settled as NotApplied and its mail requeued (run_team_member_with_adapter,
\* fail_team_messages_for), so this rests on the claim that follows.
HandedOverAtMostOnce == \A d \in Mail : handed[d] <= 1

\* A delivery that says the provider received it, or that the member
\* acknowledged it, was handed to the provider: mark_message_delivered never
\* reaches a claim that was dropped, or that another caller took.
ReceiptMeansHandedOver ==
    \A d \in Mail :
        row[d].status \in {"ProviderReceived", "Acknowledged"} => handed[d] >= 1

\* The claim of an earlier generation is uncertain: no runner settles it or puts
\* it back, only the operator does (fail_team_messages_for,
\* record_message_provider_receipt).
OldClaimNeedsOperator ==
    [][\A d \in Mail :
          row[d].status = "Claimed" /\ row[d].claim < daemon.gen /\ row'[d] # row[d]
            => runner' = runner]_vars

\* "explicitly requeues it under current authority": mail that is queued, as the
\* runner has just read it, is not refused by claim_message_for_provider under
\* the current generation.
QueuedMailIsClaimable ==
    At("claiming") /\ runner.todo # {} =>
        LET t == First(runner.todo) IN
        CurrentDaemon /\ t \in AsRead(InStatus("Queued"))
            => ClaimAdmits(t) \/ row[t.mail].attempt > MaxAttempt

-----------------------------------------------------------------------------
(* What the properties rest on: together, an inductive invariant.          *)

\* the deliveries a runner has ever claimed
ClaimedOnce == {d \in Mail : \E g \in 1..MaxDaemon : <<g, d>> \in claimKeys}

\* A row's version counts its transitions, so it says how far the attempt is.
VersionIsDetermined ==
    \A d \in Mail :
        /\ row[d].status = "Queued" => row[d].version = 2 * row[d].attempt - 1
        /\ row[d].status = "Claimed" => row[d].version = 2 * row[d].attempt
        /\ row[d].status = "ProviderReceived" => row[d].version = 2 * row[d].attempt + 1
        /\ row[d].status = "Acknowledged" => row[d].version = 2 * row[d].attempt + 2

\* What a runner has read is one version of each row, and no later one.
ReadsAreBehind ==
    /\ \A t, u \in runner.todo : t.mail = u.mail => t = u
    /\ \A t \in runner.todo : t.version <= row[t.mail].version
    /\ At("acknowledging") => runner.todo # {}

\* A row that a runner claimed is past its first version, for the runner that
\* is about to claim it again too.
ClaimedIsPastFirst ==
    /\ \A d \in ClaimedOnce : row[d].version >= 2
    /\ runner.at \in {"claiming", "polling"} =>
         \A t \in runner.todo : t.mail \in ClaimedOnce => t.version >= 2

\* Only what a runner claimed is in a batch or was handed over.
BatchIsClaimed ==
    /\ runner.batch \subseteq ClaimedOnce
    /\ \A d \in Mail : handed[d] >= 1 => d \in ClaimedOnce

\* Before the provider gets a batch nothing of it was handed over, and
\* afterwards everything that awaits its receipt was.
BatchFollowsHandover ==
    /\ runner.at \in {"claiming", "polling", "ready", "prepared", "replying"} =>
         \A d \in runner.batch : handed[d] = 0
    /\ At("accepted") => \A d \in runner.batch : handed[d] >= 1
    /\ runner.at \in {"marking", "acknowledging"} =>
         \A t \in runner.todo : handed[t.mail] >= 1

\* A runner lives under a generation that is not released, and a row it is
\* about to put back is still a claim of that generation or has moved on.
RequeuesItsOwn ==
    /\ ~At("off") => daemon.status # "Released"
    /\ At("requeuing") =>
         \A t \in runner.todo :
             row[t.mail].version = t.version =>
                 row[t.mail].status = "Claimed" /\ row[t.mail].claim = daemon.gen

IndInv ==
    /\ TypeOK
    /\ VersionIsDetermined
    /\ ReadsAreBehind
    /\ ClaimedIsPastFirst
    /\ BatchIsClaimed
    /\ BatchFollowsHandover
    /\ RequeuesItsOwn
    /\ HandedOverAtMostOnce
    /\ ReceiptMeansHandedOver

=============================================================================
