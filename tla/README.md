# Star Harness in TLA+: machine authority, routing, mail and Work

Star Harness runs teams of AI agents on a set of machines. On each machine one
**NodeDaemon** process supervises every agent team placed there: it starts
provider programs, hands them turns as durable **RuntimeCommands**, and records
what came back. What the teams see rests on four promises, each kept by code
that must survive crashes, late answers and successors of every kind:

- at any time at most one daemon process, under one **generation** of one
  **machine lease**, has effects on the machine, and a generation is not given
  up before all it started is accounted for;
- an operation routed from one machine to another is applied at most once, and
  what the Control Plane says of it is what happened;
- a message to an agent is handed to its provider at most once;
- a **Work** is handed to a provider again only if somebody asked for it, and is
  accepted only on the current Result of its owner.

This project models the code behind each: the lease file, the daemon that lives
under it with its threads and its successors, the registry of operating-system
processes, the remote fabric, the delivery of mail, and the life of a Work with
its execution. It checks the models with TLC and proves each of them correct, for
instances of every size, with TLAPS.

- [Inventory](#inventory)
- [Modules](#modules)
- [Runs](#runs)
- [Proofs](#proofs)
- [Where code and documents disagree](#where-code-and-documents-disagree)
- [Not modelled](#not-modelled)
- [Plan](#plan)

## Inventory

`PROJECT.json` lists every component with its sources. The ones that carry the
system's logic:

| Component | State it keeps | Operations | What makes it correct |
| --- | --- | --- | --- |
| Machine lease (`firm-store`: `store_machine_lease.rs`, `node_lease_*.rs`) | one JSON document per machine, a history file, a flock | acquire, renew, drain, release, read; historical release question | a generation has one owner ever; the document only moves forward; the history is ordered and final |
| NodeDaemon (`firm-node-daemon`) | flags, confirmed lease, threads, control socket | start, authority bundle, adopt, heartbeat, latch, reap, phased shutdown | no effect outlives its lease; every stop ends; a dead predecessor is recovered |
| Predecessor recovery and shutdown settlement (`firm-store`: `node_daemon_predecessor.rs`, `node_daemon_shutdown.rs`) | supervisor leases, commands, session lanes and their markers, per Execution Space | settle a dead generation in each Space; settle one's own lanes; mark what could not be settled | nothing is released while a Space is owed something |
| Process groups (`firm-runtime-host/src/lib.rs`) | the registry of provider process groups | register, kill, reap, release, terminate, complete | the registry names only our own children; a completion is a proof |
| Team supervisor lease (`store_node_runtime.rs`, `runtime_effects.rs`) | one lease per TeamRun with its own generation | acquire, renew, cancel, release | one supervisor per run; a renewal in flight does not outlive its cancellation |
| RuntimeCommand (`fabric_runtime_commands.rs`, `fabric_runtime_command_settlement.rs`) | one row per effect | prepare, apply, settle, mark for recovery, resolve | prepared before the effect, settled once, replay returns the same record |
| AgentSession (`fabric_identity_sessions.rs`) | session lane, residency, native pointer | open, attach, detach, reattach | one resident generation per lane |
| Work kernel (`work.rs`, `store_work_*.rs`, `trust_work_*.rs`, `fabric_work_execution*.rs`) | Work rows and their journal, the dependency graph, execution bindings, deliveries, Result reports | insert, assign, claim, start, block, submit, review, accept, cancel; bind, claim, receive, fail, release; redeliver, recover | acyclic graph; nothing runs before its prerequisites; no unasked replay; a Result keeps its evidence |
| Messages (`fabric_message_*.rs`, `trust_deliveries.rs`, the runner in `firm-cli`) | deliveries with attempts and claims, idempotency keys | author, claim, hand over, record receipt, acknowledge, requeue | handed over at most once; a receipt means handed over; an old claim is the operator's |
| Host attention and wake (`store_host_attention.rs`, `wake.rs`, `policy.rs`) | attention ledger | raise, resolve, decide | no needed wake is lost, none is repeated |
| Remote fabric (`firm-fabric`, `fabric_runtime`) | Control Plane: routes, attempts, receipts, gateway leases; node: outbox, inbox, ordering counters and tombstones | submit, accept, deliver, persist, claim, apply, record, reconcile, expire, reconnect | at-most-once application over an unreliable link; one truthful verdict; order per key |
| Journals (`store_jsonl.rs`, `store_read_cache.rs`) | append-only JSONL files, a cache | append, repair, compact, read | a torn tail is not read as a row; the cache is not stale |

How they interact. A daemon process takes the machine lease through the lease
file, which other daemon processes read and write at the same time. Inside the
process the recovery scanner and the control workers each run an *authority
bundle* (recover a dead predecessor, acquire or confirm the lease, revalidate),
then start a supervisor thread per TeamRun; a heartbeat thread renews the
lease; the serve loop owns the control socket and the shutdown. All of them
share flags in memory and rows in the Spaces' stores. Supervisor threads start
provider children through the process-group registry, which the shutdown closes
and drains. The Operator and the CLI act on the stores from other processes.

The remote fabric connects machines: a node's gateway process submits operations
of its node and applies those of others, under a gateway generation fenced by the
Control Plane, and keeps outbox and inbox in a local store. On a machine, the
runner of each member (a thread under the team supervisor) claims mail and Work
deliveries, hands them to a provider and records receipts; each claim and each
receipt is fenced by the daemon's generation, the session it is attached to and
the MemberRun's own generation. The Host, reviewers and members change Works at
the same time, each call under the Store's write lock and against the version
its caller saw.

What is hard: the three effects of a lease write (rename, directory fsync,
history append) with a crash or a power loss between them; readers that take no
lock; two bundles of one process side by side; four kinds of thread that can
each discover that authority is lost, while a shutdown runs; a settlement that
succeeds in one Space and fails in another; children spawned while admission is
closing; pids that are reused; a request and its response lost on either side of
a commit, with the old gateway process still running; mail read as a batch and
claimed row by row; receipts that arrive after their binding ended; a Close in
four Store calls with a daemon's drain between any two. `PROJECT.json` "hazards"
lists these at their lines, with the properties that cover each.

## Modules

| Module | Models |
| --- | --- |
| `LeaseRules` | the pure decisions of the lease verbs |
| `MachineLease` | the lease document, its history and the critical section around them |
| `NodeDaemon` | daemon processes, their threads, and the rows they share in the Spaces; implements `MachineAuthority` |
| `ProcessGroups` | the registry of provider process groups and the kernel beneath it |
| `MachineAuthority` | what the daemons of a machine promise together: an abstract specification |
| `RouteTruth` | what the fabric promises of an operation: an abstract specification |
| `Fabric` | Control Plane, gateways and node-local stores; implements `RouteTruth` |
| `MailDelivery` | deliveries of mail to one member, its runner, supervisor and daemon generations, the operator |
| `WorkExecution` | Works, their bindings and deliveries, MemberRun and daemon generations |
| `MachineLeaseProofs`, `NodeDaemonProofs`, `ProcessGroupsProofs`, `FabricProofs`, `MailDeliveryProofs`, `WorkExecutionProofs` | theorems and proofs |
| `MCMachineLease`, `MCNodeDaemon`, `MCProcessGroups`, `MCFabric`, `MCMailDelivery`, `MCWorkExecution` | symmetry sets and constants for TLC |

An operator commented "Mutant of X" is X with a plausible bug. Nothing uses it;
`PROJECT.json` pairs it with the property that fails when X is replaced by it,
which shows that the property depends on that piece of code.

### LeaseRules and MachineLease

`doc` is `node-daemon-lease.json` as readers see it, `disk` what a reboot would
find, `history` the rows of `node-daemon-lease-history.jsonl` reduced to
(generation, status), `writer` the holder of the flock and how far its write
is, `seen` the generation each process last learned of: a verb other than
acquire names that exact generation, however stale. `granted` is a history
variable: the acquisitions a caller was told about.

A verb (`Acquire`, `Renew`, `Drain`, `Release`) is the part of
`write_machine_lease` up to the rename: lock, read, decide by `LeaseRules`,
sample the clock, `require_forward_only`, publish. `SyncDirectory` and
`RecordHistory` are the rest of the same critical section, separate only
because a `Crash` or `PowerLoss` can fall between them. A failed append
(`RecordHistoryFails`) returns an error although the document landed, so the
caller retries what was done. The directory fsync is best-effort in the code
(`let _ = dir.sync_all()`): the constant `DirSyncReliable` says whether it
works. The clock moves both ways. A refused verb, a lock timeout and a crash
before the rename change nothing and are stuttering steps. Releasing takes no
proof of ownership in the store; that it is called rightly is NodeDaemon's
business.

The cutover from leases kept per Space is the starting value of the absent
document's generation (`LegacyGeneration`).

### MachineAuthority and NodeDaemon

`MachineAuthority` knows a machine's holder, how many generations were granted,
whether the holder may still begin work (`open`), whether it may still give the
machine up (`trial`), and which Spaces have work of which generation (`busy`, pairs
of the two). Work begins only for the current generation under an open authority, an
authority that ended does not open again, and the machine passes to the next holder
through nobody, when no Space has work of its generation (`Release`). The one
exception is `Forfeit`: a holder on trial leaves whatever was begun.

NodeDaemon (`Authority == INSTANCE MachineAuthority WITH ...`) reads the holder from a
document that is Active or Draining, and `open` from one that is Active and fresh. A
pair is busy while the Space owes the generation a command, a supervisor lease or a
lane, or a live process has a supervisor thread or a provider group of it there
(`Pending`). A holder is on trial (`OnTrial`) while one of its bundles has recovered a
dead predecessor and has yet to revalidate the lease it then took: that bundle may
still roll it back, and it does not know whether another worker of the process has
meanwhile confirmed the same lease and started work.

One process per `Instance`, used once (its id contains its pid and start time).
`node` holds the flags (`authority_lost`, `stop_requested`,
`authority_shutdown`), the confirmed lease and the phase of `serve_loop`; `pc`
where the scanner, a control worker and the heartbeat are; `job` the bundle each
worker has in hand; `drv` each supervisor thread with its provider process
group. `team` is the durable state of a Space, for one TeamRun of one member:
supervisor lease, RuntimeCommand, session lane with its `settlement_incomplete`
marker.

| Code | Actions |
| --- | --- |
| `MultiTeamDaemon::run`, socket and exit | `ProbeSocket`, `RemoveSocket`, `BindSocket`, `BindFails`, `Exit` |
| `ensure_node_authority_bundle` | `BeginBundle`, `RecoverSpace`, `PublishRecovery`, `Acquire`, `Verify` |
| `start_supervising`, `reap_finished`, scanner | `Supervise`, `LeaveAdopt`, `Reap`, `EndWorker` |
| `latch_machine_authority_loss` | `Latch` (inside the discovering step), `LatchDrain`, `LatchMark` |
| `renew_held_node_lease`, heartbeat loop | `BeatLoses`, `BeatDrops`, `BeatEnds` |
| supervisor thread, `prepare_runtime_command`, settlement | `Prepare`, `Finish`, `LoseScope`, `ThreadExit` |
| `serve_loop`, `graceful_shutdown_with_deadlines` | `LeaveServing` ... `DrainIncomplete` |
| `settle_node_daemon_shutdown_sessions` | `SettleSpace`, `SkipSettlement`, `EndSettlement` |
| drain, heartbeat join, release | `DrainAuthority`, `ShutAuthority`, `JoinBeat`, `Release` |
| the Operator, clients, time, crashes | `Resolve`, `RequestStop`, `AcceptStart`, `Expire`, `ExpireSupervisor`, `Crash` |

A lease verb is one step here; MachineLease has its inside. Time is reduced to
whether a lease is `fresh`: `Expire` may happen at any moment, a renewal that
succeeds leaves a fresh lease fresh and is a stuttering step. A store error the
code retries is a stuttering step, one it does not retry is an outcome of the
call (`StoreFails`).

An effect that returns (`Finish`) leaves one of three rows. A receipt settles the
command, under settlement authority. An admission that is dropped without one reads
the command again and fails it closed (`FailedClosed`), under no lease at all. If that
read or that write fails, the drop gives up, and the command stays prepared with
nobody to drive it in a daemon that goes on. No thread returns to it: the generation
then cannot be released by a shutdown, since its Space owes something, and the
command is settled by the Operator, once the supervisor lease is lost, or, if it was
for a message, by a successor's recovery.

Two constants are assumptions the code relies on and does not enforce; the runs say
which they make, and no theorem makes either:

- `GroupsDieWithDaemon`: no provider process group outlives a crashed daemon.
  The code confirms this to the store without looking.
- `Mortal`: which processes crash or are asked to stop.

### ProcessGroups

`reg` is `OwnedProcessGroups`; every critical section of its mutex is one
action. `child` is a transport's handle on its child, `kernel` the process
table: who leads the group of a pid, whether the leader has exited without
being waited for, whether a descendant is alive in the group. Signals may be
refused, a group may outlive its leader, and a pid whose group is empty may be
reused by a `Foreign` process; `struck` remembers whether one was signalled. A
child's token is unique, so the child stands for it. Where the code splits an
operation into two critical sections (a late registration, a refused kill) the
model has two actions with the window between them.

NodeDaemon uses this component as `KillGroups` and as the requirement of
`DrainConverged` that no group is left.

### RouteTruth and Fabric

`RouteTruth` has per operation the effect the target's application had and the
verdict of the FabricStore: it runs at most once, before any verdict; the verdict
is what the application said; an operation closed as expired never runs.

`Fabric` is the code that keeps this. `route` holds the attempts of an operation
at the Control Plane, `receipts` what it has recorded of them, `lease` the
gateway generation of each node; `outbox`, `inbox`, `tombstone`, `consumed` and
`active` are the node's local store; `session` is a gateway process, of which a
predecessor and its successor may run at once. `native` is a history variable:
how often the application ran and what it did. The refinement mapping
(`Truth == INSTANCE RouteTruth WITH ...`) reads the effect from `native` and the
verdict from the receipts the way `reconcile_operation` does.

| Code | Actions |
| --- | --- |
| Control Plane start, gateway connect, retries of what waits (`router.rs`, `control_plane.rs`) | `SucceedControlPlane`, `Connect` |
| gateway session (`node_gateway.rs`, `gateway_runtime.rs`) | `BindSession`, `SessionEnds` |
| delivery to the target | `Deliver`, `PersistInbox`, `ConsumeTombstone`, `RecordTargetPersisted` |
| application at the target | `ClaimInbox`, `Apply`, `RecordResult`, `RecordReceipt`, `RecordExpired` |
| the source (`local_store.rs`, `cli_routing.rs`) | `PrepareOutbox`, `Reconcile`, `MarkReceipt`, `RebindOutbox`, `Submit`, `ExpireOutbox` |
| acceptance and queue limits | `AcceptOperation`, `AcceptControlPlaneOperation` |

A session speaks in strict request and response, so a lost request, a lost
response, a crash, a timeout and a refusal are all `SessionEnds`, before or after
the Control Plane's step. Nobody's clock is trusted: each look at an expiry may
come out either way.

### MailDelivery

`row` is the CanonicalMessageDelivery of each message; `daemon`, `session` and
`supervisor` the generations its fences look at; `claimKeys` and `nackKeys` the
idempotency keys that decide whether a repeated call is a replay, a conflict or
new; `runner` the member's runner with the batch it read and has not yet worked
off. `handed` counts the provider's acceptances (history).

| Code | Actions |
| --- | --- |
| generations | `Drain`, `Release`, `Succeed`, `StartSupervisor`, `StartMember`, `LeaseLapses`, `RunnerEnds` |
| expansion to a delivery | `Author` |
| the runner's claims (`runtime_effects.rs`, `provider_interactions.rs`) | `BeginClaims`, `BeginPoll`, `ClaimNext`, `ClaimsDone`, `PollDone` |
| the daemon's dispatch | `DispatchClaim` |
| the cycle (`runtime_adapter.rs`) | `Prepare`, `Drive`, `Reply`, `AcceptInput`, `EndCycle`, `Fail` |
| receipts (`pi_runner_state.rs`) | `RecordReceipt`, `Acknowledge`, `MarksDone` |
| failure and requeue (`member_work_coordination.rs`) | `BeginRequeue`, `RequeueNext`, `RequeueDone` |
| the operator | `OperatorRequeues`, `OperatorAcknowledges` |

A batch is read in one step and worked off row by row; the supervisor lease may
lapse between any two. That a daemon generation is released only when its runner
is gone is taken from NodeDaemon (`EffectsStayUnderTheirLease`); the rollback that
breaks this there (see below) is not modelled here.

### WorkExecution

`work` is the projection of each Work with three revisions that summarise its
journal: the last at which responsibility changed, the last that re-authorizes
execution, the last that is not a refresh of links. `bindings` are the
WorkExecutionBindings in the order of their generation, each with the revision
and the runtime it froze, its delivery and how it ended. `member` is the
MemberRun of each member with its latest Close, `runtime` the attachment of the
sessions (`driver_generation`) and their daemon, `results` the Result reports.

| Code | Actions |
| --- | --- |
| `store_work_mutations.rs`, `store_work_graph.rs`, `store_work_state.rs` | `InsertWork`, `ReplaceDependencies`, `AssignWork`, `ClaimWork`, `ReleaseWork`, `StartWork`, `BlockWork`, `ResumeWork`, `RequestChanges`, `CancelWork` |
| `update_work_github_links` | `RefreshLinks` |
| `create_trust_work_report`, `accept_work_submission` | `SubmitResult`, `AcceptWork` |
| `redeliver_work_to_current_session`, `recover_lost_work_execution` | `RedeliverWork`, `RecoverLostExecution`, `RecoveryCrashes` |
| `bind_responsible_work_execution` and the releases | `BindExecution`, `ReleaseStale`, `ReleaseOwnBinding` |
| provider claim, receipt, failure | `ClaimDelivery`, `ReceiveDelivery`, `FailDelivery` |
| Close, Reopen, resume, failure of a MemberRun | `LatchClose`, `ReleaseForClose`, `StopForClose`, `CompleteClose`, `CloseEnded`, `ReopenMember`, `RuntimeEnds`, `RuntimeResumes` |
| drain, settlement and reattachment | `BeginDrain`, `SettleGeneration`, `SettlementCrashes`, `Reattach` |

Every action is one Store call, atomic under the write lock. Callers decide on
snapshots and name the version they saw, so any call may come at any time and a
refused one is a stuttering step. Where the Host may do what a member may (with
fewer conditions), one action stands for both.

Two calls commit more than once under that lock, and a crash between the commits is
an action of its own. `RecoverLostExecution` appends the release of the binding, then
the Work's operation; `RecoveryCrashes` is the first alone
(`store_work_execution_recovery.rs:54-60`). `SettleGeneration` supersedes the bindings
of the lost generation one by one; `SettlementCrashes` is the commit of one of them,
after which the generation begins nothing more and is settled again. That the code
settles only the lanes of exactly the lost session generation
(`fabric_work_execution_recovery.rs:147-152`) is abstracted: the sessions of the model
share one attachment.

## Runs

Deadlock is not checked in any run: a machine whose processes have all ended,
and whose generation or clock bound is reached, has legitimately stopped, and so
has a Work that is closed or an operation that has its verdict. That a *stop*
does not hang is `StopTerminates`.

| Run | Instance | Distinct states | Shows |
| --- | --- | --- | --- |
| `MachineLease` | 3 processes, 2 generations above the legacy one, ttl 1, clock 0..1 | 0.8 million | safety of the lease, below |
| `NodeDaemon` | 2 mortal processes, 2 generations, 1 Space, provider commands, start commands, late revalidations | 1.3 million | the refinement of MachineAuthority and what a rollback may do |
| `NodeDaemonSpaces` | 2 processes, 2 Spaces, 1 generation | 1.1 million | partial settlement |
| `NodeDaemonStop` | 1 process, start commands, failing reads and writes, fair | 0.3 million | stops end, and release nothing early |
| `NodeDaemonTakeover` | 1 mortal process, 1 that stays, 2 generations, message commands, fair | 0.2 million | nothing is given up early, and dead predecessors are recovered |
| `ProcessGroups` | 3 children, 2 pids | 31 thousand | the registry |
| `Fabric` | 1 target, 2 operations of one key from the Control Plane, 3 gateway and 2 Control Plane generations, queue limit 2 | 0.7 million | delivery, order and the refinement of RouteTruth |
| `FabricSource` | source and target, 1 operation of the source, 2 gateway and 2 Control Plane generations | 0.2 million | what a source knows and submits |
| `MailDelivery` | 2 deliveries, 2 daemon and 3 supervisor generations, 2 attempts | 0.5 million | mail to one member |
| `WorkExecution` | 1 Work of 5 revisions with a pull request, 1 member that may fail, 2 bindings, 1 Close and Reopen, 1 change of daemon | 1.3 million | execution of one Work |
| `WorkGraph` | 2 Works of 6 and 3 revisions, 2 members, 1 binding each | 0.5 million | dependencies, responsibility, acceptance |

Why these bounds. The lease decisions compare one generation with the next and
one expiry with the clock; two successions and a clock with two readings make
every comparison come out every way, and a third process is what it takes for
one to hold a stale belief while two others succeed each other. For the daemon,
two processes give a predecessor and a successor, two generations the
recovery of the first and the life of the second; a second Space is needed only
where one settles and the other does not. Three children on two pids make a pid
be reused by a child and by a stranger. Where the proofs exist they remove the
bounds.

The fabric needs two operations of one key for order and for a tombstone, and
three gateway generations for an operation that is delivered, retried and retried
again while an older process runs; a source needs one operation, one loss and one
successor. A delivery that is claimed, put back and claimed again takes two
attempts, and a stale claim two daemon generations; a batch with one row done and
one to go is two deliveries (an instance with three was checked once: 10.7
million states, no error). A Work reaches acceptance at revision 5 (insert, assign,
start, submit, accept), and each longer life (a request for changes, a recovery,
a reassignment, a refresh) is cut off where its next step would add nothing but a
revision; two bindings are what a replay takes. Deep lives of two members on one
Work with Close, failure and daemon change were checked once at 6 revisions (5.3
million states, no error).

**MachineLease** checks that no generation is ever handed to two processes
(`OneOwnerPerGeneration`), that what a caller was told survives a power loss
(`GrantsAreDurable`), that a generation recorded as released is never again
driven (`ReleasedRowIsFinal`), that the history is a strictly advancing line
(`HistoryAdvances`), and that the document only moves forward whatever the
clock does (`DocumentMovesForward`).

**NodeDaemon** has two workers in each process that run bundles, so that one may roll
back what the other uses, with crashes, stops and expiry at every point. It
checks that the daemons implement `MachineAuthority` (`MachineAuthorityHolds`); that
only the rollback of a bundle lets a generation go with work in a Space, and nothing
is begun or owed anew under one that was let go (`OnlyRollbackLeavesWork`); that
nothing but its thread's return, the Operator or the death of the process takes a
command from an effect under way (`EffectKeepsItsCommand`); and that a marker does not
outlive what it records (`MarkedLaneIsAttached`).

That a generation is *never* released while a Space owes it a command, a supervisor
lease, a lane or a marker (`FinishedGenerationOwesNothing`) is false in that instance
(below), by the rollback alone. Three runs check it where no such rollback happens:
**NodeDaemonStop**, one process without a predecessor, whose Store calls may fail, so
that a returning effect may leave its command prepared; **NodeDaemonSpaces**, with two
Spaces, of which one settles and the other refuses; and **NodeDaemonTakeover**, over two
generations with message commands, which a recovery settles. In the last two only the
scanner runs bundles. That a supervisor thread or provider group lives only while the
lease names its process and generation (`EffectsStayUnderTheirLease`) is checked by
**NodeDaemonStop** and **NodeDaemonSpaces**, where groups die with their daemon.

**NodeDaemonStop** and **NodeDaemonTakeover** also check liveness: every stop, and
every expiry of the held lease, ends the process; a dead predecessor without an
ambiguous command is moved past. Fairness is weak fairness of each thread of a
live process, of the start sequence of a process that has probed the socket,
and of `Expire` (time passes). Operating-system scheduling gives the first two;
joins in the code are on those same threads. Nothing is asked of supervisor
threads, which wait for external programs and may hang, nor of clients, the
Operator or crashes. A liveness run of a takeover keeps the successor alive
(it is not in `Mortal`), since a successor that is stopped owes nothing.

**ProcessGroups** checks that the registry never names a pid that may belong to
somebody else (`RegisteredGroupIsOurs`) and that a successful
`complete_registered_process_group_shutdown` proves that every child was waited
for and every group that refused a signal is gone (`CompletionIsProof`).

**Fabric** checks that the application of an operation runs at most once
(`AppliesAtMostOnce`), that operations of one key cross the application boundary
in the order of their acceptance (`ClaimsKeepOrder`), that retries never grow a
queue past its limit (`QueueIsBounded`), and that the whole implements
`RouteTruth` (`RouteTruthHolds`). **FabricSource** checks that a source's terminal
receipt is true of the target now and later (`SourceKnowsEffect`) and that what a
current session submits is new to the Control Plane
(`SubmitsOnlyTheUnaccepted`).

**MailDelivery** checks `HandedOverAtMostOnce`, `ReceiptMeansHandedOver` and
`OldClaimNeedsOperator` (a claim of an earlier generation is settled by the
operator alone).

**WorkExecution** checks that what a provider received is not handed out again
unless somebody re-authorized it after that revision
(`NoReplayWithoutReauthorization`), that no later drain, crash, recovery or
reassignment turns the evidence of a Result into a lost execution
(`ResultKeepsItsReceipt`), and that nothing but a refresh of links moves a Work
while a claim on its current revision is unsettled
(`UnsettledClaimHoldsTheWork`). **WorkGraph** checks that a Work in a provider's
hands or under review has its prerequisites accepted
(`ExecutionHasPrerequisites`), that the graph is acyclic however it was built
(`DependenciesAreAcyclic`; the code searches a path, the model asks for a closed
set, the property for a least element of every set), and that an accepted Work
was accepted on its owner's current Result (`AcceptedOnItsOwnersResult`).

## Proofs

The theorems hold for any sets of processes, Spaces, children, nodes, operations,
deliveries, Works and members and for any bounds, from the named assumption each
module makes on its constants (`LeaseRulesAssumption`, `MachineLeaseAssumption`,
`NodeDaemonAssumption`, `ProcessGroupsAssumption`, `FabricAssumption`,
`MailAssumption`, `WorkAssumption`). These say what type a constant has and that
`Nobody`, `None`, `Foreign`, `NoOp`, `NoOwner` and `ControlPlane` are none of the
others; two say more. `Kinds` of commands is not empty, and operations of one key
have one target (`FabricAssumption`): a key stands for the `ordering_index` of
target and key together (`router.rs:157`). The one condition on
what the environment does, `DirSyncReliable`, is written in the theorems that need it.

Every module ends with the invariant its proof is by, `IndInv`, a conjunction of
named parts with a comment each; TLC has checked it on the instances of the runs.

**MachineLeaseProofs.** `TypeCorrect` and `DocumentIsForwardOnly` are proved
without a condition: the document moves forward short of a power loss even
where the directory fsync fails. `GenerationsAreUnique`, `GrantsSurvive`,
`HistoryIsOrdered` and `ReleasedRowsAreFinal` assume `DirSyncReliable`. None of them is inductive: that generations are unique says
nothing about a document that is current and not yet durable. The inductive
invariant `IndInv` orders (generation, status) pairs and adds that the durable
document is at most the current one, and equal to it once the writer is past
its fsync (`DiskIsBehind`), and that every history row was durable when written
(`RowsAreDurable`). A power loss then moves the document back, but never behind
a row or a grant. The proof shows once that every verb's document advances in
that order (`VerbsAdvance`), then treats all verbs by one lemma
(`PublishStep`), and the fsync (`SyncStep`) and the append (`RecordStep`) by one
each.

**ProcessGroupsProofs.** `TypeCorrect`, `RegistryIsTruthful` and
`CompletionProves`. What makes them inductive is bookkeeping over the life of a
child: whoever has not been waited for is known to its thread, the registry or
the residue (`UnwaitedIsAccounted`); whoever has a guard has not been waited
for (`GuardedIsUnwaited`), so its pid cannot have been reused; a refused signal
stays recorded until the completion has looked (`RefusalIsRecorded`). A
completion that finds all three lists empty, after all threads were joined
(`JoinedWhenLate`), therefore leaves nobody unaccounted for.

**NodeDaemonProofs.** `TypeCorrect`, `MarkersAreTrue`, `EachGenerationHasOneDriver`,
`EffectsKeepTheirCommands`, `OnlyRollbacksLeaveWork` and
`NodeDaemonImplementsMachineAuthority`, all without a condition: start commands run
bundles side by side, revalidations come late or fail, and provider groups outlive
their daemon.

What makes the release of a generation clean differs by who releases it, and
`IndInv` has a part for each. A shutdown (`ShutdownFits`) has joined the workers
before it looks at the drivers, so that none can start another; it settles only
when all are done, and what it found clear stays clear, since nobody else can
begin anything under its lease. A recovery (`RecoveryFits`) is of a generation whose
owner is dead, and clears each Space before it leaves it. Of a rollback
(`RollbackIsOwn`) only this is true, that it is of a generation its own process has:
it may leave a Space with work, and the threads that work it may still run when the
next generation is granted. So the invariant cannot say that earlier generations are
clear. It says instead that a thread of the current generation drives under the
owner's lease and the rows of its generation (`DriverFits`), and that the threads of
any one generation are of one process (`OneDriverPerGeneration`), so that a prepared
command has only one thread whose return can settle it, stragglers of rolled-back
generations included. `OwnerIsKnown` and `GenerationsAreBehind` say that the
document, the rows and the bundles agree on what generation there is.

The model has some forty actions and seven variables. The proof first names the actions
that write each variable, then says in a relation what any step does to it: the
rows of a Space are eased or something begins in it (`Eases`, `Begins`), the
document keeps its owner and generation or the next one is granted (`Keeps`,
`Grants`), a process goes on or ends (`Goes`), its shutdown advances by a phase
(`Shuts`), a supervisor thread continues (`Continues`), a worker and its bundle go
from one control point to the next (`Turns`, `Bundles`). Each part of the invariant
is then proved from the relations, not action by action: that a Space owed nothing
is owed nothing later (`ClearStays`), say, is one lemma that three parts use.

The action properties follow from the same relations. Of a command in use,
`CommandStays` says who takes it: the Operator, the return of the thread it belongs to,
or a recovery, which is of a generation whose owner is dead. `PendingStays` says that a Space without work of a
finished generation gets none, and `ReleaseIsClean` that a release which is no
rollback finds no work; together they are `OnlyRollbacksLeaveWork`.

The refinement of `MachineAuthority` adds the trial. A step that writes the document
writes no row and no thread (`DocIsWrittenAlone`), so a step of the authority leaves
the work there is as it is (`WorkStays`). A release that is no rollback is the abstract
`Release`; a rollback is by a bundle on trial (`RollbackIsOnTrial`) and is `Forfeit`;
and a trial that ended does not begin again under the same generation (`TrialEnds`).
All other steps are the abstract `Work`, or `Settle` once the authority has ended:
nothing is begun then (`WorkIsBegunUnderOpenAuthority`), and what ended stays so
(`AuthorityEnds`).

**FabricProofs.** `TypeCorrect`, `ApplicationsRunOnce`, `SourcesKnowTheEffect`,
`SubmissionsAreNew`, `QueuesAreBounded`, `ClaimsAreInOrder`, all without a
condition. The invariant says what a gateway session has in hand at each point
(`InHand`): an operation that its node's inbox holds under its own generation, one
that the Control Plane has recorded as persisted and has no verdict on, a result
that is what the application said. Two sessions of a node can then never be
entrusted with one operation, though both may run. That a verdict is true
(`VerdictIsTrue`), that what the Control Plane has heard of from a target is not
queued again (`PersistedStaysPersisted`) and that the source writes down receipts
only (`SourceIsTold`) follow from it. The order of claims needs that the inbox fills
in the order of the places given out, under generations that grow
(`InboxKeepsOrder`). The queue bound needs that an operation has one attempt that
has not ended (`WellRouted`), so that attempts are counted by operations.

`FabricImplementsRouteTruth` is the refinement. Under the mapping, `Apply` is the
`Run` of the abstract operation, `RecordReceipt` its `Conclude`, `RecordExpired`
and a `Connect` that ends an expired attempt its `Expire` (of several operations at
once, so `RouteTruth` closes a set); every other step leaves effects and verdicts
as they are. That a `Run` finds no verdict, and an `Expire` no effect, is what the
invariant is for.

**MailDeliveryProofs.** `TypeCorrect`, `MailIsHandedOverOnce`, `ReceiptsAreTrue`,
`OldClaimsNeedTheOperator`, without a condition. The argument is about versions: a
row's version counts its transitions (`VersionIsDetermined`), so a batch, read
before, is behind the row as soon as anybody moved it (`ReadsAreBehind`). A row that
a runner once claimed is past its first version for good (`ClaimedIsPastFirst`) and
a runner's claim of it is refused; so what is in a batch was claimed once, and
before the provider accepts the batch nothing of it was handed over
(`BatchFollowsHandover`). The proof rests on the refused reclaim that leaves queued
mail stuck (`QueuedMailIsClaimable` below): whoever repairs that must give the
promise another ground.

**WorkExecutionProofs.** `TypeCorrect`, `ReceivedWorkIsNotReplayed`,
`ExecutionIsReady`, `DependenciesStayAcyclic`, `ResultsKeepTheirReceipts`,
`AcceptanceIsOnTheOwnersResult` and the action property `UnsettledClaimsHold`,
without a condition. A step moves at most one Work by one revision (`Moves`) and
takes each binding along its life (`Evolves`); `BindingIsBehind` and
`ResultsAreBehind` say what the revisions frozen in bindings and Results still tell
of a Work that has not moved since, which is all that the code's version checks
look at. `PhaseFits` keeps a closed prerequisite closed. Acyclicity is inductive by
itself: a replacement is refused unless a closed set of Works holds the new
prerequisites and not the changed Work, and any set of Works then has its least
element inside the closed set or outside it.

Only model-checked: all liveness (`StopTerminates`, `ExpiredAuthorityEndsDaemon`,
`DeadPredecessorIsRecovered`; the prover has no rule for fairness or ENABLED);
`FinishedGenerationOwesNothing` and `EffectsStayUnderTheirLease`, which the code does
not keep in general, and which are checked where no rollback meets a second bundle
(and, for the latter, no group outlives its daemon); and the properties that fail
below, which show by a counterexample what they show.

## Where code and documents disagree

One run is expected to fail. It checks a sentence of the repository and finds an
execution of the code that contradicts it; the trace is TLC's.

- `FindingOutboxExpiry` (`LocalExpiryIsTruthful`): the source's replay looks at
  an operation's expiry before it reconciles it, so a submission that was
  accepted and whose answer was lost is settled locally as "not applied,
  expired", while the Control Plane has a route for it and the target may have
  applied it.

The following are properties or constants of the modules too. Each can be
reproduced by adding the property to the configuration named, or by changing the
constant; they are kept out of the list of runs because they concern a smaller
promise or follow from an assumption stated above.

| Property | Configuration | Execution |
| --- | --- | --- |
| `ReleaseProofSurvives` | `MachineLease.cfg` | a daemon that dies after publishing Released and before appending the history row leaves no proof of its release once a successor has acquired |
| `GrantsAreDurable`, then `OneOwnerPerGeneration` | `MachineLease.cfg` with `DirSyncReliable = FALSE` | after an unreported fsync failure and a power loss a number is issued twice (`node_lease_document.rs:21-23` calls the stale document detectable) |
| `DrainIncompleteIsOnRecord` | `NodeDaemon.cfg` | the heartbeat drops the confirmed lease when it sees Draining; the latch and the incomplete drain, which look up the generation to mark there, then mark nothing |
| `OperatorResolves` | `NodeDaemonTakeover.cfg` with `OperatorSpec` and `Kinds = {"provider"}` | an ambiguous command of a dead daemon can be resolved only under an Active, unexpired lease, and no such lease can come while it is ambiguous; the specification adds an Operator who resolves whatever can be |
| `FinishedGenerationOwesNothing` | `NodeDaemon.cfg` | the scanner, which recovered a predecessor and took the next generation, fails to revalidate it and rolls it back to Released, after a control worker's bundle has confirmed it and started a supervisor (`machine_authority.rs:340`; line 191 says no effect can have crossed admission by then) |
| `EffectsStayUnderTheirLease` | `NodeDaemonSpaces.cfg` with `GroupsDieWithDaemon = FALSE` | recovery declares groups terminated after probing the daemon's pid alone (`machine_authority.rs:502`; ADR 0073 calls recovery the first party with a process-group termination proof) |
| `RendezvousIsKept` | `NodeDaemonSpaces.cfg` with three instances and one Space | of two daemons starting on a stale socket, the slower removes the path the faster has bound (`supervisor_daemon.rs:333`) |
| `UnsettledLaneIsOnRecord` | `NodeDaemonSpaces.cfg` | a refused shutdown settlement leaves its lanes attached and unmarked, though operations.md:507 says such a generation "says so" |
| `NeverSignalsForeign` | `ProcessGroups.cfg` | a late child is waited for outside the registry mutex while its pid is on the list a second termination signals |
| `NoDescendantIsOrphaned` | `ProcessGroups.cfg` | a group whose leader exits by itself is unregistered with a descendant alive (`firm-runtime-host/src/lib.rs:249`) |
| `PendingIsNextInOrder` | `Fabric.cfg` | an operation that expires while its target reconnects is ended at the Control Plane (`router.rs:700`) and the target never consumes its number; the next one of the key is refused as out of order on every delivery (`local_store.rs:662-663`: the tombstone "prevents a terminal NotApplied #1 from permanently blocking valid #2") |
| `QueuedMailIsClaimable` | `MailDelivery.cfg` | a delivery that was claimed and put back is queued, and its next claim is refused: under the same generation it repeats an idempotency key, under a successor it names a version the new attempt does not have; the error ends the batch, so mail after it waits too (`runtime_effects.rs:828`; codex-message-delivery.md:190-192 has an operator requeue it "under current authority") |
| `ClosedWorkKeepsItsResultPath` | `WorkExecution.cfg` with `MaxGeneration <- TwoReopens`, `Linked = {}`, `Unreliable = {}` | a started Work whose binding a Close released keeps its path to a Result over one Reopen only: after a second Close and Reopen no binding is of the predecessor generation, and the recovery does not call a Close-released execution lost; only cancelling is left (operations.md:731-733: "keeps its reopened-Result path and is never lost") |

Smaller ones, met while reading and recorded here without a property.

- Fabric. When the inbox row is persisted and the TargetPersisted receipt is
  lost, a successor's redelivery is refused as a changed fingerprint, and the
  operation gets no terminal receipt. The comment at `router.rs:694-698`, that no
  target inbox was reached, is then false.
- Mail. `fail_team_messages_for` speaks of the current Supervisor generation and
  compares the daemon's. A lost acceptance is settled NotApplied and the mail
  requeued although the provider may have it: `HandedOverAtMostOnce` then rests
  on the refused reclaim above, so repairing one without the other would break
  it. A poll for a response claims the whole mailbox and drops all but the
  response. `mark_message_delivered` acts on the claim the row has now, not the
  one it was read with.
- Work. A refresh of links gives the Work a new revision, and the fences of
  cancellation, assignment and release, which ask for a delivery at the current
  revision, no longer see an unsettled claim on the previous one
  (agent-runtime.md:498-501 says it "fences cancellation"). "One active Work per
  member" (`store_work_mutations.rs:678`) does not survive block, start of
  another, resume. A queued binding is said to be claimed unchanged by the
  reattached lane, but the reattachment advances `driver_generation`, so the
  binding is stale, released and made again. Reassigning a started Work strands
  it: its new owner has no binding and cannot start it again.

## Not modelled

- Inside the machine authority: panics of daemon threads; the per-run
  holds of `recovery.rs`; waiting for capacity; the self-stop event journal;
  status queries and control commands other than start and stop; write errors
  of the marker itself; torn lines of the history file; several TeamRuns and
  members per Space.
- The predecessor probe is its verdict (`ProvenDead`): expired lease, process
  gone. How it reads `ps` and start times is parsing of another program's output.
- The authority-loss interrupt of live turns: one cooperative call that changes
  no durable state and that the shutdown does not wait for.
- Inside the fabric: enrollment, certificates and their rotation, administrative
  status of nodes, artifact transfer, follow-up operations, rate windows and the
  byte limit of a queue.
- Inside mail: admission of peer messages, Team-subject claims by membership,
  external acknowledgement, rows of earlier schemas.
- Inside Work: delegation, modules and gates, condition records, notes and
  failure reports, eligibility and membership states, idempotent replay of a
  command, retargeting to another session, detached-recovery closes, host-mode
  transitions, the migration of legacy rows.
- The team supervisor lease, RuntimeCommands and session lanes are modelled as
  far as authority, shutdown, mail and Work depend on them.
- Host attention and wake decisions, collaboration records, the journals and the
  read cache: not yet.
- Provider wire protocols, event projection, the CLI and HTTP surface, the
  dashboard, governance checks, schemas and scripts: conversion, rendering and
  external programs without a protocol of this system's own. They, and tests,
  are most of the repository's lines.

## Plan

Done: the machine lease, NodeDaemon, the process groups, the fabric,
mail delivery, the Work kernel, and the abstract specifications of the daemon and
of the fabric; for each its invariants proved, and both refinements. What is left,
in order:

1. `MachineAuthority` refined by MachineLease too, with the history hidden and the
   busy Spaces left open; a power loss that moves the document back needs a mapping
   by what callers were told.
2. `RuntimeCommand`: replay and the preconditions per command kind;
   `SupervisorLease`: the cancellable renewal and its retry budget.
3. `WakeDecision` and the attention ledger, against a reference.
4. `Journal`: torn tail, repair and compaction against readers; then torn lines
   in the lease history.
