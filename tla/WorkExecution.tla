---------------------------- MODULE WorkExecution ---------------------------
(***************************************************************************)
(* Works and their execution: the responsibility plane (who owns a Work,   *)
(* which phase it is in, what it waits for), the execution plane (the      *)
(* WorkExecutionBindings that freeze one revision of a Work for one        *)
(* generation of its owner's MemberRun, each with its one WorkDelivery),   *)
(* and the runtime under both: MemberRuns that close, reopen and fail, and *)
(* a NodeDaemon that drains or dies and is succeeded.                      *)
(*                                                                         *)
(* Every action is one Store call, atomic under the Store's write lock.    *)
(* The callers (the dispatch pass of a runner, the GitHub poll, the Host's *)
(* and the members' commands) decide on snapshots they read before; each   *)
(* names the version it saw and is refused when it is stale, so a call in  *)
(* any order is an action here and a refused one is a stutter.             *)
(***************************************************************************)
EXTENDS Naturals, Sequences, FiniteSets

CONSTANTS
    Work,           \* the Works of one TeamRun
    Member,         \* the AgentMembers that may own them, one MemberRun each
    NoOwner,        \* owner_member_id = None
    Linked,         \* the Works with a pull request that the GitHub poll refreshes
    Unreliable,     \* the members whose runtime may end without a Close
    MaxVersion,     \* per Work: bound on its revisions
    MaxBinding,     \* bound on the bindings of one Work
    MaxGeneration,  \* per member: bound on the generations of its MemberRun
    MaxDriver       \* bound on the attachments of the AgentSessions to a daemon

ASSUME WorkAssumption ==
    /\ NoOwner \notin Member
    /\ Linked \subseteq Work /\ Unreliable \subseteq Member
    /\ MaxVersion \in [Work -> Nat \ {0}]
    /\ MaxGeneration \in [Member -> Nat \ {0}]
    /\ {MaxBinding, MaxDriver} \subseteq Nat \ {0}

VARIABLES
    work,       \* per Work: its projection and what its journal says of revisions
    bindings,   \* per Work: its bindings in the order of binding_generation
    member,     \* per member: its MemberRun and its latest Close request
    runtime,    \* the driver_generation of the sessions, and their NodeDaemon
    results     \* per Work: its Result reports

vars == <<work, bindings, member, runtime, results>>

-----------------------------------------------------------------------------
(* The state.                                                              *)

Revision == Nat

\* A Work is None before its insertion.  Three fields summarise its journal:
\* the last revision at which responsibility changed, the last one that
\* re-authorizes execution, the last one that is not a refresh of its links.
WorkRow ==
    [phase : {"None", "Open", "Active", "Review", "Closed"}, blocked : BOOLEAN,
     resolution : {"None", "Accepted", "Cancelled"}, owner : Member \cup {NoOwner},
     prereqs : SUBSET Work, version : Revision,
     responsibility : Revision, reauthorized : Revision, moved : Revision]

\* A binding, the runtime facts it froze, its delivery and how it ended:
\* released, released by a Close (the generation that latched it is named),
\* or invalidated because its runtime generation was lost.
Binding ==
    [revision : Revision, reauthorized : Revision, member : Member,
     generation : Nat, driver : Nat, close : Nat,
     status : {"Active", "Released", "Closed", "Lost"},
     delivery : {"Queued", "Claimed", "ProviderReceived", "Failed"}]

Result == [revision : Revision, author : Member, binding : Nat]

\* Types of the variables; at most one binding of a Work is Active and it is
\* the latest, and a journal summary never runs ahead of the Work.
TypeOK ==
    /\ work \in [Work -> WorkRow]
    /\ bindings \in [Work -> Seq(Binding)]
    /\ results \in [Work -> SUBSET Result]
    /\ \A w \in Work :
         /\ work[w].version \in 0..MaxVersion[w]
         /\ {work[w].responsibility, work[w].reauthorized, work[w].moved}
              \subseteq 0..work[w].version
         /\ \A i \in DOMAIN bindings[w] :
              bindings[w][i].status = "Active" => i = Len(bindings[w])
    /\ member \in [Member -> [generation : Nat, state : {"Live", "Down", "Closed"},
                              close : Nat, applied : BOOLEAN]]
    /\ runtime \in [driver : 1..MaxDriver, daemon : {"Active", "Draining", "Gone"}]

Init ==
    /\ work = [w \in Work |->
                 [phase |-> "None", blocked |-> FALSE, resolution |-> "None",
                  owner |-> NoOwner, prereqs |-> {}, version |-> 0,
                  responsibility |-> 0, reauthorized |-> 0, moved |-> 0]]
    /\ bindings = [w \in Work |-> <<>>]
    /\ member = [m \in Member |->
                   [generation |-> 1, state |-> "Live", close |-> 0, applied |-> TRUE]]
    /\ runtime = [driver |-> 1, daemon |-> "Active"]
    /\ results = [w \in Work |-> {}]

-----------------------------------------------------------------------------
(* What the code asks of this state.                                       *)

Normal(w, phase) == work[w].phase = phase /\ ~work[w].blocked

\* require_mutable_work
Mutable(w) == work[w].phase \in {"Open", "Active", "Review"}

Owned(w) == work[w].owner # NoOwner

Accepted(w) == work[w].resolution = "Accepted"

Live(m) == m # NoOwner /\ member[m].state = "Live"

PendingClose(m) == ~member[m].applied

\* require_work_ready_for_execution_unlocked
Ready(w) == Normal(w, "Open") /\ \A p \in work[w].prereqs : Accepted(p)

ActiveBindings(w) == {i \in DOMAIN bindings[w] : bindings[w][i].status = "Active"}

\* a delivery at the Work's current revision has one of these statuses
CurrentDelivery(w, statuses) ==
    \E i \in DOMAIN bindings[w] :
        /\ bindings[w][i].revision = work[w].version
        /\ bindings[w][i].delivery \in statuses

\* ensure_deliveries_reassignable_unlocked
Reassignable(w) == ~CurrentDelivery(w, {"Claimed", "ProviderReceived"})

\* work_responsibility_changed_after_revision_unlocked
ResponsibilityChanged(w, i) == work[w].responsibility > bindings[w][i].revision

\* The MemberRun generation and the attachment that the binding froze are
\* the ones of today (require_live_runtime_binding_unlocked).
RuntimeIsLive(w, i) ==
    LET b == bindings[w][i] IN
    /\ Live(b.member)
    /\ b.generation = member[b.member].generation
    /\ b.driver = runtime.driver

\* work_execution_binding_is_current_unlocked
IsCurrent(w, i) ==
    LET b == bindings[w][i] IN
    /\ Mutable(w)
    /\ work[w].owner = b.member
    /\ ~ResponsibilityChanged(w, i)
    /\ b.revision = work[w].version \/ b.delivery \in {"Claimed", "ProviderReceived"}
    /\ b.delivery # "Failed"
    /\ RuntimeIsLive(w, i)

\* member_run_holds_work_responsibility_unlocked: the owner's live MemberRun
\* holds the binding that the provider received.
HoldsResponsibility(w) ==
    \E i \in ActiveBindings(w) :
        LET b == bindings[w][i] IN
        /\ work[w].owner = b.member /\ Live(b.member)
        /\ b.generation = member[b.member].generation
        /\ ~ResponsibilityChanged(w, i)
        /\ b.delivery = "ProviderReceived"

\* One successor revision of w: the event that records it changes
\* responsibility, re-authorizes execution, or merely refreshes.
Successor(w, changes, reauthorizes) ==
    LET v == work[w].version + 1 IN
    [work[w] EXCEPT !.version = v, !.moved = v,
        !.responsibility = IF changes THEN v ELSE @,
        !.reauthorized = IF reauthorizes THEN v ELSE @]

\* Version CAS: the caller's expected_version is the current one.
Advance(w, row) ==
    /\ work[w].version < MaxVersion[w]
    /\ work' = [work EXCEPT ![w] = row]

Rebind(w, i, b) == bindings' = [bindings EXCEPT ![w][i] = b]

\* What release_work_execution_binding_unlocked leaves of a binding.
Ended(b, status, close) ==
    [b EXCEPT !.status = status, !.close = close,
              !.delivery = IF @ = "Queued" THEN "Failed" ELSE @]

\* A binding of a lost runtime generation: what the provider has of its
\* delivery counts as failed.
LostBinding(b) == [b EXCEPT !.status = "Lost", !.delivery = "Failed"]

\* The prerequisites lead back to w: w is in every set that holds deps and
\* is closed under prerequisites (validate_dependency_replacement).
LeadsBack(w, deps) ==
    \A S \in SUBSET Work :
        (/\ deps \subseteq S
         /\ \A p \in S : work[p].prereqs \subseteq S) => w \in S

-----------------------------------------------------------------------------
(* The responsibility plane.                                               *)

\* Mutant of Acyclic: refuses only a Work that waits for itself.
NotItself(w, deps) == w \notin deps

\* prepare_dependency_change
Acyclic(w, deps) == ~LeadsBack(w, deps)

\* insert_work: unassigned, Open, behind Works that exist.
InsertWork(w, deps) ==
    /\ work[w].phase = "None"
    /\ \A p \in deps : work[p].phase # "None"
    /\ Acyclic(w, deps)
    /\ Advance(w, [Successor(w, FALSE, FALSE) EXCEPT !.phase = "Open", !.prereqs = deps])
    /\ UNCHANGED <<bindings, member, runtime, results>>

\* Mutant of ReplaceDependencies: does not ask for an active binding.
ReplaceDependenciesAnytime(w, deps) ==
    /\ work[w].phase = "Open"
    /\ \A p \in deps : work[p].phase # "None"
    /\ Acyclic(w, deps)
    /\ Advance(w, [Successor(w, FALSE, FALSE) EXCEPT !.prereqs = deps])
    /\ UNCHANGED <<bindings, member, runtime, results>>

\* replace_work_dependencies, by the Host
ReplaceDependencies(w, deps) ==
    /\ work[w].phase = "Open"
    /\ ActiveBindings(w) = {}
    /\ \A p \in deps : work[p].phase # "None"
    /\ Acyclic(w, deps)
    /\ Advance(w, [Successor(w, FALSE, FALSE) EXCEPT !.prereqs = deps])
    /\ UNCHANGED <<bindings, member, runtime, results>>

\* assign_work_membership, by the Host, in every phase but the last; an
\* active binding of the former owner stays as it is.
AssignWork(w, m) ==
    /\ Mutable(w) /\ work[w].owner # m
    /\ Reassignable(w)
    /\ Advance(w, [Successor(w, TRUE, TRUE) EXCEPT !.owner = m])
    /\ UNCHANGED <<bindings, member, runtime, results>>

\* claim_work, by a member that takes a ready Work nobody owns
ClaimWork(w, m) ==
    /\ Ready(w) /\ ~Owned(w) /\ Live(m)
    /\ Advance(w, [Successor(w, TRUE, FALSE) EXCEPT !.owner = m])
    /\ UNCHANGED <<bindings, member, runtime, results>>

\* release_work_with_authority: by the Host, which needs no binding (and so
\* covers the member, whose release asks for more).
ReleaseWork(w) ==
    /\ Normal(w, "Open") /\ Owned(w)
    /\ Reassignable(w)
    /\ Advance(w, [Successor(w, TRUE, FALSE) EXCEPT !.owner = NoOwner])
    /\ UNCHANGED <<bindings, member, runtime, results>>

\* start_work: the member has no other Work going.
StartWork(w) ==
    /\ Ready(w) /\ HoldsResponsibility(w)
    /\ ~\E x \in Work : Normal(x, "Active") /\ work[x].owner = work[w].owner
    /\ Advance(w, [Successor(w, FALSE, FALSE) EXCEPT !.phase = "Active"])
    /\ UNCHANGED <<bindings, member, runtime, results>>

\* block_work and resume_work: by the Host, which asks only for an owner
\* (and so covers the member that holds the responsibility).
BlockWork(w) ==
    /\ Normal(w, "Active") /\ Owned(w)
    /\ Advance(w, [Successor(w, FALSE, FALSE) EXCEPT !.blocked = TRUE])
    /\ UNCHANGED <<bindings, member, runtime, results>>

ResumeWork(w) ==
    /\ work[w].phase = "Active" /\ work[w].blocked /\ Owned(w)
    /\ Advance(w, [Successor(w, FALSE, FALSE) EXCEPT !.blocked = FALSE])
    /\ UNCHANGED <<bindings, member, runtime, results>>

\* The predecessor generation was closed and reopened as today's
\* (member_run_has_exact_close_reopen_lineage_unlocked).
Predecessor(m, generation) == member[m].generation = generation + 1

\* The bindings a Result may rest on: the active one, of this MemberRun
\* generation or its predecessor, or else the released ones that the latest
\* Close, applied, of the predecessor generation released.
ResultBindings(w) ==
    LET m == work[w].owner IN
    IF ActiveBindings(w) # {}
    THEN {i \in ActiveBindings(w) :
            \/ bindings[w][i].generation = member[m].generation
            \/ Predecessor(m, bindings[w][i].generation)}
    ELSE {i \in DOMAIN bindings[w] :
            /\ bindings[w][i].status = "Closed"
            /\ bindings[w][i].member = m
            /\ bindings[w][i].close = member[m].close /\ ~PendingClose(m)
            /\ Predecessor(m, bindings[w][i].generation)}

\* Mutant of MayCarryResult: the receipt is enough, whoever it was for.
MayCarryAnyResult(w, i) == bindings[w][i].delivery = "ProviderReceived"

\* What a Result needs of the binding that it is to rest on.
MayCarryResult(w, i) ==
    /\ bindings[w][i].member = work[w].owner
    /\ ~ResponsibilityChanged(w, i)
    /\ bindings[w][i].delivery = "ProviderReceived"

\* Mutant of SubmitResult: leaves the binding of the Result active.
SubmitResultKeepingBinding(w) ==
    /\ Normal(w, "Active") /\ Live(work[w].owner)
    /\ \E i \in DOMAIN bindings[w] :
         /\ ResultBindings(w) = {i} /\ MayCarryResult(w, i)
         /\ results' = [results EXCEPT ![w] = @ \cup
              {[revision |-> work[w].version + 1, author |-> work[w].owner, binding |-> i]}]
    /\ Advance(w, [Successor(w, FALSE, FALSE) EXCEPT !.phase = "Review"])
    /\ UNCHANGED <<bindings, member, runtime>>

\* create_trust_work_report of a Result: the report, the submission of the
\* Work and the release of the binding commit together.
SubmitResult(w) ==
    /\ Normal(w, "Active") /\ Live(work[w].owner)
    /\ \E i \in DOMAIN bindings[w] :
         /\ ResultBindings(w) = {i} /\ MayCarryResult(w, i)
         /\ results' = [results EXCEPT ![w] = @ \cup
              {[revision |-> work[w].version + 1, author |-> work[w].owner, binding |-> i]}]
         /\ Rebind(w, i, IF bindings[w][i].status = "Active"
                         THEN [bindings[w][i] EXCEPT !.status = "Released"]
                         ELSE bindings[w][i])
    /\ Advance(w, [Successor(w, FALSE, FALSE) EXCEPT !.phase = "Review"])
    /\ UNCHANGED <<member, runtime>>

\* request_work_changes_by_reviewer: the Host, or a peer that may review
RequestChanges(w) ==
    /\ Normal(w, "Review")
    /\ Advance(w, [Successor(w, FALSE, TRUE) EXCEPT !.phase = "Open"])
    /\ UNCHANGED <<bindings, member, runtime, results>>

\* current_result_report_unlocked: since its submission the Work moved by
\* refreshes of its links alone.
CurrentResults(w) ==
    {r \in results[w] : r.revision = work[w].moved /\ r.author = work[w].owner}

\* The acceptance, by one that does not own the Work.
AcceptWork(w) ==
    /\ Normal(w, "Review")
    /\ Cardinality(CurrentResults(w)) = 1
    /\ Advance(w, [Successor(w, FALSE, FALSE) EXCEPT
                     !.phase = "Closed", !.resolution = "Accepted"])
    /\ UNCHANGED <<bindings, member, runtime, results>>

\* Mutant of CancelWork: does not ask for an unsettled claim.
CancelWorkAnytime(w) ==
    /\ Mutable(w)
    /\ Advance(w, [Successor(w, FALSE, FALSE) EXCEPT
                     !.phase = "Closed", !.blocked = FALSE, !.resolution = "Cancelled"])
    /\ UNCHANGED <<bindings, member, runtime, results>>

\* cancel_work, by the Host; bindings and deliveries stay as they are.
CancelWork(w) ==
    /\ Mutable(w)
    /\ ~CurrentDelivery(w, {"Claimed"})
    /\ Advance(w, [Successor(w, FALSE, FALSE) EXCEPT
                     !.phase = "Closed", !.blocked = FALSE, !.resolution = "Cancelled"])
    /\ UNCHANGED <<bindings, member, runtime, results>>

\* The GitHub poll refreshes the links: one more revision, in any phase.
RefreshLinks(w) ==
    /\ w \in Linked /\ Mutable(w) /\ runtime.daemon = "Active"
    /\ Advance(w, [work[w] EXCEPT !.version = @ + 1])
    /\ UNCHANGED <<bindings, member, runtime, results>>

\* redeliver_work_to_current_session, by the Host
RedeliverWork(w) ==
    /\ work[w].phase = "Open" /\ Owned(w)
    /\ ActiveBindings(w) = {}
    /\ CurrentDelivery(w, {"Queued", "Claimed", "ProviderReceived"})
    /\ Advance(w, Successor(w, TRUE, TRUE))
    /\ UNCHANGED <<bindings, member, runtime, results>>

\* The active binding belongs to a MemberRun generation that is no more, or
\* the Work was started and its latest binding ended that way
\* (classify_work_execution_loss).
LostExecution(w) ==
    \/ \E i \in ActiveBindings(w) :
         LET b == bindings[w][i] IN
         b.generation # member[b.member].generation \/ ~Live(b.member)
    \/ /\ work[w].phase = "Active" /\ bindings[w] # <<>>
       /\ bindings[w][Len(bindings[w])].status = "Lost"

Recoverable(w) ==
    /\ Normal(w, "Open") \/ Normal(w, "Active")
    /\ Owned(w) /\ LostExecution(w)

\* release_lost_execution_binding_unlocked
LoseBinding(w) ==
    bindings' = [bindings EXCEPT ![w] =
      [i \in DOMAIN @ |-> IF i \in ActiveBindings(w) THEN LostBinding(@[i]) ELSE @[i]]]

\* recover_lost_work_execution, by the Host: the binding is released, then the
\* Work is opened again.
RecoverLostExecution(w) ==
    /\ Recoverable(w)
    /\ LoseBinding(w)
    /\ Advance(w, [Successor(w, TRUE, TRUE) EXCEPT !.phase = "Open"])
    /\ UNCHANGED <<member, runtime, results>>

\* The same, with a crash between the two appends.
RecoveryCrashes(w) ==
    /\ Recoverable(w) /\ ActiveBindings(w) # {}
    /\ LoseBinding(w)
    /\ UNCHANGED <<work, member, runtime, results>>

-----------------------------------------------------------------------------
(* The execution plane: the dispatch pass of a member's runner.            *)

\* provider_received_work_requires_host_reauthorization, of the revisions
\* that a provider received the latest
NeedsReauthorization(w) ==
    \E i \in DOMAIN bindings[w] :
        /\ bindings[w][i].delivery = "ProviderReceived"
        /\ work[w].reauthorized <= bindings[w][i].revision

\* Mutant of BindExecution: does not ask for an active binding.
BindBesideActive(w) ==
    LET m == work[w].owner IN
    /\ Ready(w) /\ Live(m) /\ runtime.daemon = "Active"
    /\ Len(bindings[w]) < MaxBinding
    /\ ~NeedsReauthorization(w)
    /\ bindings' = [bindings EXCEPT ![w] = Append(@,
         [revision |-> work[w].version, reauthorized |-> work[w].reauthorized,
          member |-> m, generation |-> member[m].generation, driver |-> runtime.driver,
          close |-> 0, status |-> "Active", delivery |-> "Queued"])]
    /\ UNCHANGED <<work, member, runtime, results>>

\* bind_responsible_work_execution, with its Queued WorkDelivery
BindExecution(w) ==
    LET m == work[w].owner IN
    /\ Ready(w) /\ Live(m) /\ runtime.daemon = "Active"
    /\ ActiveBindings(w) = {} /\ Len(bindings[w]) < MaxBinding
    /\ ~NeedsReauthorization(w)
    /\ bindings' = [bindings EXCEPT ![w] = Append(@,
         [revision |-> work[w].version, reauthorized |-> work[w].reauthorized,
          member |-> m, generation |-> member[m].generation, driver |-> runtime.driver,
          close |-> 0, status |-> "Active", delivery |-> "Queued"])]
    /\ UNCHANGED <<work, member, runtime, results>>

\* claim_work_for_provider: readiness is asked again, at this revision.
ClaimDelivery(w) ==
    /\ Ready(w) /\ runtime.daemon = "Active"
    /\ \E i \in ActiveBindings(w) :
         /\ bindings[w][i].delivery = "Queued"
         /\ bindings[w][i].revision = work[w].version
         /\ RuntimeIsLive(w, i)
         /\ Rebind(w, i, [bindings[w][i] EXCEPT !.delivery = "Claimed"])
    /\ UNCHANGED <<work, member, runtime, results>>

\* record_work_provider_receipt: only the claim and its daemon are asked for.
ReceiveDelivery(w) ==
    /\ runtime.daemon \in {"Active", "Draining"}
    /\ \E i \in DOMAIN bindings[w] :
         /\ bindings[w][i].delivery = "Claimed"
         /\ Rebind(w, i, [bindings[w][i] EXCEPT !.delivery = "ProviderReceived"])
    /\ UNCHANGED <<work, member, runtime, results>>

\* record_work_provider_failure: the provider refuses, its transport is lost,
\* or a Close fails what it did not receive.  The binding stays active.
FailDelivery(w) ==
    /\ runtime.daemon \in {"Active", "Draining"}
    /\ \E i \in DOMAIN bindings[w] :
         /\ bindings[w][i].delivery = "Claimed"
         /\ Rebind(w, i, [bindings[w][i] EXCEPT !.delivery = "Failed"])
    /\ UNCHANGED <<work, member, runtime, results>>

\* Mutant of MayEnd: an unsettled claim does not hold its binding.
MayEndUnlessReceived(b) == b.delivery # "ProviderReceived"

\* release_work_execution_binding_unlocked refuses an unsettled claim and
\* what a provider received.
MayEnd(b) == b.delivery \notin {"Claimed", "ProviderReceived"}

\* release_work_execution_binding_if_stale, on every pass
ReleaseStale(w) ==
    /\ runtime.daemon = "Active"
    /\ \E i \in ActiveBindings(w) :
         /\ ~IsCurrent(w, i) /\ MayEnd(bindings[w][i])
         /\ Rebind(w, i, Ended(bindings[w][i], "Released", 0))
    /\ UNCHANGED <<work, member, runtime, results>>

\* release_work_execution_binding, by the member of its exact generation
ReleaseOwnBinding(w) ==
    /\ \E i \in ActiveBindings(w) :
         LET b == bindings[w][i] IN
         /\ b.generation = member[b.member].generation /\ MayEnd(b)
         /\ Rebind(w, i, Ended(b, "Released", 0))
    /\ UNCHANGED <<work, member, runtime, results>>

-----------------------------------------------------------------------------
(* Generations of a MemberRun.                                             *)

\* The Close is latched; a request that is still pending is kept.
LatchClose(m) ==
    /\ Live(m) /\ ~PendingClose(m) /\ runtime.daemon = "Active"
    /\ member[m].generation < MaxGeneration[m]
    /\ member' = [member EXCEPT ![m].close = member[m].generation, ![m].applied = FALSE]
    /\ UNCHANGED <<work, bindings, runtime, results>>

\* release_work_execution_binding_for_member_close: one call per binding;
\* what the provider received stays on record.
ReleaseForClose(w) ==
    /\ runtime.daemon = "Active"
    /\ \E i \in ActiveBindings(w) :
         LET b == bindings[w][i] IN
         /\ Live(b.member) /\ PendingClose(b.member)
         /\ b.generation = member[b.member].generation
         /\ b.delivery # "Claimed"
         /\ Rebind(w, i, Ended(b, "Closed", member[b.member].close))
    /\ UNCHANGED <<work, member, runtime, results>>

\* The MemberRun is Closed and Stopped once no active binding is its own.
StopForClose(m) ==
    /\ Live(m) /\ PendingClose(m) /\ runtime.daemon = "Active"
    /\ \A w \in Work : \A i \in ActiveBindings(w) : bindings[w][i].member # m
    /\ member' = [member EXCEPT ![m].state = "Closed"]
    /\ UNCHANGED <<work, bindings, runtime, results>>

\* complete_team_member_close, after it
CompleteClose(m) ==
    /\ member[m].state = "Closed" /\ PendingClose(m)
    /\ member' = [member EXCEPT ![m].applied = TRUE]
    /\ UNCHANGED <<work, bindings, runtime, results>>

\* The runtime ends without a Close: Failed or Stopped, coordination still Active.
RuntimeEnds(m) ==
    /\ m \in Unreliable /\ Live(m)
    /\ member' = [member EXCEPT ![m].state = "Down"]
    /\ UNCHANGED <<work, bindings, runtime, results>>

\* It resumes its native session, in the same generation.
RuntimeResumes(m) ==
    /\ member[m].state = "Down" /\ runtime.daemon = "Active"
    /\ member' = [member EXCEPT ![m].state = "Live"]
    /\ UNCHANGED <<work, bindings, runtime, results>>

\* Close of a MemberRun whose runtime has ended: no binding is released.
CloseEnded(m) ==
    /\ member[m].state = "Down" /\ member[m].generation < MaxGeneration[m]
    /\ member' = [member EXCEPT ![m].state = "Closed", ![m].applied = TRUE]
    /\ UNCHANGED <<work, bindings, runtime, results>>

\* compare_and_reopen_member_run_generation: the next generation; a Close
\* that is still pending is not asked for.
ReopenMember(m) ==
    /\ member[m].state = "Closed" /\ member[m].generation < MaxGeneration[m]
    /\ member' = [member EXCEPT ![m].generation = @ + 1, ![m].state = "Live"]
    /\ UNCHANGED <<work, bindings, runtime, results>>

-----------------------------------------------------------------------------
(* Generations of the NodeDaemon and attachments of the sessions.          *)

BeginDrain ==
    /\ runtime.daemon = "Active" /\ runtime.driver < MaxDriver
    /\ runtime' = [runtime EXCEPT !.daemon = "Draining"]
    /\ UNCHANGED <<work, bindings, member, results>>

\* What the lost generation had claimed or received is superseded, what was
\* only Queued stays (supersede_lost_generation_work_execution_unlocked).
Superseded(w) ==
    [i \in DOMAIN bindings[w] |->
        IF /\ i \in ActiveBindings(w)
           /\ bindings[w][i].delivery \in {"Claimed", "ProviderReceived"}
        THEN LostBinding(bindings[w][i]) ELSE bindings[w][i]]

\* The daemon's own settlement, or its successor's recovery of a dead one, in
\* one Store call (invalidate_lost_generation_work_bindings_unlocked).
SettleGeneration ==
    /\ runtime.daemon \in {"Active", "Draining"} /\ runtime.driver < MaxDriver
    /\ runtime' = [runtime EXCEPT !.daemon = "Gone"]
    /\ bindings' = [w \in Work |-> Superseded(w)]
    /\ UNCHANGED <<work, member, results>>

\* The same, with a crash after the binding of w was committed: the generation
\* begins nothing more and is settled again.
SettlementCrashes(w) ==
    /\ runtime.daemon \in {"Active", "Draining"} /\ runtime.driver < MaxDriver
    /\ runtime' = [runtime EXCEPT !.daemon = "Draining"]
    /\ bindings' = [bindings EXCEPT ![w] = Superseded(w)]
    /\ UNCHANGED <<work, member, results>>

\* reattach_agent_session_to_node_daemon: under a successor, or by a
\* restarted supervisor of the same daemon.
Reattach ==
    /\ runtime.daemon \in {"Active", "Gone"} /\ runtime.driver < MaxDriver
    /\ runtime' = [driver |-> runtime.driver + 1, daemon |-> "Active"]
    /\ UNCHANGED <<work, bindings, member, results>>

-----------------------------------------------------------------------------
Next ==
    \/ \E w \in Work, deps \in SUBSET Work :
         InsertWork(w, deps) \/ ReplaceDependencies(w, deps)
    \/ \E w \in Work, m \in Member : AssignWork(w, m) \/ ClaimWork(w, m)
    \/ \E w \in Work :
         \/ ReleaseWork(w) \/ StartWork(w) \/ BlockWork(w) \/ ResumeWork(w)
         \/ SubmitResult(w) \/ RequestChanges(w) \/ AcceptWork(w) \/ CancelWork(w)
         \/ RefreshLinks(w) \/ RedeliverWork(w) \/ RecoverLostExecution(w)
         \/ BindExecution(w) \/ ClaimDelivery(w) \/ ReceiveDelivery(w)
         \/ FailDelivery(w) \/ ReleaseStale(w) \/ ReleaseOwnBinding(w)
         \/ ReleaseForClose(w) \/ RecoveryCrashes(w) \/ SettlementCrashes(w)
    \/ \E m \in Member :
         \/ LatchClose(m) \/ StopForClose(m) \/ CompleteClose(m)
         \/ RuntimeEnds(m) \/ RuntimeResumes(m) \/ CloseEnded(m) \/ ReopenMember(m)
    \/ BeginDrain \/ SettleGeneration \/ Reattach

Spec == Init /\ [][Next]_vars

-----------------------------------------------------------------------------
(* Properties.                                                             *)

Effect == {"Claimed", "ProviderReceived"}

\* What a provider received is not handed to a provider again unless the
\* Host (or a reviewer) re-authorized the Work after the revision that was
\* received.  bind_responsible_work_execution checks the deliveries received
\* so far; that no earlier claim is received after a later binding is left
\* to the releases, the Close, the recovery and the settlement, each of which
\* ends a binding in its own way while its receipt may still be under way.
NoReplayWithoutReauthorization ==
    \A w \in Work : \A i, j \in DOMAIN bindings[w] :
        (i < j /\ bindings[w][i].delivery = "ProviderReceived")
            => bindings[w][j].reauthorized > bindings[w][i].revision

\* A provider is working on the Work, or its Result is under review.
Executing(w) ==
    \/ work[w].phase \in {"Active", "Review"}
    \/ /\ work[w].phase = "Open"
       /\ \E i \in ActiveBindings(w) : bindings[w][i].delivery \in Effect

\* A Work that a provider is working on, or whose Result is under review, has
\* all its prerequisites accepted, whatever the Host did to the dependencies
\* after the dispatch (WORK_EXECUTION_BINDING_ACTIVE, WORK_DEPENDENCIES_IMMUTABLE).
ExecutionHasPrerequisites ==
    \A w \in Work : Executing(w) => \A p \in work[w].prereqs : Accepted(p)

\* No Work waits for itself through the dependencies of others, in whichever
\* order Works are inserted and dependencies replaced (prepare_dependency_change):
\* each non-empty set of Works has one that waits for none of them.
DependenciesAreAcyclic ==
    \A S \in (SUBSET Work) \ {{}} : \E w \in S : work[w].prereqs \cap S = {}

\* The delivery that a Result rests on stays received by the Result's author
\* in all that follows: a later drain, crash, recovery or reassignment never
\* turns the evidence of a submitted Result into a lost execution
\* (result_submission_released_binding_unlocked).
ResultKeepsItsReceipt ==
    \A w \in Work : \A r \in results[w] :
        LET b == bindings[w][r.binding] IN
        /\ b.delivery = "ProviderReceived" /\ b.status \in {"Released", "Closed"}
        /\ b.member = r.author /\ b.revision < r.revision

\* An accepted Work was accepted on a Result of its owner that is later than
\* every re-authorization (a reassignment, a request for changes, a recovery)
\* and rests on a binding made after the owner became responsible
\* (current_result_report_unlocked).
AcceptedOnItsOwnersResult ==
    \A w \in Work : Accepted(w) =>
        \E r \in results[w] :
            /\ r.author = work[w].owner
            /\ r.revision > work[w].reauthorized
            /\ bindings[w][r.binding].revision >= work[w].responsibility

\* While a claim on the Work's current revision is not settled nothing moves
\* the Work but a refresh of its links, unless the step settles the claim as
\* well: not an assignment, release, cancellation, start, redelivery or change
\* of dependencies, each of which refuses for a reason of its own
\* (RECONCILIATION_REQUIRED, WORK_EXECUTION_BINDING_ACTIVE, WORK_DELIVERY_LIVE).
UnsettledClaimHoldsTheWork ==
    [][\A w \in Work : \A i \in DOMAIN bindings[w] :
         (/\ bindings[w][i].delivery = "Claimed"
          /\ bindings[w][i].revision = work[w].version
          /\ work'[w].moved # work[w].moved)
             => bindings'[w][i].delivery # "Claimed"]_vars

\* What operations.md says of a started Work whose binding a Member Close
\* released: it "keeps its reopened-Result path".  Once the member is back
\* and no Close is pending, its Result has a binding to rest on.
ClosedWorkKeepsItsResultPath ==
    \A w \in Work : \A i \in DOMAIN bindings[w] :
        (/\ Normal(w, "Active") /\ i = Len(bindings[w])
         /\ bindings[w][i].status = "Closed" /\ MayCarryResult(w, i)
         /\ Live(work[w].owner) /\ ~PendingClose(work[w].owner))
            => ResultBindings(w) # {}

-----------------------------------------------------------------------------
(* What the properties rest on: together, an inductive invariant.          *)

\* A binding froze a revision the Work had; while the Work still has it, the
\* Work is as the binding found it.
BindingIsBehind ==
    \A w \in Work : \A i \in DOMAIN bindings[w] :
        /\ bindings[w][i].revision <= work[w].version
        /\ bindings[w][i].revision = work[w].version =>
             Normal(w, "Open") /\ work[w].owner = bindings[w][i].member

\* An unsettled claim keeps its binding, whoever wants to end it.
ClaimedIsActive ==
    \A w \in Work : \A i \in DOMAIN bindings[w] :
        bindings[w][i].delivery = "Claimed" => bindings[w][i].status = "Active"

\* A Work is bound after its insertion and accepted at its end.
PhaseFits ==
    \A w \in Work :
        /\ work[w].phase = "None" => DOMAIN bindings[w] = {}
        /\ Accepted(w) => work[w].phase = "Closed"

\* A Result rests on a binding of its Work and is no later than the last move.
\* While nothing moved since, it is newer than every re-authorization and its
\* binding no older than the owner's responsibility.
ResultsAreBehind ==
    \A w \in Work : \A r \in results[w] :
        /\ r.binding \in DOMAIN bindings[w]
        /\ r.revision <= work[w].moved
        /\ r.revision = work[w].moved =>
             /\ work[w].reauthorized < r.revision
             /\ work[w].responsibility <= bindings[w][r.binding].revision

IndInv ==
    /\ TypeOK
    /\ BindingIsBehind
    /\ ClaimedIsActive
    /\ PhaseFits
    /\ ResultsAreBehind
    /\ NoReplayWithoutReauthorization
    /\ ExecutionHasPrerequisites
    /\ DependenciesAreAcyclic
    /\ ResultKeepsItsReceipt
    /\ AcceptedOnItsOwnersResult

=============================================================================
