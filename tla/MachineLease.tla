---------------------------- MODULE MachineLease ----------------------------
(***************************************************************************)
(* The machine lease file of one node and its companion history file       *)
(* (ADR 0075): who may own the machine, written by concurrent daemon       *)
(* processes that crash at any point, on a disk that may lose power.       *)
(*                                                                         *)
(* A verb is one critical section of the lease flock with three effects a  *)
(* crash can fall between: the rename that makes the document current, the *)
(* directory fsync that makes it durable, the history append.  Readers     *)
(* take no lock.  A lock timeout, a refused verb and a crash before the    *)
(* rename change nothing and are stuttering steps.                         *)
(***************************************************************************)
EXTENDS LeaseRules, Sequences

CONSTANTS
    MaxTime,             \* bound on the wall clock
    DirSyncReliable      \* does the best-effort directory fsync succeed?

ASSUME MachineLeaseAssumption ==
    /\ MaxTime \in Nat
    /\ DirSyncReliable \in BOOLEAN

VARIABLES
    doc,        \* node-daemon-lease.json as every reader sees it
    disk,       \* the document a reboot would find
    history,    \* node-daemon-lease-history.jsonl: (generation, status) rows
    writer,     \* the holder of the lease flock, and how far its write is
    proc,       \* the daemon processes
    seen,       \* the (generation, owner) each process last learned of
    now,        \* the wall clock
    granted     \* history variable: acquisitions a caller was told about

vars == <<doc, disk, history, writer, proc, seen, now, granted>>

Row    == [gen : Nat, status : Status]
Key    == [gen : Nat, owner : Instance \cup {Nobody}]
Grant  == [gen : Nat, owner : Instance]
Idle   == [pid |-> Nobody, stage |-> "idle", settled |-> FALSE]
Writer == [pid : Instance \cup {Nobody},
           stage : {"idle", "renamed", "synced"}, settled : BOOLEAN]

KeyOf(lease) == [gen |-> lease.gen, owner |-> lease.owner]
RowOf(lease) == [gen |-> lease.gen, status |-> lease.status]

\* State types of every variable.
TypeOK ==
    /\ doc \in Lease
    /\ disk \in Lease
    /\ history \in Seq(Row)
    /\ writer \in Writer
    /\ proc \in [Instance -> {"unborn", "up", "down"}]
    /\ seen \in [Instance -> Key]
    /\ now \in Nat
    /\ granted \in SUBSET Grant

Init ==
    /\ doc = NoLease
    /\ disk = NoLease
    /\ history = <<>>
    /\ writer = Idle
    /\ proc = [p \in Instance |-> "unborn"]
    /\ seen = [p \in Instance |-> KeyOf(NoLease)]
    /\ now = 0
    /\ granted = {}

-----------------------------------------------------------------------------
(* Environment: processes, the clock, lock-free readers.                   *)

Start(p) ==
    /\ proc[p] = "unborn"
    /\ proc' = [proc EXCEPT ![p] = "up"]
    /\ UNCHANGED <<doc, disk, history, writer, seen, now, granted>>

\* The kernel drops the flock of a process that dies inside a write.
Crash(p) ==
    /\ proc[p] = "up"
    /\ proc' = [proc EXCEPT ![p] = "down"]
    /\ writer' = IF writer.pid = p THEN Idle ELSE writer
    /\ UNCHANGED <<doc, disk, history, seen, now, granted>>

\* Power loss ends every process and leaves the last durable directory entry.
PowerLoss ==
    /\ \E p \in Instance : proc[p] = "up"
    /\ proc' = [p \in Instance |-> IF proc[p] = "up" THEN "down" ELSE proc[p]]
    /\ doc' = disk
    /\ writer' = Idle
    /\ UNCHANGED <<disk, history, seen, now, granted>>

Tick ==
    /\ now < MaxTime
    /\ now' = now + 1
    /\ UNCHANGED <<doc, disk, history, writer, proc, seen, granted>>

\* The wall clock is stepped back.
StepBack ==
    /\ now > 0
    /\ now' = now - 1
    /\ UNCHANGED <<doc, disk, history, writer, proc, seen, granted>>

\* current_machine_lease: a lock-free read, in the middle of a write or not.
Observe(p) ==
    /\ proc[p] = "up"
    /\ seen' = [seen EXCEPT ![p] = KeyOf(doc)]
    /\ UNCHANGED <<doc, disk, history, writer, proc, now, granted>>

-----------------------------------------------------------------------------
(* The verbs, up to the rename.                                            *)

\* write_machine_lease / publish_lease_document: the flock is free, the
\* document is read and the clock sampled under it, the next document passes
\* require_forward_only and replaces the current one.
Publish(p, next, settled) ==
    /\ proc[p] = "up"
    /\ writer = Idle
    /\ ForwardOnly(doc, next)
    /\ doc' = next
    /\ writer' = [pid |-> p, stage |-> "renamed", settled |-> settled]
    /\ UNCHANGED <<disk, history, proc, seen, now, granted>>

Acquire(p) ==
    \/ MayAcquire(doc) /\ Publish(p, Acquired(doc, p, now), FALSE)
    \/ AlreadyHeld(doc, p, now) /\ Publish(p, doc, TRUE)

Renew(p) ==
    /\ Exact(doc, seen[p].gen, seen[p].owner)
    /\ doc.owner = p
    /\ MayRenew(doc, now)
    /\ Publish(p, Renewed(doc, now), FALSE)

Drain(p) ==
    /\ Exact(doc, seen[p].gen, seen[p].owner)
    /\ doc.owner = p
    /\ \/ doc.status = "Draining" /\ Publish(p, doc, TRUE)
       \/ MayDrain(doc) /\ Publish(p, Drained(doc, now), FALSE)

\* Called by the owner at the end of a shutdown, and by a successor that
\* recovered the generation it had read.
Release(p) ==
    /\ Exact(doc, seen[p].gen, seen[p].owner)
    /\ \/ doc.status = "Released" /\ Publish(p, doc, TRUE)
       \/ doc.status # "Released" /\ Publish(p, Released(doc, now), FALSE)

-----------------------------------------------------------------------------
(* The rest of the critical section.                                       *)

\* Mutant of SyncDirectory: the write returns without it.
SkipSync(p) ==
    /\ writer.pid = p
    /\ writer.stage = "renamed"
    /\ writer' = [writer EXCEPT !.stage = "synced"]
    /\ UNCHANGED <<doc, disk, history, proc, seen, now, granted>>

\* The directory fsync of atomic_replace, whose failure is not reported.
SyncDirectory(p) ==
    /\ writer.pid = p
    /\ writer.stage = "renamed"
    /\ disk' \in {doc} \cup (IF DirSyncReliable THEN {} ELSE {disk})
    /\ writer' = [writer EXCEPT !.stage = "synced"]
    /\ UNCHANGED <<doc, history, proc, seen, now, granted>>

\* Mutant of IsTransition: every write is recorded.
EveryWrite == Len(history) < 4

\* read_lease_history_tail: a renewal keeps the generation and the status.
IsTransition ==
    history # <<>> => history[Len(history)] # RowOf(doc)

\* What the caller learns when its verb returns Ok.
Return(p) ==
    /\ writer' = Idle
    /\ seen' = [seen EXCEPT ![p] = KeyOf(doc)]
    /\ granted' = IF doc.owner = p /\ doc.status = "Active"
                    THEN granted \cup {KeyOf(doc)} ELSE granted

\* The append of write_machine_lease; an idempotent verb appends nothing.
RecordHistory(p) ==
    /\ writer.pid = p
    /\ writer.stage = "synced"
    /\ history' = IF ~writer.settled /\ IsTransition
                    THEN Append(history, RowOf(doc)) ELSE history
    /\ Return(p)
    /\ UNCHANGED <<doc, disk, proc, now>>

\* The append fails: the verb returns an error although its document landed.
RecordHistoryFails(p) ==
    /\ writer.pid = p
    /\ writer.stage = "synced"
    /\ ~writer.settled /\ IsTransition
    /\ writer' = Idle
    /\ UNCHANGED <<doc, disk, history, proc, seen, now, granted>>

Next ==
    \/ \E p \in Instance :
         \/ Start(p) \/ Crash(p) \/ Observe(p)
         \/ Acquire(p) \/ Renew(p) \/ Drain(p) \/ Release(p)
         \/ SyncDirectory(p) \/ RecordHistory(p) \/ RecordHistoryFails(p)
    \/ Tick
    \/ StepBack
    \/ PowerLoss

Spec == Init /\ [][Next]_vars

-----------------------------------------------------------------------------
(* generation_was_released, the one historical question asked of the       *)
(* lease: the current document if it is of that generation, else the last  *)
(* history row that is.                                                    *)

RowsOf(g) == {k \in DOMAIN history : history[k].gen = g}

WasReleased(g) ==
    IF doc.status # "Absent" /\ doc.gen = g
      THEN doc.status = "Released"
      ELSE \E k \in RowsOf(g) :
             /\ \A j \in RowsOf(g) : j <= k
             /\ history[k].status = "Released"

-----------------------------------------------------------------------------
(* Properties.                                                             *)

\* No generation is ever handed to two daemon instances: a number that one
\* instance was told it drives under is not reissued after crashes, power
\* loss, a stepped-back clock or stale callers (acquire_machine_lease,
\* require_forward_only, atomic_replace).
OneOwnerPerGeneration ==
    \A a, b \in granted : a.gen = b.gen => a = b

\* What a caller was told survives: the document a reboot would find is still
\* of that grant, or of a later generation, at every point of every later
\* write (atomic_replace: fsync, rename, directory fsync, then return).
GrantsAreDurable ==
    \A a \in granted : a.gen < disk.gen \/ a = KeyOf(disk)

\* A Released row is final: what the history calls released can never be on
\* disk as owned, so reattach cannot trust a row whose generation is driven
\* (append_lease_history: "the history can never describe a transition that
\* did not land").
ReleasedRowIsFinal ==
    \A k \in DOMAIN history :
        history[k].status = "Released" =>
            \/ history[k].gen < doc.gen
            \/ history[k].gen = doc.gen /\ doc.status = "Released"

StatusRank(s) == CASE s = "Absent" -> 0 [] s = "Active" -> 1
                   [] s = "Draining" -> 2 [] s = "Released" -> 3

RowBefore(r, s) ==
    r.gen < s.gen \/ (r.gen = s.gen /\ StatusRank(r.status) < StatusRank(s.status))

RowAtMost(r, s) == r = s \/ RowBefore(r, s)

\* The history is one strictly advancing line: each generation appears in
\* order, with each status at most once, so a retried or replayed verb cannot
\* inflate it or write it backwards (write_machine_lease).
HistoryAdvances ==
    \A j, k \in DOMAIN history : j < k => RowBefore(history[j], history[k])

\* What the lease protects for its holder: short of a power loss the document
\* only moves forward - to the next generation, and only from Released; or to
\* a later status; or to a later expiry - whatever the clock does.
DocumentMovesForward ==
    [][\/ PowerLoss
       \/ doc' = doc
       \/ doc.status \in {"Absent", "Released"} /\ doc'.gen = doc.gen + 1
       \/ /\ doc'.gen = doc.gen /\ doc'.owner = doc.owner
          /\ \/ StatusRank(doc.status) < StatusRank(doc'.status)
             \/ doc'.status = doc.status /\ doc.expires <= doc'.expires]_vars

\* Short of a power loss, the drain receipt of a generation, once readable,
\* stays readable: a session whose predecessor released may be reattached later
\* (node_lease_history.rs header; machine_generation_was_released).
ReleaseProofSurvives ==
    [][\/ PowerLoss
       \/ \A g \in 1..GenerationCeiling : WasReleased(g) => WasReleased(g)']_vars

-----------------------------------------------------------------------------
(* The strengthening that makes the safety invariants inductive when the   *)
(* directory fsync succeeds.                                               *)

WriterShape == writer = Idle \/ (writer.pid \in Instance /\ writer.stage # "idle")

\* The durable document is the current one or an earlier one, and it is the
\* current one once the writer is past its directory fsync.
DiskIsBehind ==
    /\ RowAtMost(RowOf(disk), RowOf(doc))
    /\ disk.gen = doc.gen => disk.owner = doc.owner
    /\ writer.stage = "synced" => disk = doc

\* Every history row was durable before it was written.
RowsAreDurable ==
    \A k \in DOMAIN history : RowAtMost(history[k], RowOf(disk))

IndInv ==
    /\ TypeOK
    /\ WriterShape
    /\ DiskIsBehind
    /\ RowsAreDurable
    /\ HistoryAdvances
    /\ GrantsAreDurable
    /\ OneOwnerPerGeneration

=============================================================================
