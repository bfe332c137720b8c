------------------------- MODULE MachineLeaseProofs -------------------------
(***************************************************************************)
(* Proofs about MachineLease, for every set of daemon instances, every     *)
(* clock bound, ttl and generation width.                                  *)
(***************************************************************************)
EXTENDS MachineLease, TLAPS

\* What a verb publishes is a lease document: its fields keep their types.
LEMMA VerbsPublishLeases ==
    ASSUME NEW lease \in Lease, NEW p \in Instance, NEW t \in Nat
    PROVE  /\ Acquired(lease, p, t) \in Lease
           /\ Renewed(lease, t) \in Lease
           /\ Drained(lease, t) \in Lease
           /\ Released(lease, t) \in Lease
<1>1. Expiry(t, LeaseTTL) \in Nat /\ Expiry(t, DrainTTL) \in Nat
  BY LeaseRulesAssumption DEF Expiry, LeaseRulesAssumption
<1>2. Acquired(lease, p, t) \in Lease
  BY <1>1 DEF Lease, Status, Acquired
<1>3. Renewed(lease, t) \in Lease
  BY <1>1 DEF Lease, Renewed
<1>4. Drained(lease, t) \in Lease
  BY <1>1 DEF Lease, Status, Drained
<1>5. Released(lease, t) \in Lease
  BY DEF Lease, Status, Released
<1>6. QED
  BY <1>2, <1>3, <1>4, <1>5

\* The variables of MachineLease keep their types: no verb, crash, clock step
\* or failed append leaves a document or a history row of another shape.
THEOREM TypeCorrect == Spec => []TypeOK
<1>1. Init => TypeOK
  BY LeaseRulesAssumption
  DEF LeaseRulesAssumption, Init, TypeOK, NoLease, Lease, Status, Idle, Writer, KeyOf, Key
<1>2. TypeOK /\ [Next]_vars => TypeOK'
  <2> SUFFICES ASSUME TypeOK, [Next]_vars PROVE TypeOK'
    OBVIOUS
  <2> USE DEF TypeOK
  <2>0. KeyOf(doc) \in Key /\ RowOf(doc) \in Row /\ Idle \in Writer
    BY DEF KeyOf, RowOf, Key, Row, Lease, Idle, Writer
  <2>1. ASSUME NEW p \in Instance, NEW next \in Lease, NEW b \in BOOLEAN,
               Publish(p, next, b)
        PROVE  TypeOK'
    BY <2>1 DEF Publish, Writer
  <2>2. ASSUME NEW p \in Instance, Acquire(p) PROVE TypeOK'
    BY <2>1, <2>2, VerbsPublishLeases DEF Acquire
  <2>3. ASSUME NEW p \in Instance, Renew(p) PROVE TypeOK'
    BY <2>1, <2>3, VerbsPublishLeases DEF Renew
  <2>4. ASSUME NEW p \in Instance, Drain(p) PROVE TypeOK'
    BY <2>1, <2>4, VerbsPublishLeases DEF Drain
  <2>5. ASSUME NEW p \in Instance, Release(p) PROVE TypeOK'
    BY <2>1, <2>5, VerbsPublishLeases DEF Release
  <2>6. ASSUME NEW p \in Instance, Start(p) \/ Crash(p) \/ Observe(p)
        PROVE  TypeOK'
    BY <2>0, <2>6 DEF Start, Crash, Observe
  <2>7. ASSUME NEW p \in Instance, SyncDirectory(p) PROVE TypeOK'
    BY <2>7 DEF SyncDirectory, Writer
  <2>8. ASSUME NEW p \in Instance, RecordHistory(p) PROVE TypeOK'
    <3>1. history' \in Seq(Row)
      BY <2>0, <2>8 DEF RecordHistory
    <3>2. granted' \in SUBSET Grant
      BY <2>0, <2>8 DEF RecordHistory, Return, KeyOf, Grant, Lease
    <3>3. QED
      BY <2>0, <2>8, <3>1, <3>2 DEF RecordHistory, Return
  <2>9. ASSUME NEW p \in Instance, RecordHistoryFails(p) PROVE TypeOK'
    BY <2>0, <2>9 DEF RecordHistoryFails
  <2>10. CASE Tick \/ StepBack \/ PowerLoss
    BY <2>0, <2>10 DEF Tick, StepBack, PowerLoss
  <2>11. CASE UNCHANGED vars
    BY <2>11 DEF vars
  <2>12. QED
    BY <2>2, <2>3, <2>4, <2>5, <2>6, <2>7, <2>8, <2>9, <2>10, <2>11 DEF Next
<1>3. QED
  BY <1>1, <1>2, PTL DEF Spec

-----------------------------------------------------------------------------
(* Rows are ordered by generation, then by status.                         *)

\* A status has a rank between 0 and 3.
LEMMA RankType ==
    ASSUME NEW s \in Status PROVE StatusRank(s) \in 0..3
  BY DEF Status, StatusRank

\* No two statuses share a rank.
LEMMA RankInjective ==
    ASSUME NEW s \in Status, NEW t \in Status, StatusRank(s) = StatusRank(t)
    PROVE  s = t
  BY DEF Status, StatusRank

\* The order of history rows is transitive, also when one side is not strict.
LEMMA RowOrder ==
    ASSUME NEW r \in Row, NEW s \in Row, NEW t \in Row
    PROVE  /\ RowAtMost(r, s) /\ RowAtMost(s, t) => RowAtMost(r, t)
           /\ RowBefore(r, s) /\ RowAtMost(s, t) => RowBefore(r, t)
           /\ RowAtMost(r, s) => r.gen <= s.gen
           /\ RowAtMost(r, s) /\ r.gen = s.gen
                => StatusRank(r.status) <= StatusRank(s.status)
<1>1. /\ StatusRank(r.status) \in 0..3
      /\ StatusRank(s.status) \in 0..3
      /\ StatusRank(t.status) \in 0..3
  BY RankType DEF Row
<1>2. r.gen \in Nat /\ s.gen \in Nat /\ t.gen \in Nat
  BY DEF Row
<1>3. QED
  BY <1>1, <1>2 DEF RowAtMost, RowBefore

\* next may replace cur: a later generation, or the same grant in the same or
\* a later status.
Advances(cur, next) ==
    /\ RowAtMost(RowOf(cur), RowOf(next))
    /\ next.gen = cur.gen => next.owner = cur.owner

\* Every verb only ever publishes a document that advances on the current one.
LEMMA VerbsAdvance ==
    ASSUME NEW lease \in Lease, NEW p \in Instance, NEW t \in Nat
    PROVE  /\ Advances(lease, Acquired(lease, p, t))
           /\ Advances(lease, lease)
           /\ Advances(lease, Renewed(lease, t))
           /\ MayDrain(lease) => Advances(lease, Drained(lease, t))
           /\ lease.status # "Released" => Advances(lease, Released(lease, t))
<1> USE DEF Advances, RowOf, RowAtMost, RowBefore
<1>1. lease.gen \in Nat /\ lease.status \in Status
  BY DEF Lease
<1>2. Advances(lease, Acquired(lease, p, t))
  BY <1>1 DEF Acquired
<1>3. Advances(lease, lease)
  OBVIOUS
<1>4. Advances(lease, Renewed(lease, t))
  BY DEF Renewed, Lease
<1>5. MayDrain(lease) => Advances(lease, Drained(lease, t))
  BY <1>1 DEF MayDrain, Drained, StatusRank, Lease
<1>6. lease.status # "Released" => Advances(lease, Released(lease, t))
  <2>1. ASSUME lease.status # "Released"
        PROVE  StatusRank(lease.status) < StatusRank("Released")
    BY <1>1, <2>1 DEF StatusRank, Status
  <2>2. /\ Released(lease, t).status = "Released"
        /\ Released(lease, t).gen = lease.gen
        /\ Released(lease, t).owner = lease.owner
    BY DEF Released, Lease
  <2>3. QED
    BY <2>1, <2>2
<1>7. QED
  BY <1>2, <1>3, <1>4, <1>5, <1>6

-----------------------------------------------------------------------------
(* The inductive invariant.                                                *)

\* The rename of any verb keeps the invariant: the durable document, and with
\* it every grant and every row, only falls further behind the visible one.
LEMMA PublishStep ==
    ASSUME IndInv, TypeOK', NEW p \in Instance, NEW next \in Lease,
           NEW b \in BOOLEAN, Publish(p, next, b), Advances(doc, next)
    PROVE  IndInv'
<1> USE DEF IndInv
<1>1. /\ doc' = next /\ UNCHANGED <<disk, history, granted>>
      /\ writer' = [pid |-> p, stage |-> "renamed", settled |-> b]
  BY DEF Publish
<1>2. WriterShape'
  BY <1>1 DEF WriterShape
<1>3. DiskIsBehind'
  <2>1. RowOf(disk) \in Row /\ RowOf(doc) \in Row /\ RowOf(next) \in Row
    BY DEF TypeOK, RowOf, Row, Lease
  <2>2. RowAtMost(RowOf(disk), RowOf(next))
    BY <2>1, RowOrder DEF DiskIsBehind, Advances
  <2>3. disk.gen <= doc.gen /\ doc.gen <= next.gen
    BY <2>1, RowOrder DEF DiskIsBehind, Advances, RowOf
  <2>4. disk.gen \in Nat /\ doc.gen \in Nat /\ next.gen \in Nat
    BY DEF TypeOK, Lease
  <2>5. disk.gen = next.gen => disk.owner = next.owner
    BY <2>3, <2>4 DEF DiskIsBehind, Advances
  <2>6. QED
    BY <1>1, <2>2, <2>5 DEF DiskIsBehind
<1>4. RowsAreDurable' /\ HistoryAdvances' /\ GrantsAreDurable' /\ OneOwnerPerGeneration'
  BY <1>1 DEF RowsAreDurable, HistoryAdvances, GrantsAreDurable, OneOwnerPerGeneration
<1>5. QED
  BY <1>2, <1>3, <1>4

\* The directory fsync brings the durable document up to the visible one.
LEMMA SyncStep ==
    ASSUME DirSyncReliable, IndInv, TypeOK', NEW p \in Instance, SyncDirectory(p)
    PROVE  IndInv'
<1> USE DEF IndInv
<1>1. /\ disk' = doc /\ UNCHANGED <<doc, history, granted>>
      /\ writer' = [writer EXCEPT !.stage = "synced"]
      /\ writer.pid = p
  BY DEF SyncDirectory
<1>2. WriterShape'
  BY <1>1 DEF WriterShape, TypeOK, Writer
<1>3. DiskIsBehind'
  BY <1>1 DEF DiskIsBehind, RowAtMost
<1>4. RowOf(disk) \in Row /\ RowOf(doc) \in Row
  BY DEF TypeOK, RowOf, Row, Lease
<1>5. RowsAreDurable'
  <2>1. ASSUME NEW k \in DOMAIN history PROVE RowAtMost(history[k], RowOf(doc))
    <3>1. history[k] \in Row
      BY DEF TypeOK
    <3>2. RowAtMost(history[k], RowOf(disk)) /\ RowAtMost(RowOf(disk), RowOf(doc))
      BY DEF RowsAreDurable, DiskIsBehind
    <3>3. QED
      BY <1>4, <3>1, <3>2, RowOrder
  <2>2. QED
    BY <1>1, <2>1 DEF RowsAreDurable
<1>6. GrantsAreDurable'
  <2>1. ASSUME NEW a \in granted PROVE a.gen < doc.gen \/ a = KeyOf(doc)
    <3>1. disk.gen <= doc.gen
      BY <1>4, RowOrder DEF DiskIsBehind, RowOf
    <3>2. a.gen \in Nat /\ disk.gen \in Nat /\ doc.gen \in Nat
      BY DEF TypeOK, Grant, Lease
    <3>3. a.gen < disk.gen \/ a = KeyOf(disk)
      BY DEF GrantsAreDurable
    <3>4. CASE a.gen < disk.gen
      BY <3>1, <3>2, <3>4
    <3>5. CASE a = KeyOf(disk) /\ disk.gen = doc.gen
      BY <3>5 DEF KeyOf, DiskIsBehind
    <3>6. CASE a = KeyOf(disk) /\ disk.gen # doc.gen
      BY <3>1, <3>2, <3>6 DEF KeyOf
    <3>7. QED
      BY <3>3, <3>4, <3>5, <3>6
  <2>2. QED
    BY <1>1, <2>1 DEF GrantsAreDurable
<1>7. HistoryAdvances' /\ OneOwnerPerGeneration'
  BY <1>1 DEF HistoryAdvances, OneOwnerPerGeneration
<1>8. QED
  BY <1>2, <1>3, <1>5, <1>6, <1>7

\* The append writes a row that is already durable and later than all others,
\* and the caller is told about a grant that is already durable.
LEMMA RecordStep ==
    ASSUME IndInv, TypeOK', NEW p \in Instance, RecordHistory(p)
    PROVE  IndInv'
<1> USE DEF IndInv
<1>1. /\ disk = doc /\ UNCHANGED <<doc, disk>> /\ writer' = Idle
      /\ \/ history' = history
         \/ history' = Append(history, RowOf(doc)) /\ IsTransition
      /\ granted' = granted \/ granted' = granted \cup {KeyOf(doc)}
  BY DEF RecordHistory, Return, DiskIsBehind
<1>2. WriterShape' /\ DiskIsBehind'
  BY <1>1 DEF WriterShape, DiskIsBehind, Idle
<1>3. RowOf(doc) \in Row /\ history \in Seq(Row)
  BY DEF TypeOK, RowOf, Row, Lease
<1>4. RowsAreDurable' /\ HistoryAdvances'
  <2>1. CASE history' = history
    BY <1>1, <2>1 DEF RowsAreDurable, HistoryAdvances
  <2>2. CASE history' = Append(history, RowOf(doc)) /\ IsTransition
    <3>1. /\ Len(history) \in Nat
          /\ DOMAIN history = 1..Len(history)
          /\ DOMAIN history' = 1..(Len(history) + 1)
          /\ \A k \in 1..Len(history) : history'[k] = history[k]
          /\ history'[Len(history) + 1] = RowOf(doc)
      BY <1>3, <2>2
    <3>2. RowAtMost(RowOf(doc), RowOf(doc))
      BY DEF RowAtMost
    <3>3. RowsAreDurable'
      <4>1. \A k \in 1..Len(history) : RowAtMost(history[k], RowOf(doc))
        BY <1>1, <3>1 DEF RowsAreDurable
      <4>2. \A k \in 1..(Len(history) + 1) : RowAtMost(history'[k], RowOf(doc))
        BY <3>1, <3>2, <4>1
      <4>3. RowOf(disk)' = RowOf(doc)
        BY <1>1
      <4>4. QED
        BY <3>1, <4>2, <4>3 DEF RowsAreDurable
    <3>4. \A k \in 1..Len(history) : RowBefore(history[k], RowOf(doc))
      <4> SUFFICES ASSUME NEW k \in 1..Len(history)
                   PROVE  RowBefore(history[k], RowOf(doc))
        OBVIOUS
      <4>1. /\ Len(history) \in 1..Len(history)
            /\ history[k] \in Row /\ history[Len(history)] \in Row
        BY <1>3, <3>1
      <4>2. RowBefore(history[Len(history)], RowOf(doc))
        <5>1. RowAtMost(history[Len(history)], RowOf(doc))
          BY <1>1, <3>1, <4>1 DEF RowsAreDurable
        <5>2. history[Len(history)] # RowOf(doc)
          BY <2>2, <3>1, <4>1 DEF IsTransition
        <5>3. QED
          BY <5>1, <5>2 DEF RowAtMost
      <4>3. CASE k < Len(history)
        <5>1. RowBefore(history[k], history[Len(history)])
          BY <3>1, <4>1, <4>3 DEF HistoryAdvances
        <5>2. RowAtMost(history[Len(history)], RowOf(doc))
          BY <4>2 DEF RowAtMost
        <5>3. QED
          BY <1>3, <4>1, <5>1, <5>2, RowOrder
      <4>4. CASE k = Len(history)
        BY <4>2, <4>4
      <4>5. k < Len(history) \/ k = Len(history)
        <5>1. Len(history) \in Nat
          BY <3>1
        <5>2. QED
          BY <5>1
      <4>6. QED
        BY <4>3, <4>4, <4>5
    <3>5. HistoryAdvances'
      <4> SUFFICES ASSUME NEW j \in 1..(Len(history) + 1),
                          NEW k \in 1..(Len(history) + 1), j < k
                   PROVE  RowBefore(history'[j], history'[k])
        BY <3>1 DEF HistoryAdvances
      <4>1. CASE k = Len(history) + 1
        BY <3>1, <3>4, <4>1
      <4>2. CASE k # Len(history) + 1
        BY <3>1, <4>2 DEF HistoryAdvances
      <4>3. QED
        BY <4>1, <4>2
    <3>6. QED
      BY <3>3, <3>5
  <2>3. QED
    BY <1>1, <2>1, <2>2
<1>5. GrantsAreDurable' /\ OneOwnerPerGeneration'
  <2>1. \A a \in granted : a.gen < doc.gen \/ a = KeyOf(doc)
    BY <1>1 DEF GrantsAreDurable
  <2>2. doc.gen \in Nat /\ KeyOf(doc).gen = doc.gen /\ KeyOf(disk)' = KeyOf(doc)
    BY <1>1 DEF TypeOK, KeyOf, Lease
  <2>3. \A a \in granted : a.gen \in Nat
    BY DEF TypeOK, Grant
  <2>4. GrantsAreDurable'
    BY <1>1, <2>1, <2>2 DEF GrantsAreDurable
  <2>5. OneOwnerPerGeneration'
    BY <1>1, <2>1, <2>2, <2>3 DEF OneOwnerPerGeneration
  <2>6. QED
    BY <2>4, <2>5
<1>6. QED
  BY <1>2, <1>4, <1>5

\* IndInv is inductive when the directory fsync succeeds.
LEMMA Inductive ==
    ASSUME DirSyncReliable PROVE Spec => []IndInv
<1>1. Init => IndInv
  <2> SUFFICES ASSUME Init PROVE IndInv
    OBVIOUS
  <2>1. TypeOK
    BY LeaseRulesAssumption
    DEF LeaseRulesAssumption, Init, TypeOK, NoLease, Lease, Status, Idle,
        Writer, KeyOf, Key
  <2>2. QED
    BY <2>1
    DEF Init, IndInv, WriterShape, DiskIsBehind, RowsAreDurable, HistoryAdvances,
        GrantsAreDurable, OneOwnerPerGeneration, RowAtMost, Idle
<1>2. IndInv /\ TypeOK' /\ [Next]_vars => IndInv'
  <2> SUFFICES ASSUME IndInv, TypeOK', [Next]_vars PROVE IndInv'
    OBVIOUS
  <2>0. doc \in Lease /\ now \in Nat
    BY DEF IndInv, TypeOK
  <2>1. ASSUME NEW p \in Instance, Acquire(p) PROVE IndInv'
    BY <2>0, <2>1, VerbsPublishLeases, VerbsAdvance, PublishStep DEF Acquire
  <2>2. ASSUME NEW p \in Instance, Renew(p) PROVE IndInv'
    BY <2>0, <2>2, VerbsPublishLeases, VerbsAdvance, PublishStep DEF Renew
  <2>3. ASSUME NEW p \in Instance, Drain(p) PROVE IndInv'
    BY <2>0, <2>3, VerbsPublishLeases, VerbsAdvance, PublishStep DEF Drain
  <2>4. ASSUME NEW p \in Instance, Release(p) PROVE IndInv'
    BY <2>0, <2>4, VerbsPublishLeases, VerbsAdvance, PublishStep DEF Release
  <2>5. ASSUME NEW p \in Instance, SyncDirectory(p) PROVE IndInv'
    BY <2>5, SyncStep
  <2>6. ASSUME NEW p \in Instance, RecordHistory(p) PROVE IndInv'
    BY <2>6, RecordStep
  <2>7. CASE /\ UNCHANGED <<doc, disk, history, granted>>
             /\ writer' = writer \/ writer' = Idle
    <3>1. WriterShape' /\ DiskIsBehind'
      BY <2>7 DEF IndInv, WriterShape, DiskIsBehind, Idle
    <3>2. RowsAreDurable' /\ HistoryAdvances' /\ GrantsAreDurable'
          /\ OneOwnerPerGeneration'
      BY <2>7 DEF IndInv, RowsAreDurable, HistoryAdvances, GrantsAreDurable,
                  OneOwnerPerGeneration
    <3>3. QED
      BY <3>1, <3>2 DEF IndInv
  <2>8. ASSUME NEW p \in Instance,
               Start(p) \/ Crash(p) \/ Observe(p) \/ RecordHistoryFails(p)
        PROVE  IndInv'
    BY <2>7, <2>8 DEF Start, Crash, Observe, RecordHistoryFails
  <2>9. CASE Tick \/ StepBack \/ UNCHANGED vars
    BY <2>7, <2>9 DEF Tick, StepBack, vars
  <2>10. CASE PowerLoss
    <3>1. doc' = disk /\ writer' = Idle /\ UNCHANGED <<disk, history, granted>>
      BY <2>10 DEF PowerLoss
    <3>2. WriterShape' /\ DiskIsBehind'
      BY <3>1 DEF WriterShape, DiskIsBehind, RowAtMost, Idle
    <3>3. RowsAreDurable' /\ HistoryAdvances' /\ GrantsAreDurable'
          /\ OneOwnerPerGeneration'
      BY <3>1 DEF IndInv, RowsAreDurable, HistoryAdvances, GrantsAreDurable,
                  OneOwnerPerGeneration
    <3>4. QED
      BY <3>2, <3>3 DEF IndInv
  <2>11. QED
    BY <2>1, <2>2, <2>3, <2>4, <2>5, <2>6, <2>8, <2>9, <2>10 DEF Next
<1>3. QED
  BY <1>1, <1>2, TypeCorrect, PTL DEF Spec

\* When the directory fsync succeeds, no generation number is ever handed to
\* two daemon instances.
THEOREM GenerationsAreUnique ==
    ASSUME DirSyncReliable PROVE Spec => []OneOwnerPerGeneration
<1>1. IndInv => OneOwnerPerGeneration
  BY DEF IndInv
<1>2. QED
  BY <1>1, Inductive, PTL

\* When the directory fsync succeeds, a generation that a daemon was told it has
\* survives a power loss at any point of any later write.
THEOREM GrantsSurvive ==
    ASSUME DirSyncReliable PROVE Spec => []GrantsAreDurable
<1>1. IndInv => GrantsAreDurable
  BY DEF IndInv
<1>2. QED
  BY <1>1, Inductive, PTL

\* When the directory fsync succeeds, the history file only grows forward.
THEOREM HistoryIsOrdered ==
    ASSUME DirSyncReliable PROVE Spec => []HistoryAdvances
<1>1. IndInv => HistoryAdvances
  BY DEF IndInv
<1>2. QED
  BY <1>1, Inductive, PTL

\* When the directory fsync succeeds, a generation with a Released row is not
\* on disk in any other status, now or later.
THEOREM ReleasedRowsAreFinal ==
    ASSUME DirSyncReliable PROVE Spec => []ReleasedRowIsFinal
<1>1. IndInv => ReleasedRowIsFinal
  <2> SUFFICES ASSUME IndInv, NEW k \in DOMAIN history,
                      history[k].status = "Released"
               PROVE  \/ history[k].gen < doc.gen
                      \/ history[k].gen = doc.gen /\ doc.status = "Released"
    BY DEF ReleasedRowIsFinal
  <2>1. history[k] \in Row /\ RowOf(disk) \in Row /\ RowOf(doc) \in Row
    <3>1. history[k] \in Row
      BY DEF IndInv, TypeOK
    <3>2. RowOf(disk) \in Row /\ RowOf(doc) \in Row
      BY DEF IndInv, TypeOK, RowOf, Row, Lease
    <3>3. QED
      BY <3>1, <3>2
  <2>2. RowAtMost(history[k], RowOf(doc))
    BY <2>1, RowOrder DEF IndInv, RowsAreDurable, DiskIsBehind
  <2>3. history[k].gen <= doc.gen /\ history[k].gen \in Nat /\ doc.gen \in Nat
    BY <2>1, <2>2, RowOrder DEF RowOf, Row
  <2>4. CASE history[k].gen = doc.gen
    <3>1. StatusRank("Released") <= StatusRank(doc.status)
      BY <2>1, <2>2, <2>4, RowOrder DEF RowOf
    <3>2. doc.status \in Status
      BY DEF IndInv, TypeOK, Lease
    <3>3. QED
      BY <2>4, <3>1, <3>2 DEF StatusRank, Status
  <2>5. QED
    BY <2>3, <2>4
<1>2. QED
  BY <1>1, Inductive, PTL

\* Short of a power loss the document only moves forward, whatever the clock,
\* the callers and the directory fsync do.
THEOREM DocumentIsForwardOnly == Spec => DocumentMovesForward
<1> DEFINE Forward ==
      \/ PowerLoss
      \/ doc' = doc
      \/ doc.status \in {"Absent", "Released"} /\ doc'.gen = doc.gen + 1
      \/ /\ doc'.gen = doc.gen /\ doc'.owner = doc.owner
         /\ \/ StatusRank(doc.status) < StatusRank(doc'.status)
            \/ doc'.status = doc.status /\ doc.expires <= doc'.expires
<1>1. TypeOK /\ [Next]_vars => [Forward]_vars
  <2> SUFFICES ASSUME TypeOK, Next PROVE Forward
    OBVIOUS
  <2>0. doc \in Lease /\ now \in Nat
    BY DEF TypeOK
  <2>1. ASSUME NEW p \in Instance, Acquire(p) PROVE Forward
    BY <2>1 DEF Acquire, Publish, MayAcquire, Acquired
  <2>2. ASSUME NEW p \in Instance, Renew(p) PROVE Forward
    <3>1. /\ doc' = Renewed(doc, now) /\ ForwardOnly(doc, doc')
          /\ doc.status = "Active"
      BY <2>2 DEF Renew, Publish, MayRenew
    <3>2. /\ Renewed(doc, now).gen = doc.gen
          /\ Renewed(doc, now).owner = doc.owner
          /\ Renewed(doc, now).status = doc.status
          /\ Renewed(doc, now).expires \in Nat
      BY <2>0, VerbsPublishLeases, <2>2 DEF Renewed, Lease
    <3>3. doc.expires <= doc'.expires
      BY <2>0, <3>1, <3>2 DEF ForwardOnly, Lease
    <3>4. QED
      BY <3>1, <3>2, <3>3
  <2>3. ASSUME NEW p \in Instance, Drain(p) PROVE Forward
    <3>1. doc' = doc \/ (doc' = Drained(doc, now) /\ doc.status = "Active")
      BY <2>3 DEF Drain, Publish, MayDrain
    <3>2. /\ Drained(doc, now).gen = doc.gen
          /\ Drained(doc, now).owner = doc.owner
          /\ Drained(doc, now).status = "Draining"
      BY <2>0 DEF Drained, Lease
    <3>3. StatusRank("Active") < StatusRank("Draining")
      BY DEF StatusRank
    <3>4. QED
      BY <3>1, <3>2, <3>3
  <2>4. ASSUME NEW p \in Instance, Release(p) PROVE Forward
    <3>1. doc' = doc \/ (doc' = Released(doc, now) /\ doc.status # "Released")
      BY <2>4 DEF Release, Publish
    <3>2. /\ Released(doc, now).gen = doc.gen
          /\ Released(doc, now).owner = doc.owner
          /\ Released(doc, now).status = "Released"
      BY <2>0 DEF Released, Lease
    <3>3. doc.status # "Released" => StatusRank(doc.status) < StatusRank("Released")
      BY <2>0 DEF StatusRank, Status, Lease
    <3>4. QED
      BY <3>1, <3>2, <3>3
  <2>5. ASSUME NEW p \in Instance,
               \/ Start(p) \/ Crash(p) \/ Observe(p) \/ SyncDirectory(p)
               \/ RecordHistory(p) \/ RecordHistoryFails(p)
        PROVE  doc' = doc
    BY <2>5 DEF Start, Crash, Observe, SyncDirectory, RecordHistory,
                RecordHistoryFails
  <2>6. CASE Tick \/ StepBack
    BY <2>6 DEF Tick, StepBack
  <2>7. QED
    BY <2>1, <2>2, <2>3, <2>4, <2>5, <2>6 DEF Next
<1>2. QED
  BY <1>1, TypeCorrect, PTL DEF Spec, DocumentMovesForward

=============================================================================
