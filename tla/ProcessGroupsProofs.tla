------------------------- MODULE ProcessGroupsProofs -------------------------
(***************************************************************************)
(* ProcessGroups keeps its registry truthful, and its completion is a      *)
(* proof, for every set of children and pids.                              *)
(***************************************************************************)
EXTENDS ProcessGroups, TLAPS

\* What the kernel does to the leader of a group keeps its type.
LEMMA LeaderSteps ==
    ASSUME NEW k \in Leader
    PROVE  /\ [k EXCEPT !.exited = TRUE] \in Leader
           /\ [k EXCEPT !.kin = TRUE] \in Leader
           /\ [k EXCEPT !.by = Foreign] \in Leader
           /\ \A c \in Child : [k EXCEPT !.by = c] \in Leader
           /\ NoProcess \in Leader
           /\ Signalled(k) \in Leader
           /\ Waited(k) \in Leader
  BY DEF Leader, NoProcess, Signalled, Waited

\* A signal takes no leader that can still be waited for, and leaves no kin.
LEMMA SignalKeepsTheLeader ==
    ASSUME NEW k \in Leader
    PROVE  /\ k.by # Foreign => Signalled(k).by = k.by
           /\ k.by = Foreign => Signalled(k).by = None
           /\ ~Signalled(k).kin
  BY DEF Leader, NoProcess, Signalled

\* What an owner records about its child keeps its type.
LEMMA HandleSteps ==
    ASSUME NEW h \in Handle, NEW p \in Pid, NEW b \in BOOLEAN,
           NEW s \in {"spawned", "held", "refused", "killing", "late", "reaped",
                      "dropped", "gone"}
    PROVE  /\ [h EXCEPT !.at = s] \in Handle
           /\ [h EXCEPT !.at = s, !.pid = p] \in Handle
           /\ [h EXCEPT !.at = s, !.refused = b] \in Handle
  BY DEF Handle

\* The same for the function that holds the handles.
LEMMA HandleUpdates ==
    ASSUME NEW H \in [Child -> Handle], NEW c \in Child, NEW b \in BOOLEAN,
           NEW s \in {"spawned", "held", "refused", "killing", "late", "reaped",
                      "dropped", "gone"}
    PROVE  /\ [H EXCEPT ![c].at = s] \in [Child -> Handle]
           /\ [H EXCEPT ![c].at = s, ![c].refused = b] \in [Child -> Handle]
<1>1. H[c] \in Handle
  OBVIOUS
<1>2. [H[c] EXCEPT !.at = s] \in Handle
  BY <1>1 DEF Handle
<1>3. [[H[c] EXCEPT !.at = s] EXCEPT !.refused = b] \in Handle
  BY <1>1 DEF Handle
<1>4. [H EXCEPT ![c].at = s] \in [Child -> Handle]
  BY <1>2
<1>5. [H EXCEPT ![c].at = s, ![c].refused = b]
        = [H EXCEPT ![c] = [[H[c] EXCEPT !.at = s] EXCEPT !.refused = b]]
  OBVIOUS
<1> QED
  BY <1>3, <1>4, <1>5

\* What the critical sections write to the registry keeps its type.
LEMMA RegistrySteps ==
    ASSUME NEW r \in Registry, NEW p \in Pid, NEW c \in Child \cup {None},
           NEW S \in SUBSET Pid, NEW b \in BOOLEAN
    PROVE  /\ [r EXCEPT !.groups[p] = c] \in Registry
           /\ [r EXCEPT !.signaled = @ \cup {p}, !.failures = @] \in Registry
           /\ [r EXCEPT !.signaled = @ \cup {p}, !.failures = @ \cup {p}] \in Registry
           /\ [r EXCEPT !.signaled = @ \ {p}] \in Registry
           /\ [r EXCEPT !.residue = @ \cup {p}] \in Registry
           /\ [r EXCEPT !.failures = @ \cup {p}] \in Registry
           /\ [r EXCEPT !.accepting = b] \in Registry
           /\ [r EXCEPT !.accepting = b, !.failures = {}] \in Registry
           /\ [r EXCEPT !.accepting = b, !.failures = @ \cup S] \in Registry
  BY DEF Registry

\* The registry and the kernel start empty.
LEMMA InitIndInv == Init => IndInv
<1> SUFFICES ASSUME Init PROVE IndInv
  OBVIOUS
<1>1. TypeOK
  BY DEF Init, TypeOK, Leader, Handle, Registry, NoProcess
<1>2. RegisteredGroupIsOurs /\ UnwaitedIsAccounted /\ GuardedIsUnwaited
      /\ SpawnedHasPid /\ RegisteredIsHeld
  BY ProcessGroupsAssumption
  DEF ProcessGroupsAssumption, Init, NoProcess, RegisteredGroupIsOurs,
      UnwaitedIsAccounted, GuardedIsUnwaited, SpawnedHasPid, RegisteredIsHeld
<1>3. RefusalIsRecorded /\ JoinedWhenLate /\ CompletionIsProof
  BY DEF Init, RefusalIsRecorded, JoinedWhenLate, Joined, CompletionIsProof
<1> QED
  BY <1>1, <1>2, <1>3 DEF IndInv

\* Every step keeps the types of the variables; that a spawned child has a pid
\* is needed for it.
LEMMA NextTypeOK == TypeOK /\ SpawnedHasPid /\ [Next]_vars => TypeOK'
<1> SUFFICES ASSUME TypeOK, SpawnedHasPid, [Next]_vars PROVE TypeOK'
  OBVIOUS
<1> USE DEF TypeOK
<1>1. ASSUME NEW p \in Pid, ChildExits(p) PROVE TypeOK'
  BY <1>1, LeaderSteps DEF ChildExits
<1>2. ASSUME NEW p \in Pid, ChildForks(p) PROVE TypeOK'
  BY <1>2, LeaderSteps DEF ChildForks
<1>3. ASSUME NEW p \in Pid, PidIsReused(p) PROVE TypeOK'
  BY <1>3, LeaderSteps DEF PidIsReused
<1>4. ASSUME NEW c \in Child, NEW p \in Pid, Spawn(c, p) PROVE TypeOK'
  BY <1>4, LeaderSteps, HandleSteps DEF Spawn
<1>5. ASSUME NEW c \in Child, Register(c) PROVE TypeOK'
  <2> DEFINE p == child[c].pid
  <2>1. p \in Pid
    BY <1>5 DEF Register, SpawnedHasPid
  <2>2. /\ [reg EXCEPT !.groups[p] = c] \in Registry
        /\ [reg EXCEPT !.signaled = @ \cup {p}, !.failures = @] \in Registry
        /\ [reg EXCEPT !.signaled = @ \cup {p}, !.failures = @ \cup {p}] \in Registry
    BY <2>1, RegistrySteps
  <2>3. /\ [child EXCEPT ![c].at = "held"] \in [Child -> Handle]
        /\ \A b \in BOOLEAN : [child EXCEPT ![c].at = "late", ![c].refused = b]
                               \in [Child -> Handle]
    BY HandleUpdates
  <2>4. [kernel EXCEPT ![p] = Signalled(@)] \in [Pid -> Leader]
    BY <2>1, LeaderSteps
  <2>5. CASE reg.accepting
    BY <1>5, <2>2, <2>3, <2>5 DEF Register
  <2>6. CASE ~reg.accepting
    <3>1. PICK delivered \in BOOLEAN :
            /\ kernel' = IF delivered
                           THEN [kernel EXCEPT ![p] = Signalled(@)] ELSE kernel
            /\ reg' = [reg EXCEPT !.signaled = @ \cup {p},
                                  !.failures = IF delivered THEN @ ELSE @ \cup {p}]
            /\ child' = [child EXCEPT ![c].at = "late", ![c].refused = ~delivered]
      BY <1>5, <2>6 DEF Register
    <3>2. reg' \in Registry
      BY <2>2, <3>1
    <3>3. child' \in [Child -> Handle]
      BY <2>3, <3>1
    <3> QED
      BY <1>5, <2>4, <3>1, <3>2, <3>3 DEF Register
  <2> QED
    BY <2>5, <2>6 DEF Registry
<1>6. ASSUME NEW c \in Child, ReapLate(c) PROVE TypeOK'
  <2>1. child[c].pid \in Pid
    BY <1>6 DEF ReapLate, SpawnedHasPid
  <2> QED
    BY <1>6, <2>1, LeaderSteps, HandleSteps DEF ReapLate
<1>7. ASSUME NEW c \in Child, RecordLate(c) PROVE TypeOK'
  <2>1. child[c].pid \in Pid
    BY <1>7 DEF RecordLate, SpawnedHasPid
  <2>2. child' \in [Child -> Handle]
    BY <1>7, HandleUpdates DEF RecordLate
  <2>3. reg' \in Registry
    BY <1>7, <2>1, RegistrySteps DEF RecordLate
  <2> QED
    BY <1>7, <2>2, <2>3 DEF RecordLate
<1>8. ASSUME NEW c \in Child, TryWaitAndRelease(c) PROVE TypeOK'
  <2> DEFINE p == child[c].pid
  <2>1. p \in Pid
    BY <1>8 DEF TryWaitAndRelease, SpawnedHasPid
  <2>2. kernel' \in [Pid -> Leader] /\ child' \in [Child -> Handle]
    BY <1>8, <2>1, LeaderSteps, HandleSteps DEF TryWaitAndRelease
  <2>3. reg.groups[p] \in Child \cup {None}
    BY <2>1 DEF Registry
  <2>4. reg' = [reg EXCEPT !.groups[p] = IF reg.groups[p] = c THEN None ELSE reg.groups[p]]
    BY <1>8 DEF TryWaitAndRelease, Unregistered
  <2>5. reg' \in Registry
    BY <2>1, <2>3, <2>4, RegistrySteps
  <2> QED
    BY <1>8, <2>2, <2>5 DEF TryWaitAndRelease
<1>9. ASSUME NEW c \in Child, KillGroup(c) PROVE TypeOK'
  <2> DEFINE p == child[c].pid
  <2>1. p \in Pid
    BY <1>9 DEF KillGroup, SpawnedHasPid
  <2>2. /\ [kernel EXCEPT ![p] = Signalled(@)] \in [Pid -> Leader]
        /\ [kernel EXCEPT ![p].exited = TRUE] \in [Pid -> Leader]
    BY <2>1, LeaderSteps
  <2>3. /\ [child EXCEPT ![c].at = "killing"] \in [Child -> Handle]
        /\ [child EXCEPT ![c].at = "refused"] \in [Child -> Handle]
    BY HandleUpdates
  <2>4. /\ kernel' \in [Pid -> Leader]
        /\ child' \in [Child -> Handle]
    BY <1>9, <2>2, <2>3 DEF KillGroup
  <2> QED
    BY <1>9, <2>4 DEF KillGroup
<1>9a. ASSUME NEW c \in Child, RecordRefusal(c) PROVE TypeOK'
  <2> DEFINE p == child[c].pid
  <2>1. p \in Pid
    BY <1>9a DEF RecordRefusal, SpawnedHasPid
  <2>2. [child EXCEPT ![c].at = "killing", ![c].refused = TRUE] \in [Child -> Handle]
    BY HandleUpdates
  <2>3. [reg EXCEPT !.failures = @ \cup {p}] \in Registry
    BY <2>1, RegistrySteps
  <2>4. child' \in [Child -> Handle] /\ reg' \in Registry
    BY <1>9a, <2>2, <2>3 DEF RecordRefusal
  <2> QED
    BY <1>9a, <2>4 DEF RecordRefusal
<1>10. ASSUME NEW c \in Child, DropGuard(c) PROVE TypeOK'
  <2>1. child' \in [Child -> Handle]
    BY <1>10, HandleUpdates DEF DropGuard
  <2> QED
    BY <1>10, <2>1 DEF DropGuard
<1>11. ASSUME Terminate PROVE TypeOK'
  <2>1. PICK immune \in SUBSET (Registered \cup reg.signaled) :
          LET hit == (Registered \cup reg.signaled) \ immune IN
          /\ kernel' = [p \in Pid |->
                         IF p \in hit THEN Signalled(kernel[p]) ELSE kernel[p]]
          /\ struck' = (struck \/ \E p \in hit : kernel[p].by = Foreign)
          /\ reg' = [reg EXCEPT !.accepting = FALSE,
                                !.failures = @ \cup
                                   {p \in immune : ~GroupIsAbsent(p)}]
    BY <1>11 DEF Terminate
  <2>2. immune \subseteq Pid
    BY DEF Registered, Registry
  <2>3. kernel' \in [Pid -> Leader]
    BY <2>1, LeaderSteps
  <2>4. reg' \in Registry
    <3> DEFINE S == {p \in immune : ~GroupIsAbsent(p)}
    <3>1. S \in SUBSET Pid
      BY <2>2
    <3>2. reg' = [reg EXCEPT !.accepting = FALSE, !.failures = @ \cup S]
      BY <2>1
    <3> HIDE DEF S
    <3> QED
      BY <3>1, <3>2 DEF Registry
  <2>5. struck' \in BOOLEAN
    BY <2>1
  <2> QED
    BY <1>11, <2>3, <2>4, <2>5 DEF Terminate
<1>12. ASSUME Complete PROVE TypeOK'
  BY <1>12 DEF Complete, Registry
<1>13. CASE UNCHANGED vars
  BY <1>13 DEF vars
<1> QED
  BY <1>1, <1>2, <1>3, <1>4, <1>5, <1>6, <1>7, <1>8, <1>9, <1>9a, <1>10, <1>11, <1>12,
     <1>13
  DEF Next

\* Every step keeps the strengthened invariant.
LEMMA NextIndInv == IndInv /\ [Next]_vars => IndInv'
<1> SUFFICES ASSUME IndInv, [Next]_vars PROVE IndInv'
  OBVIOUS
<1>0. TypeOK'
  BY NextTypeOK DEF IndInv
<1> USE ProcessGroupsAssumption DEF ProcessGroupsAssumption, IndInv, TypeOK, Leader, Handle, Registry
<1>1. ASSUME NEW p \in Pid, ChildExits(p) PROVE IndInv'
  <2>1. RegisteredGroupIsOurs' /\ UnwaitedIsAccounted' /\ SpawnedHasPid'
    BY <1>1
    DEF ChildExits, RegisteredGroupIsOurs, UnwaitedIsAccounted,
        GuardedIsUnwaited, SpawnedHasPid, RegisteredIsHeld
  <2>2. GuardedIsUnwaited' /\ RegisteredIsHeld'
    BY <1>1
    DEF ChildExits, GuardedIsUnwaited, SpawnedHasPid, UnwaitedIsAccounted,
        RegisteredIsHeld, RegisteredGroupIsOurs
  <2>3. RefusalIsRecorded' /\ JoinedWhenLate' /\ CompletionIsProof'
    BY <1>1
    DEF ChildExits, RefusalIsRecorded, SpawnedHasPid, GuardedIsUnwaited,
        JoinedWhenLate, Joined, CompletionIsProof, UnwaitedIsAccounted
  <2> QED
    BY <1>0, <2>1, <2>2, <2>3
<1>2. ASSUME NEW p \in Pid, ChildForks(p) PROVE IndInv'
  <2>1. RegisteredGroupIsOurs' /\ UnwaitedIsAccounted' /\ SpawnedHasPid'
    BY <1>2
    DEF ChildForks, RegisteredGroupIsOurs, UnwaitedIsAccounted,
        GuardedIsUnwaited, SpawnedHasPid, RegisteredIsHeld
  <2>2. GuardedIsUnwaited' /\ RegisteredIsHeld'
    BY <1>2
    DEF ChildForks, GuardedIsUnwaited, SpawnedHasPid, UnwaitedIsAccounted,
        RegisteredIsHeld, RegisteredGroupIsOurs
  <2>3. RefusalIsRecorded' /\ JoinedWhenLate' /\ CompletionIsProof'
    BY <1>2
    DEF ChildForks, RefusalIsRecorded, SpawnedHasPid, GuardedIsUnwaited,
        JoinedWhenLate, Joined, CompletionIsProof, UnwaitedIsAccounted
  <2> QED
    BY <1>0, <2>1, <2>2, <2>3
<1>3. ASSUME NEW p \in Pid, PidIsReused(p) PROVE IndInv'
  <2>1. RegisteredGroupIsOurs' /\ UnwaitedIsAccounted' /\ SpawnedHasPid'
    BY <1>3
    DEF PidIsReused, GroupIsAbsent, NoProcess, RegisteredGroupIsOurs,
        UnwaitedIsAccounted, GuardedIsUnwaited, SpawnedHasPid,
        RegisteredIsHeld
  <2>2. GuardedIsUnwaited' /\ RegisteredIsHeld'
    BY <1>3
    DEF PidIsReused, GroupIsAbsent, NoProcess, GuardedIsUnwaited,
        SpawnedHasPid, UnwaitedIsAccounted, RegisteredIsHeld,
        RegisteredGroupIsOurs
  <2>3. RefusalIsRecorded' /\ JoinedWhenLate'
    BY <1>3 DEF PidIsReused, RefusalIsRecorded, JoinedWhenLate, Joined
  <2>4. CompletionIsProof'
    <3>1. \A q \in Pid : /\ kernel'[q].kin => kernel[q].kin
                         /\ kernel'[q].by \in Child => kernel[q].by \in Child
      BY <1>3 DEF PidIsReused, GroupIsAbsent, NoProcess
    <3>2. child' = child /\ phase' = phase
      BY <1>3 DEF PidIsReused
    <3> QED
      BY <3>1, <3>2 DEF CompletionIsProof, RefusalIsRecorded, SpawnedHasPid
  <2> QED
    BY <1>0, <2>1, <2>2, <2>3, <2>4
<1>4. ASSUME NEW c \in Child, NEW p \in Pid, Spawn(c, p) PROVE IndInv'
  <2>1. RegisteredGroupIsOurs' /\ UnwaitedIsAccounted' /\ SpawnedHasPid'
    BY <1>4
    DEF Spawn, GroupIsAbsent, RegisteredGroupIsOurs, UnwaitedIsAccounted,
        GuardedIsUnwaited, SpawnedHasPid, RegisteredIsHeld
  <2>2. GuardedIsUnwaited' /\ RegisteredIsHeld'
    BY <1>4
    DEF Spawn, GroupIsAbsent, GuardedIsUnwaited, SpawnedHasPid,
        UnwaitedIsAccounted, RegisteredIsHeld, RegisteredGroupIsOurs
  <2>3. RefusalIsRecorded' /\ JoinedWhenLate' /\ CompletionIsProof'
    BY <1>4
    DEF Spawn, GroupIsAbsent, RefusalIsRecorded, SpawnedHasPid,
        GuardedIsUnwaited, JoinedWhenLate, Joined, CompletionIsProof,
        UnwaitedIsAccounted
  <2> QED
    BY <1>0, <2>1, <2>2, <2>3
<1>5. ASSUME NEW c \in Child, Register(c) PROVE IndInv'
  <2> DEFINE p == child[c].pid
  <2>p. p \in Pid /\ child[c].at = "spawned" /\ kernel[p].by = c
    BY <1>5 DEF Register, SpawnedHasPid, GuardedIsUnwaited
  <2>k. kernel' \in {kernel, [kernel EXCEPT ![p] = Signalled(@)]} /\ phase' = phase
    BY <1>5 DEF Register
  <2>a. /\ \A q \in Pid : kernel'[q].by = kernel[q].by
        /\ \A q \in Pid : kernel'[q].kin => kernel[q].kin
        /\ phase' = phase
    <3>1. kernel[p] \in Leader /\ Signalled(kernel[p]).by = c /\ ~Signalled(kernel[p]).kin
      BY <2>p, SignalKeepsTheLeader
    <3> QED
      BY <2>p, <2>k, <3>1
  <2>b. /\ \A d \in Child : d # c => child'[d] = child[d]
        /\ child'[c].pid = p
        /\ child'[c].at \in {"held", "late"}
    <3>1. CASE reg.accepting
      BY <1>5, <3>1 DEF Register
    <3>2. CASE ~reg.accepting
      <4>1. PICK delivered \in BOOLEAN :
              child' = [child EXCEPT ![c].at = "late", ![c].refused = ~delivered]
        BY <1>5, <3>2 DEF Register
      <4> QED
        BY <4>1
    <3> QED
      BY <3>1, <3>2
  <2>c. /\ \A q \in Pid : q # p => reg'.groups[q] = reg.groups[q]
        /\ child'[c].at = "held" => reg'.groups[p] = c
        /\ child'[c].at = "late" => reg'.groups[p] = reg.groups[p]
        /\ reg'.residue = reg.residue
        /\ reg.failures \subseteq reg'.failures
        /\ child'[c].refused => child[c].refused \/ p \in reg'.failures
    <3>1. CASE reg.accepting
      BY <1>5, <2>p, <3>1 DEF Register
    <3>2. CASE ~reg.accepting
      <4>1. PICK delivered \in BOOLEAN :
              /\ reg' = [reg EXCEPT !.signaled = @ \cup {p},
                                    !.failures = IF delivered THEN @ ELSE @ \cup {p}]
              /\ child' = [child EXCEPT ![c].at = "late", ![c].refused = ~delivered]
        BY <1>5, <3>2 DEF Register
      <4>2. reg'.groups = reg.groups /\ reg'.residue = reg.residue
        BY <4>1
      <4>3. child'[c].at = "late" /\ child'[c].refused = ~delivered
        BY <4>1
      <4>4. reg'.failures = IF delivered THEN reg.failures ELSE reg.failures \cup {p}
        BY <4>1
      <4> QED
        BY <4>2, <4>3, <4>4
    <3> QED
      BY <3>1, <3>2
  <2>1. RegisteredGroupIsOurs'
    BY <2>p, <2>a, <2>b, <2>c DEF RegisteredGroupIsOurs, UnwaitedIsAccounted
  <2>2. UnwaitedIsAccounted' /\ SpawnedHasPid'
    BY <2>p, <2>a, <2>b, <2>c DEF UnwaitedIsAccounted, SpawnedHasPid
  <2>3. GuardedIsUnwaited'
    BY <2>p, <2>a, <2>b, <2>c DEF GuardedIsUnwaited, SpawnedHasPid
  <2>4. RegisteredIsHeld'
    BY <2>p, <2>a, <2>b, <2>c
    DEF RegisteredIsHeld, RegisteredGroupIsOurs, GuardedIsUnwaited, SpawnedHasPid
  <2>5. RefusalIsRecorded' /\ JoinedWhenLate' /\ CompletionIsProof'
    BY <2>p, <2>a, <2>b, <2>c
    DEF RefusalIsRecorded, SpawnedHasPid, GuardedIsUnwaited,
        JoinedWhenLate, Joined, CompletionIsProof, UnwaitedIsAccounted
  <2> QED
    BY <1>0, <2>1, <2>2, <2>3, <2>4, <2>5
<1>6. ASSUME NEW c \in Child, ReapLate(c) PROVE IndInv'
  <2>1. RegisteredGroupIsOurs' /\ UnwaitedIsAccounted' /\ SpawnedHasPid'
    BY <1>6
    DEF ReapLate, Waited, RegisteredGroupIsOurs, UnwaitedIsAccounted,
        GuardedIsUnwaited, SpawnedHasPid, RegisteredIsHeld
  <2>2. GuardedIsUnwaited' /\ RegisteredIsHeld'
    BY <1>6
    DEF ReapLate, Waited, GuardedIsUnwaited, SpawnedHasPid,
        UnwaitedIsAccounted, RegisteredIsHeld, RegisteredGroupIsOurs
  <2>3. RefusalIsRecorded' /\ JoinedWhenLate' /\ CompletionIsProof'
    BY <1>6
    DEF ReapLate, Waited, RefusalIsRecorded, SpawnedHasPid,
        GuardedIsUnwaited, JoinedWhenLate, Joined, CompletionIsProof,
        UnwaitedIsAccounted
  <2> QED
    BY <1>0, <2>1, <2>2, <2>3
<1>7. ASSUME NEW c \in Child, RecordLate(c) PROVE IndInv'
  <2> DEFINE p == child[c].pid
  <2>p. p \in Pid /\ child[c].at \in {"reaped", "late"}
    BY <1>7 DEF RecordLate, SpawnedHasPid
  <2>a. /\ kernel' = kernel /\ phase' = phase
        /\ child' = [child EXCEPT ![c].at = "gone"]
    BY <1>7 DEF RecordLate
  <2>b. /\ reg'.groups = reg.groups
        /\ reg'.failures = reg.failures
        /\ reg.residue \subseteq reg'.residue
        /\ child[c].at = "late" => p \in reg'.residue
    <3>1. CASE child[c].at = "reaped"
      BY <1>7, <3>1 DEF RecordLate
    <3>2. CASE child[c].at = "late"
      BY <1>7, <3>2 DEF RecordLate
    <3> QED
      BY <2>p, <3>1, <3>2
  <2>1. RegisteredGroupIsOurs' /\ UnwaitedIsAccounted' /\ SpawnedHasPid'
    BY <2>p, <2>a, <2>b
    DEF RegisteredGroupIsOurs, UnwaitedIsAccounted, GuardedIsUnwaited,
        SpawnedHasPid, RegisteredIsHeld
  <2>2. GuardedIsUnwaited' /\ RegisteredIsHeld'
    BY <2>p, <2>a, <2>b
    DEF GuardedIsUnwaited, SpawnedHasPid, UnwaitedIsAccounted,
        RegisteredIsHeld, RegisteredGroupIsOurs
  <2>3. RefusalIsRecorded' /\ JoinedWhenLate' /\ CompletionIsProof'
    BY <2>p, <2>a, <2>b
    DEF RefusalIsRecorded, SpawnedHasPid, GuardedIsUnwaited,
        JoinedWhenLate, Joined, CompletionIsProof, UnwaitedIsAccounted
  <2> QED
    BY <1>0, <2>1, <2>2, <2>3
<1>8. ASSUME NEW c \in Child, TryWaitAndRelease(c) PROVE IndInv'
  <2>1. RegisteredGroupIsOurs' /\ UnwaitedIsAccounted' /\ SpawnedHasPid'
    BY <1>8
    DEF TryWaitAndRelease, Waited, Unregistered, RegisteredGroupIsOurs,
        UnwaitedIsAccounted, GuardedIsUnwaited, SpawnedHasPid,
        RegisteredIsHeld
  <2>2. GuardedIsUnwaited' /\ RegisteredIsHeld'
    BY <1>8
    DEF TryWaitAndRelease, Waited, Unregistered, GuardedIsUnwaited,
        SpawnedHasPid, UnwaitedIsAccounted, RegisteredIsHeld,
        RegisteredGroupIsOurs
  <2>3. RefusalIsRecorded' /\ JoinedWhenLate' /\ CompletionIsProof'
    BY <1>8
    DEF TryWaitAndRelease, Waited, Unregistered, RefusalIsRecorded,
        SpawnedHasPid, GuardedIsUnwaited, JoinedWhenLate, Joined,
        CompletionIsProof, UnwaitedIsAccounted
  <2> QED
    BY <1>0, <2>1, <2>2, <2>3
<1>9. ASSUME NEW c \in Child, KillGroup(c) PROVE IndInv'
  <2> DEFINE p == child[c].pid
  <2>p. p \in Pid /\ child[c].at = "held" /\ kernel[p].by = c
    BY <1>9 DEF KillGroup, SpawnedHasPid, GuardedIsUnwaited
  <2>a. /\ \A q \in Pid : kernel'[q].by = kernel[q].by
        /\ \A q \in Pid : kernel'[q].kin => kernel[q].kin
    <3>1. kernel[p] \in Leader /\ Signalled(kernel[p]).by = c /\ ~Signalled(kernel[p]).kin
      BY <2>p, SignalKeepsTheLeader
    <3>2. kernel' \in {kernel, [kernel EXCEPT ![p] = Signalled(@)],
                       [kernel EXCEPT ![p].exited = TRUE]}
      BY <1>9 DEF KillGroup
    <3>3. CASE kernel' = [kernel EXCEPT ![p] = Signalled(@)]
      BY <2>p, <3>1, <3>3
    <3>4. CASE kernel' = [kernel EXCEPT ![p].exited = TRUE]
      BY <2>p, <3>4
    <3> QED
      BY <3>2, <3>3, <3>4
  <2>b. /\ \A d \in Child : d # c => child'[d] = child[d]
        /\ child'[c].pid = p
        /\ child'[c].at \in {"killing", "refused"}
        /\ child'[c].refused = child[c].refused
    BY <1>9 DEF KillGroup
  <2>c. reg' = reg /\ phase' = phase
    BY <1>9 DEF KillGroup
  <2>1. RegisteredGroupIsOurs' /\ UnwaitedIsAccounted' /\ SpawnedHasPid'
    BY <2>p, <2>a, <2>b, <2>c
    DEF RegisteredGroupIsOurs, UnwaitedIsAccounted, GuardedIsUnwaited,
        SpawnedHasPid, RegisteredIsHeld
  <2>2. GuardedIsUnwaited'
    BY <2>p, <2>a, <2>b, <2>c DEF GuardedIsUnwaited, SpawnedHasPid
  <2>3. RegisteredIsHeld'
    BY <2>p, <2>a, <2>b, <2>c DEF RegisteredIsHeld
  <2>4. RefusalIsRecorded' /\ JoinedWhenLate' /\ CompletionIsProof'
    BY <2>p, <2>a, <2>b, <2>c
    DEF RefusalIsRecorded, SpawnedHasPid, GuardedIsUnwaited,
        JoinedWhenLate, Joined, CompletionIsProof, UnwaitedIsAccounted
  <2> QED
    BY <1>0, <2>1, <2>2, <2>3, <2>4
<1>9a. ASSUME NEW c \in Child, RecordRefusal(c) PROVE IndInv'
  <2> DEFINE p == child[c].pid
  <2>p. p \in Pid /\ child[c].at = "refused" /\ kernel[p].by = c /\ reg.groups[p] = c
    BY <1>9a DEF RecordRefusal, SpawnedHasPid, GuardedIsUnwaited, UnwaitedIsAccounted
  <2>a. kernel' = kernel /\ phase' = phase
    BY <1>9a DEF RecordRefusal
  <2>b. /\ \A d \in Child : d # c => child'[d] = child[d]
        /\ child'[c].pid = p
        /\ child'[c].at = "killing"
    BY <1>9a DEF RecordRefusal
  <2>c. /\ reg'.groups = reg.groups
        /\ reg'.residue = reg.residue
        /\ reg'.failures = reg.failures \cup {p}
    BY <1>9a, <2>p DEF RecordRefusal
  <2>1. RegisteredGroupIsOurs' /\ UnwaitedIsAccounted' /\ SpawnedHasPid'
    BY <2>p, <2>a, <2>b, <2>c
    DEF RegisteredGroupIsOurs, UnwaitedIsAccounted, GuardedIsUnwaited,
        SpawnedHasPid, RegisteredIsHeld
  <2>2. GuardedIsUnwaited' /\ RegisteredIsHeld'
    BY <2>p, <2>a, <2>b, <2>c
    DEF GuardedIsUnwaited, SpawnedHasPid, UnwaitedIsAccounted,
        RegisteredIsHeld, RegisteredGroupIsOurs
  <2>3. RefusalIsRecorded' /\ JoinedWhenLate' /\ CompletionIsProof'
    BY <2>p, <2>a, <2>b, <2>c
    DEF RefusalIsRecorded, SpawnedHasPid, GuardedIsUnwaited,
        JoinedWhenLate, Joined, CompletionIsProof, UnwaitedIsAccounted
  <2> QED
    BY <1>0, <2>1, <2>2, <2>3
<1>10. ASSUME NEW c \in Child, DropGuard(c) PROVE IndInv'
  <2>1. RegisteredGroupIsOurs' /\ UnwaitedIsAccounted' /\ SpawnedHasPid'
    BY <1>10
    DEF DropGuard, RegisteredGroupIsOurs, UnwaitedIsAccounted,
        GuardedIsUnwaited, SpawnedHasPid, RegisteredIsHeld
  <2>2. GuardedIsUnwaited' /\ RegisteredIsHeld'
    BY <1>10
    DEF DropGuard, GuardedIsUnwaited, SpawnedHasPid, UnwaitedIsAccounted,
        RegisteredIsHeld, RegisteredGroupIsOurs
  <2>3. RefusalIsRecorded' /\ JoinedWhenLate' /\ CompletionIsProof'
    BY <1>10
    DEF DropGuard, RefusalIsRecorded, SpawnedHasPid, GuardedIsUnwaited,
        JoinedWhenLate, Joined, CompletionIsProof, UnwaitedIsAccounted
  <2> QED
    BY <1>0, <2>1, <2>2, <2>3
<1>11. ASSUME Terminate PROVE IndInv'
  <2>k. PICK hit : kernel' = [q \in Pid |->
                                IF q \in hit THEN Signalled(kernel[q]) ELSE kernel[q]]
    BY <1>11 DEF Terminate
  <2>a. ASSUME NEW q \in Pid
        PROVE  /\ kernel[q].by # Foreign => kernel'[q].by = kernel[q].by
               /\ kernel[q].by = Foreign => kernel'[q].by \in {Foreign, None}
               /\ kernel'[q].kin => kernel[q].kin
    <3>1. kernel[q] \in Leader
      OBVIOUS
    <3> QED
      BY <2>k, <3>1, SignalKeepsTheLeader
  <2>b. /\ reg'.groups = reg.groups
        /\ reg'.residue = reg.residue
        /\ reg.failures \subseteq reg'.failures
    BY <1>11 DEF Terminate
  <2>c. child' = child /\ phase # "complete" /\ phase' # "complete"
        /\ (phase' = "late" => Joined)
    BY <1>11 DEF Terminate
  <2>1. RegisteredGroupIsOurs' /\ UnwaitedIsAccounted' /\ SpawnedHasPid'
    BY <2>a, <2>b, <2>c
    DEF RegisteredGroupIsOurs, UnwaitedIsAccounted, GuardedIsUnwaited,
        SpawnedHasPid, RegisteredIsHeld
  <2>2. GuardedIsUnwaited' /\ RegisteredIsHeld'
    BY <2>a, <2>b, <2>c
    DEF GuardedIsUnwaited, SpawnedHasPid, UnwaitedIsAccounted,
        RegisteredIsHeld, RegisteredGroupIsOurs
  <2>3. RefusalIsRecorded' /\ JoinedWhenLate' /\ CompletionIsProof'
    BY <2>a, <2>b, <2>c
    DEF RefusalIsRecorded, SpawnedHasPid, GuardedIsUnwaited,
        JoinedWhenLate, Joined, CompletionIsProof, UnwaitedIsAccounted
  <2> QED
    BY <1>0, <2>1, <2>2, <2>3
<1>12. ASSUME Complete PROVE IndInv'
  <2>a. /\ kernel' = kernel /\ child' = child
        /\ phase = "late" /\ phase' \in {"complete", "incomplete"}
    BY <1>12 DEF Complete
  <2>b. /\ reg'.groups = reg.groups /\ reg'.residue = reg.residue
        /\ phase' = "incomplete" => reg'.failures = reg.failures
    BY <1>12 DEF Complete
  <2>c. phase' = "complete" => NothingLeft
    BY <1>12 DEF Complete
  <2>1. RegisteredGroupIsOurs' /\ UnwaitedIsAccounted' /\ SpawnedHasPid'
    BY <2>a, <2>b, <2>c
    DEF RegisteredGroupIsOurs, UnwaitedIsAccounted, GuardedIsUnwaited,
        SpawnedHasPid, RegisteredIsHeld
  <2>2. GuardedIsUnwaited' /\ RegisteredIsHeld'
    BY <2>a, <2>b, <2>c
    DEF GuardedIsUnwaited, SpawnedHasPid, UnwaitedIsAccounted,
        RegisteredIsHeld, RegisteredGroupIsOurs
  <2>3. RefusalIsRecorded' /\ JoinedWhenLate' /\ CompletionIsProof'
    BY <2>a, <2>b, <2>c
    DEF RefusalIsRecorded, SpawnedHasPid, GuardedIsUnwaited,
        JoinedWhenLate, Joined, CompletionIsProof, NothingLeft, Registered,
        GroupIsAbsent, UnwaitedIsAccounted
  <2> QED
    BY <1>0, <2>1, <2>2, <2>3
<1>13. CASE UNCHANGED vars
  BY <1>0, <1>13 DEF vars, RegisteredGroupIsOurs, UnwaitedIsAccounted, SpawnedHasPid,
     GuardedIsUnwaited, RegisteredIsHeld, RefusalIsRecorded, JoinedWhenLate, Joined,
     CompletionIsProof
<1> QED
  BY <1>1, <1>2, <1>3, <1>4, <1>5, <1>6, <1>7, <1>8, <1>9, <1>9a, <1>10, <1>11, <1>12,
     <1>13
  DEF Next

\* The types of the variables, for every set of children and pids.
THEOREM TypeCorrect == Spec => []TypeOK
<1>1. IndInv => TypeOK
  BY DEF IndInv
<1> QED
  BY <1>1, InitIndInv, NextIndInv, PTL DEF Spec

\* The registry never names a pid its own child could have left to somebody
\* else (try_wait_and_release, release_locked).
THEOREM RegistryIsTruthful == Spec => []RegisteredGroupIsOurs
<1>1. IndInv => RegisteredGroupIsOurs
  BY DEF IndInv
<1> QED
  BY <1>1, InitIndInv, NextIndInv, PTL DEF Spec

\* A successful complete_registered_process_group_shutdown proves that every
\* child was waited for and no group that refused a signal is left.
THEOREM CompletionProves == Spec => []CompletionIsProof
<1>1. IndInv => CompletionIsProof
  BY DEF IndInv
<1> QED
  BY <1>1, InitIndInv, NextIndInv, PTL DEF Spec

=============================================================================
