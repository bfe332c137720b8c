---------------------------- MODULE ProcessGroups ----------------------------
(***************************************************************************)
(* The process-group registry of firm-runtime-host/src/lib.rs: provider    *)
(* transports register the child they spawned, kill it and reap it, while  *)
(* the shutdown of the daemon closes admission, signals every registered   *)
(* group and asks for the proof that none is left.                         *)
(*                                                                         *)
(* Every critical section of the registry mutex is one action.  The kernel *)
(* is modelled from how the registry uses it: a reaped pid may be reused   *)
(* by a foreign process once no process of its group is left, a signal may *)
(* be refused (EPERM), and a group may outlive its leader.  A child's      *)
(* token is unique, so the child stands for it.                            *)
(***************************************************************************)
EXTENDS Naturals, FiniteSets

CONSTANTS
    Child,      \* provider children spawned by this daemon process
    Pid,        \* process ids
    Foreign,    \* a process that is not this daemon's
    None        \* no process, no registration, no pid

ASSUME ProcessGroupsAssumption ==
    /\ Foreign \notin Child
    /\ None \notin Child \cup Pid \cup {Foreign}

VARIABLES
    kernel,     \* per pid: the leader, whether it has exited, its descendants
    child,      \* per child: its pid, its owner's progress, a refused signal
    reg,        \* OwnedProcessGroups
    phase,      \* the daemon's shutdown
    struck      \* history variable: was a foreign process signalled?

vars == <<kernel, child, reg, phase, struck>>

Leader == [by : Child \cup {Foreign, None}, exited : BOOLEAN, kin : BOOLEAN]

Handle == [pid : Pid \cup {None}, refused : BOOLEAN,
           at : {"new", "spawned", "held", "refused", "killing", "late",
                 "reaped", "dropped", "gone"}]

Registry == [accepting : BOOLEAN,
             groups : [Pid -> Child \cup {None}],   \* groups
             signaled : SUBSET Pid,                 \* shutdown_signaled
             failures : SUBSET Pid,                 \* shutdown_signal_failures
             residue : SUBSET Pid]                  \* reap failures and timeouts

\* State types of every variable.
TypeOK ==
    /\ kernel \in [Pid -> Leader]
    /\ child \in [Child -> Handle]
    /\ reg \in Registry
    /\ phase \in {"serve", "forced", "late", "complete", "incomplete"}
    /\ struck \in BOOLEAN

NoProcess == [by |-> None, exited |-> FALSE, kin |-> FALSE]

Init ==
    /\ kernel = [p \in Pid |-> NoProcess]
    /\ child = [c \in Child |-> [pid |-> None, refused |-> FALSE, at |-> "new"]]
    /\ reg = [accepting |-> TRUE, groups |-> [p \in Pid |-> None],
              signaled |-> {}, failures |-> {}, residue |-> {}]
    /\ phase = "serve"
    /\ struck = FALSE

-----------------------------------------------------------------------------
(* The kernel.                                                             *)

\* kill(-pid, SIGKILL) where it is delivered; ESRCH changes nothing.
Signalled(k) ==
    IF k.by = Foreign THEN NoProcess
    ELSE [k EXCEPT !.exited = k.by # None, !.kin = FALSE]

\* kill(-pid, 0) answers ESRCH: not even a zombie is left of the group.
GroupIsAbsent(p) == kernel[p].by = None /\ ~kernel[p].kin

\* Mutant of Waited: the exit status is cleared to no status at all.
WaitedWithoutStatus(k) == [k EXCEPT !.by = None, !.exited = None]

\* The leader is waited for; its descendants are not.
Waited(k) == [k EXCEPT !.by = None, !.exited = FALSE]

\* A child exits, or spawns a descendant into its group.
ChildExits(p) ==
    /\ kernel[p].by \in Child /\ ~kernel[p].exited
    /\ kernel' = [kernel EXCEPT ![p].exited = TRUE]
    /\ UNCHANGED <<child, reg, phase, struck>>

ChildForks(p) ==
    /\ kernel[p].by \in Child /\ ~kernel[p].exited /\ ~kernel[p].kin
    /\ kernel' = [kernel EXCEPT ![p].kin = TRUE]
    /\ UNCHANGED <<child, reg, phase, struck>>

\* A free pid is reused by somebody else, who ends in turn.
PidIsReused(p) ==
    /\ \/ GroupIsAbsent(p) /\ kernel' = [kernel EXCEPT ![p].by = Foreign]
       \/ kernel[p].by = Foreign /\ kernel' = [kernel EXCEPT ![p] = NoProcess]
    /\ UNCHANGED <<child, reg, phase, struck>>

-----------------------------------------------------------------------------
(* A provider transport, on its supervisor thread.                         *)

Spawn(c, p) ==
    /\ phase \in {"serve", "forced"} /\ child[c].at = "new" /\ GroupIsAbsent(p)
    /\ kernel' = [kernel EXCEPT ![p].by = c]
    /\ child' = [child EXCEPT ![c].at = "spawned", ![c].pid = p]
    /\ UNCHANGED <<reg, phase, struck>>

\* OwnedProcessGroupRegistration::new, its first critical section: registered
\* while admission is open, signalled on the spot once it is closed.  That the
\* child alone is killed as well is ChildExits.
Register(c) ==
    LET p == child[c].pid IN
    /\ child[c].at = "spawned"
    /\ \/ /\ reg.accepting
          /\ reg' = [reg EXCEPT !.groups[p] = c]
          /\ child' = [child EXCEPT ![c].at = "held"]
          /\ UNCHANGED kernel
       \/ /\ ~reg.accepting
          /\ \E delivered \in BOOLEAN :
               /\ kernel' = IF delivered
                              THEN [kernel EXCEPT ![p] = Signalled(@)] ELSE kernel
               /\ reg' = [reg EXCEPT !.signaled = @ \cup {p},
                                     !.failures = IF delivered THEN @ ELSE @ \cup {p}]
               /\ child' = [child EXCEPT ![c].at = "late", ![c].refused = ~delivered]
    /\ UNCHANGED <<phase, struck>>

\* The late child is waited for outside the mutex ...
ReapLate(c) ==
    /\ child[c].at = "late" /\ kernel[child[c].pid].exited
    /\ kernel' = [kernel EXCEPT ![child[c].pid] = Waited(@)]
    /\ child' = [child EXCEPT ![c].at = "reaped"]
    /\ UNCHANGED <<reg, phase, struck>>

\* ... and its outcome recorded in the second critical section: a child whose
\* signal was refused stays on the list, one that was not reaped is a residue.
RecordLate(c) ==
    /\ \/ /\ child[c].at = "reaped"
          /\ reg' = IF child[c].refused THEN reg
                    ELSE [reg EXCEPT !.signaled = @ \ {child[c].pid}]
       \/ /\ child[c].at = "late"
          /\ reg' = [reg EXCEPT !.residue = @ \cup {child[c].pid}]
    /\ child' = [child EXCEPT ![c].at = "gone"]
    /\ UNCHANGED <<kernel, phase, struck>>

\* Mutant of Unregistered: the token is left behind.
StillRegistered(c) == [reg EXCEPT !.groups[child[c].pid] = c]

\* release_locked: only the exact token is removed.
Unregistered(c) ==
    [reg EXCEPT !.groups[child[c].pid] = IF @ = c THEN None ELSE @]

\* try_wait_and_release, and each poll of bounded_reap_and_release_with.
TryWaitAndRelease(c) ==
    /\ child[c].at \in {"held", "killing"} /\ kernel[child[c].pid].exited
    /\ kernel' = [kernel EXCEPT ![child[c].pid] = Waited(@)]
    /\ reg' = Unregistered(c)
    /\ child' = [child EXCEPT ![c].at = "gone"]
    /\ UNCHANGED <<phase, struck>>

\* kill_and_reap: the group of the exact token is signalled; where that is
\* refused the child alone is killed, which may fail as well ...
KillGroup(c) ==
    LET p == child[c].pid
        ours == reg.groups[p] = c IN
    /\ child[c].at = "held"
    /\ \/ /\ kernel' = IF ours THEN [kernel EXCEPT ![p] = Signalled(@)] ELSE kernel
          /\ child' = [child EXCEPT ![c].at = "killing"]
       \/ /\ ours
          /\ kernel' \in {kernel, [kernel EXCEPT ![p].exited = TRUE]}
          /\ child' = [child EXCEPT ![c].at = "refused"]
    /\ UNCHANGED <<reg, phase, struck>>

\* ... and the refusal recorded in a critical section of its own.
RecordRefusal(c) ==
    LET p == child[c].pid IN
    /\ child[c].at = "refused"
    /\ reg' = IF reg.groups[p] = c THEN [reg EXCEPT !.failures = @ \cup {p}] ELSE reg
    /\ child' = [child EXCEPT ![c].at = "killing", ![c].refused = TRUE]
    /\ UNCHANGED <<kernel, phase, struck>>

\* The bounded reap ran out: the guard is dropped, its registration is not.
DropGuard(c) ==
    /\ child[c].at = "killing"
    /\ child' = [child EXCEPT ![c].at = "dropped"]
    /\ UNCHANGED <<kernel, reg, phase, struck>>

-----------------------------------------------------------------------------
(* The daemon's shutdown.                                                  *)

Registered == {p \in Pid : reg.groups[p] # None}

\* The supervisor threads that own the children have ended.
Joined == \A c \in Child : child[c].at \in {"new", "dropped", "gone"}

\* terminate_registered_process_groups, before the forced joins and again
\* after them; a thread that was not joined by then makes the stop incomplete.
Terminate ==
    /\ phase \in {"serve", "forced"}
    /\ \E immune \in SUBSET (Registered \cup reg.signaled) :
         LET hit == (Registered \cup reg.signaled) \ immune IN
         /\ kernel' = [p \in Pid |->
                        IF p \in hit THEN Signalled(kernel[p]) ELSE kernel[p]]
         /\ struck' = (struck \/ \E p \in hit : kernel[p].by = Foreign)
         /\ reg' = [reg EXCEPT !.accepting = FALSE,
                               !.failures = @ \cup
                                  {p \in immune : ~GroupIsAbsent(p)}]
    /\ phase' = IF phase = "serve" THEN "forced"
                ELSE IF Joined THEN "late" ELSE "incomplete"
    /\ UNCHANGED child

\* Mutant of NothingLeft: children spawned too late are forgotten.
NothingRegistered ==
    /\ Registered = {}
    /\ \A p \in reg.failures : GroupIsAbsent(p)

\* every child waited for, every refused signal followed by an absent group
NothingLeft ==
    /\ Registered = {} /\ reg.signaled = {} /\ reg.residue = {}
    /\ \A p \in reg.failures : GroupIsAbsent(p)

\* complete_registered_process_group_shutdown
Complete ==
    /\ phase = "late"
    /\ IF NothingLeft
         THEN /\ reg' = [reg EXCEPT !.accepting = TRUE, !.failures = {}]
              /\ phase' = "complete"
         ELSE /\ reg' = [reg EXCEPT !.accepting = FALSE]
              /\ phase' = "incomplete"
    /\ UNCHANGED <<kernel, child, struck>>

Next ==
    \/ \E p \in Pid : ChildExits(p) \/ ChildForks(p) \/ PidIsReused(p)
    \/ \E c \in Child :
         \/ \E p \in Pid : Spawn(c, p)
         \/ Register(c) \/ ReapLate(c) \/ RecordLate(c)
         \/ TryWaitAndRelease(c) \/ KillGroup(c) \/ RecordRefusal(c)
         \/ DropGuard(c)
    \/ Terminate \/ Complete

Spec == Init /\ [][Next]_vars

-----------------------------------------------------------------------------
(* Properties.                                                             *)

\* What the registry calls a registered group is the child that registered it,
\* alive or not yet waited for: it never names a pid that somebody else may
\* have reused (try_wait_and_release: "The pid cannot become reusable between
\* kernel reap and exact-token removal").
RegisteredGroupIsOurs ==
    \A p \in Pid : reg.groups[p] # None =>
        /\ kernel[p].by = reg.groups[p]
        /\ child[kernel[p].by].pid = p

\* A successful completion is a proof: every child has been waited for, also
\* one that was spawned while admission was closing, and no group that refused
\* a signal is left (complete_registered_process_group_shutdown; "an unkillable
\* group [...] is NODE_DAEMON_DRAIN_INCOMPLETE, never a successful stop").
CompletionIsProof ==
    phase = "complete" =>
        /\ \A p \in Pid : kernel[p].by \notin Child
        /\ \A c \in Child : child[c].refused => ~kernel[child[c].pid].kin

-----------------------------------------------------------------------------
(* The strengthening that makes the two safety invariants inductive.       *)

\* Whoever has not been waited for is still known to its thread, to the
\* registry or to the residue.
UnwaitedIsAccounted ==
    \A c \in Child, p \in Pid : kernel[p].by = c =>
        /\ child[c].pid = p
        /\ \/ child[c].at \in {"spawned", "late"}
           \/ /\ child[c].at \in {"held", "refused", "killing", "dropped"}
              /\ reg.groups[p] = c
           \/ child[c].at = "gone" /\ p \in reg.residue

\* Every spawned child keeps the pid it was spawned with.
SpawnedHasPid == \A c \in Child : child[c].at # "new" => child[c].pid \in Pid

\* Whoever has a guard or awaits its registration has not been waited for.
GuardedIsUnwaited ==
    \A c \in Child :
        child[c].at \in {"spawned", "held", "refused", "killing", "late", "dropped"} =>
            kernel[child[c].pid].by = c

\* Only a child whose registration was accepted is in the registry.
RegisteredIsHeld ==
    \A p \in Pid : reg.groups[p] # None =>
        child[reg.groups[p]].at \in {"held", "refused", "killing", "dropped"}

\* A refused signal is not forgotten before the completion has looked at it.
RefusalIsRecorded ==
    \A c \in Child : child[c].refused =>
        child[c].at # "new" /\ (phase # "complete" => child[c].pid \in reg.failures)

JoinedWhenLate == phase \in {"late", "complete"} => Joined

IndInv ==
    /\ TypeOK
    /\ RegisteredGroupIsOurs
    /\ UnwaitedIsAccounted
    /\ SpawnedHasPid
    /\ GuardedIsUnwaited
    /\ RegisteredIsHeld
    /\ RefusalIsRecorded
    /\ JoinedWhenLate
    /\ CompletionIsProof

-----------------------------------------------------------------------------
(* What the documentation says and the registry does not do.               *)

\* Shutdown never signals a pid after its own child became reusable
\* (multi-team-supervisor-daemon.md: "so shutdown cannot signal a pid after its
\* original child became reusable").
NeverSignalsForeign == ~struck

\* No descendant of a runner is left when the shutdown succeeded
\* (ClaudeRunnerChild: "Owns the runner group so stale Supervisors cannot
\* orphan descendants").
NoDescendantIsOrphaned ==
    phase = "complete" => \A p \in Pid : ~kernel[p].kin

=============================================================================
