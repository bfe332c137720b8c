----------------------------- MODULE NodeDaemon -----------------------------
(***************************************************************************)
(* The NodeDaemon process of one machine and its successors: the threads   *)
(* of firm-node-daemon/src/supervisor_daemon (control socket and serve     *)
(* loop, recovery scanner, control workers, authority heartbeat, one       *)
(* supervisor thread per TeamRun) and the durable state they share through *)
(* firm-store: the machine lease document and, in every Execution Space, a *)
(* TeamSupervisorLease, a RuntimeCommand and an AgentSession lane.         *)
(*                                                                         *)
(* The lease verbs are those of MachineLease, each one atomic here; time   *)
(* is abstracted to whether a lease is still fresh.  An Execution Space    *)
(* holds one TeamRun with one member.  A Store error that the code retries *)
(* changes nothing and is a stuttering step; one that it does not retry is *)
(* an outcome of the call.                                                 *)
(***************************************************************************)
EXTENDS Naturals, FiniteSets

CONSTANTS
    Instance,               \* daemon process instances
    Nobody,                 \* no process
    Space,                  \* registered Execution Spaces
    Kinds,                  \* RuntimeCommand kinds: "message", "provider"
    MaxGeneration,          \* bound on the machine's generations
    ControlStarts,          \* may a client ask a control worker to start a run?
    Mortal,                 \* processes that may crash or be asked to stop
    StoreFails,             \* may a write fail in a way the code does not retry?
    GroupsDieWithDaemon     \* does no provider process group outlive its daemon?

ASSUME NodeDaemonAssumption ==
    /\ Nobody \notin Instance
    /\ Kinds \subseteq {"message", "provider"} /\ Kinds # {}
    /\ MaxGeneration \in Nat
    /\ Mortal \subseteq Instance
    /\ {ControlStarts, StoreFails, GroupsDieWithDaemon} \subseteq BOOLEAN

VARIABLES
    doc,        \* the machine lease document
    sock,       \* whose listener the control socket path names
    node,       \* per process: flags and the serve loop
    pc,         \* per process and background thread: its control point
    job,        \* per process and worker: its bundle in progress
    team,       \* per Space: supervisor lease, command and session lane
    drv         \* per process and Space: the supervisor thread and its group

vars == <<doc, sock, node, pc, job, team, drv>>

Worker == {"scan", "ctl"}
Thread == Worker \cup {"beat"}
Generation == 0..MaxGeneration      \* 0: none yet

Doc  == [gen : Generation, owner : Instance \cup {Nobody}, fresh : BOOLEAN,
         status : {"Absent", "Active", "Draining", "Released"}]

Node == [proc  : {"unborn", "clear", "stale", "up", "gone"},
         lost  : BOOLEAN,           \* authority_lost, process admission closed
         stop  : BOOLEAN,           \* stop_requested
         shut  : BOOLEAN,           \* authority_shutdown
         held  : Generation,        \* confirmed_node_leases
         serve : {"serve", "join", "quiesce", "kill", "forced", "settle",
                  "skip", "drain", "beat", "release", "exit"},
         todo  : SUBSET Space,      \* Spaces the settlement has yet to visit
         clean : BOOLEAN,           \* every phase so far returned Ok
         drained : BOOLEAN,         \* graceful_shutdown returned Ok
         settled : BOOLEAN]         \* so did the settlement of every Space

Job  == [pred : Generation, todo : SUBSET Space, failed : BOOLEAN, newly : BOOLEAN]

Team == [supGen : Generation, sup : {"Released", "Active", "Expired"},
         cmdGen : Generation, cmd : {"settled", "prepared", "unknown"},
         kind : {"message", "provider"},
         laneGen : Generation, resident : BOOLEAN, marked : BOOLEAN]

Drv  == [at : {"none", "idle", "effect", "done"}, gen : Generation,
         valid : BOOLEAN, group : BOOLEAN]

\* State types of every variable.
TypeOK ==
    /\ doc \in Doc
    /\ sock \in Instance \cup {Nobody}
    /\ node \in [Instance -> Node]
    /\ pc \in [Instance -> [Thread ->
                {"idle", "run", "recover", "acquire", "verify", "adopt",
                 "drain", "mark", "ok", "err"}]]
    /\ job \in [Instance -> [Worker -> Job]]
    /\ team \in [Space -> Team]
    /\ drv \in [Instance -> [Space -> Drv]]

NoProcess == [proc |-> "unborn", lost |-> FALSE, stop |-> FALSE, shut |-> FALSE,
              held |-> 0, serve |-> "serve", todo |-> {}, clean |-> TRUE,
              drained |-> TRUE, settled |-> TRUE]
NoThread  == [t \in Thread |-> IF t = "ctl" THEN "idle" ELSE "run"]
NoJob     == [pred |-> 0, todo |-> {}, failed |-> FALSE, newly |-> FALSE]
NoDriver  == [at |-> "none", gen |-> 0, valid |-> FALSE, group |-> FALSE]

Init ==
    /\ doc = [gen |-> 0, owner |-> Nobody, fresh |-> FALSE, status |-> "Absent"]
    /\ sock = Nobody
    /\ node = [i \in Instance |-> NoProcess]
    /\ pc = [i \in Instance |-> NoThread]
    /\ job = [i \in Instance |-> [w \in Worker |-> NoJob]]
    /\ team = [s \in Space |->
                [supGen |-> 0, sup |-> "Released", cmdGen |-> 0,
                 cmd |-> "settled", kind |-> CHOOSE k \in Kinds : TRUE,
                 laneGen |-> 0, resident |-> FALSE, marked |-> FALSE]]
    /\ drv = [i \in Instance |-> [s \in Space |-> NoDriver]]

-----------------------------------------------------------------------------
(* What the code asks of this state.                                       *)

\* what a Store call may return
Outcome == IF StoreFails THEN BOOLEAN ELSE {TRUE}

Up(i) == node[i].proc = "up"

Owns(i) == doc.owner = i

\* daemon_control_generation_authorized
Authorized(i, g) ==
    Owns(i) /\ doc.gen = g /\ doc.status = "Active" /\ doc.fresh

\* the fence of ensure_node_authority_bundle: an unreleased lease of another
\* instance
Blocked(i) == doc.status \in {"Active", "Draining"} /\ ~Owns(i)

\* lease_not_expired and probe_predecessor_process
ProvenDead == ~doc.fresh /\ node[doc.owner].proc = "gone"

Unsettled(s, g) == team[s].cmdGen = g /\ team[s].cmd # "settled"
Unreleased(s, g) == team[s].supGen = g /\ team[s].sup # "Released"

\* Mutant of Ambiguous: a message command is not reconciled either.
AmbiguousAlways(s, g) == Unsettled(s, g)

\* a command whose effect cannot be told from the Space's own rows
Ambiguous(s, g) == Unsettled(s, g) /\ team[s].kind # "message"

InUse(s, g) == team[s].laneGen = g /\ (team[s].resident \/ team[s].marked)

\* Mutant of OwesNothing: commands are not looked at.
OwesNoSupervisor(s, g) == ~Unreleased(s, g)

\* the refusals of settle_node_daemon_shutdown_sessions
OwesNothing(s, g) == ~Unreleased(s, g) /\ ~Unsettled(s, g)

\* Mutant of Detached: the marker is left behind.
DetachedOnly(tm) == [tm EXCEPT !.resident = FALSE]

\* a settled lane: detached, and its incompleteness marker cleared
Detached(tm) == [tm EXCEPT !.resident = FALSE, !.marked = FALSE]

Finished(d) == d.at \in {"none", "done"}

\* the drain_machine_lease of drain_node_authorities; another's lease is skipped
Drained(i) ==
    IF Owns(i) /\ doc.status = "Active"
      THEN [doc EXCEPT !.status = "Draining", !.fresh = TRUE] ELSE doc

\* release_machine_lease
ReleasedDoc == [doc EXCEPT !.status = "Released", !.fresh = FALSE]

\* record_node_daemon_settlement_incomplete in every Space: only the lanes of
\* the generation this process still remembers, and none that is at rest
Marked(i) ==
    [s \in Space |->
        IF node[i].held # 0 /\ team[s].laneGen = node[i].held /\ team[s].resident
          THEN [team[s] EXCEPT !.marked = TRUE] ELSE team[s]]

\* quiesce_served_supervisor_scopes
Quiesced(i) == [s \in Space |-> [drv[i][s] EXCEPT !.valid = FALSE]]

\* latch_machine_authority_loss, up to the published Stop
LatchedNode(i) == [node[i] EXCEPT !.lost = TRUE, !.stop = TRUE]

\* where a thread ends when it has latched, or found the authority lost
EndOf(t) == IF t = "ctl" THEN "idle" ELSE "err"

-----------------------------------------------------------------------------
(* Process start and end (MultiTeamDaemon::run), time, and clients.        *)

\* The socket path is absent, or it answers nobody and
\* ensure_stale_socket_reclaimable finds no live Active lease.
ProbeSocket(i) ==
    /\ node[i].proc = "unborn"
    /\ \/ /\ sock = Nobody
          /\ node' = [node EXCEPT ![i].proc = "clear"]
       \/ /\ sock # Nobody
          /\ ~Up(sock)
          /\ ~(doc.status = "Active" /\ doc.fresh)
          /\ node' = [node EXCEPT ![i].proc = "stale"]
    /\ UNCHANGED <<doc, sock, pc, job, team, drv>>

\* remove_file of the path that was seen stale.  The path is not looked at
\* again: what is removed is what is there now.
RemoveSocket(i) ==
    /\ node[i].proc = "stale" /\ sock # Nobody
    /\ sock' = Nobody
    /\ node' = [node EXCEPT ![i].proc = "clear"]
    /\ UNCHANGED <<doc, pc, job, team, drv>>

BindSocket(i) ==
    /\ node[i].proc = "clear" /\ sock = Nobody
    /\ sock' = i
    /\ node' = [node EXCEPT ![i].proc = "up"]
    /\ UNCHANGED <<doc, pc, job, team, drv>>

\* The path appeared, or disappeared, in between: run returns its error.
BindFails(i) ==
    /\ \/ node[i].proc = "clear" /\ sock # Nobody
       \/ node[i].proc = "stale" /\ sock = Nobody
    /\ node' = [node EXCEPT ![i].proc = "gone"]
    /\ UNCHANGED <<doc, sock, pc, job, team, drv>>

\* Nothing of a process outlives it but its durable rows and, unless they die
\* with it, its provider process groups.
Ended(i) ==
    /\ node' = [node EXCEPT ![i] = [NoProcess EXCEPT !.proc = "gone"]]
    /\ pc' = [pc EXCEPT ![i] = NoThread]
    /\ job' = [job EXCEPT ![i] = [w \in Worker |-> NoJob]]
    /\ drv' = [drv EXCEPT ![i] = [s \in Space |->
                 IF drv[i][s].group /\ ~GroupsDieWithDaemon
                   THEN [drv[i][s] EXCEPT !.at = "none", !.valid = FALSE]
                   ELSE NoDriver]]

Crash(i) ==
    /\ i \in Mortal /\ Up(i)
    /\ Ended(i)
    /\ UNCHANGED <<doc, sock, team>>

\* SIGTERM, SIGINT or an accepted stop command.
RequestStop(i) ==
    /\ i \in Mortal /\ Up(i) /\ ~node[i].stop
    /\ node' = [node EXCEPT ![i].stop = TRUE]
    /\ UNCHANGED <<doc, sock, pc, job, team, drv>>

\* poll_control_socket hands a start command to a control worker.
AcceptStart(i) ==
    /\ ControlStarts
    /\ Up(i) /\ node[i].serve = "serve" /\ sock = i
    /\ pc[i]["ctl"] = "idle"
    /\ pc' = [pc EXCEPT ![i]["ctl"] = "run"]
    /\ UNCHANGED <<doc, sock, node, job, team, drv>>

\* No renewal came in time.
Expire ==
    /\ doc.status \in {"Active", "Draining"} /\ doc.fresh
    /\ doc' = [doc EXCEPT !.fresh = FALSE]
    /\ UNCHANGED <<sock, node, pc, job, team, drv>>

ExpireSupervisor(s) ==
    /\ team[s].sup = "Active"
    /\ team' = [team EXCEPT ![s].sup = "Expired"]
    /\ UNCHANGED <<doc, sock, node, pc, job, drv>>

\* resolve_runtime_command_recovery, by the Operator from another process: a
\* command in recovery, or a prepared one whose supervisor lost its lease, and
\* a NodeDaemon lease that is Active and unexpired at that moment.
Resolve(s) ==
    /\ doc.status = "Active" /\ doc.fresh
    /\ \/ team[s].cmd = "unknown"
       \/ team[s].cmd = "prepared"
            /\ ~(team[s].sup = "Active" /\ team[s].supGen = team[s].cmdGen)
    /\ team' = [team EXCEPT ![s].cmd = "settled"]
    /\ UNCHANGED <<doc, sock, node, pc, job, drv>>

-----------------------------------------------------------------------------
(* The authority bundle: ensure_node_authority_bundle, run by the scanner  *)
(* and, for an explicit start, by a control worker.                        *)

Latch(i, t) ==
    /\ node' = [node EXCEPT ![i] = LatchedNode(i)]
    /\ pc' = [pc EXCEPT ![i][t] = "drain"]

\* The machine question is asked once.  An unreleased predecessor whose death
\* is proven is recovered first; otherwise the acquire will refuse.
BeginBundle(i, w) ==
    /\ Up(i) /\ pc[i][w] = "run" /\ ~node[i].lost
    /\ w = "scan" => ~node[i].stop
    /\ IF Blocked(i) /\ ProvenDead
         THEN /\ pc' = [pc EXCEPT ![i][w] = "recover"]
              /\ job' = [job EXCEPT ![i][w] =
                           [NoJob EXCEPT !.pred = doc.gen, !.todo = Space]]
         ELSE /\ pc' = [pc EXCEPT ![i][w] = "acquire"]
              /\ job' = [job EXCEPT ![i][w] = NoJob]
    /\ UNCHANGED <<doc, sock, node, team, drv>>

\* what the recovery of generation g leaves of Space s
RecoveredTeam(s, g) ==
    LET tm == IF InUse(s, g) THEN Detached(team[s]) ELSE team[s]
    IN  [tm EXCEPT !.cmd = IF Unsettled(s, g) THEN "settled" ELSE @,
                   !.sup = IF Unreleased(s, g) THEN "Released" ELSE @]

\* settle_node_daemon_predecessor_in_space: the exact unreleased predecessor,
\* message commands reconciled, every other command already settled; then its
\* supervisor is released and its lane detached, the marker with it.
RecoverSpace(i, w, s) ==
    /\ Up(i) /\ pc[i][w] = "recover" /\ s \in job[i][w].todo
    /\ \E stored \in Outcome :
       LET g == job[i][w].pred
           stale == doc.gen # g \/ (doc.status # "Released" /\ doc.fresh)
           refused == ~stored \/ stale \/ Ambiguous(s, g)
       IN /\ team' =
               IF refused \/ doc.status = "Released" THEN team
               ELSE [team EXCEPT ![s] = RecoveredTeam(s, g)]
          /\ job' = [job EXCEPT ![i][w] =
                      [@ EXCEPT !.todo = job[i][w].todo \ {s},
                                !.failed = job[i][w].failed \/ refused]]
    /\ UNCHANGED <<doc, sock, node, pc, drv>>

\* Mutant of EverySpaceSettled: the failures are not looked at.
AnySpaceSettled(i, w) == job[i][w].pred # 0

EverySpaceSettled(i, w) == ~job[i][w].failed

\* recover_predecessor_generation_across_spaces: one Released for the machine,
\* and only when no Space failed.
PublishRecovery(i, w) ==
    /\ Up(i) /\ pc[i][w] = "recover" /\ job[i][w].todo = {}
    /\ \E stored \in Outcome :
       LET ok == EverySpaceSettled(i, w) /\ doc.gen = job[i][w].pred /\ stored
       IN /\ doc' = IF ok THEN ReleasedDoc ELSE doc
          /\ job' = [job EXCEPT ![i][w] = [@ EXCEPT !.newly = ok]]
    /\ pc' = [pc EXCEPT ![i][w] = "acquire"]
    /\ UNCHANGED <<sock, node, team, drv>>

\* Mutant of FreeMachine: the counter's limit is not looked at.
FreeUnbounded == doc.status \in {"Absent", "Released"}

\* Mutant of FreeMachine: so does a lease that expired.
FreeExpired ==
    (doc.status \in {"Absent", "Released"} \/ ~doc.fresh) /\ doc.gen < MaxGeneration

\* only an explicit Released, or no document, lets a new generation in
FreeMachine == doc.status \in {"Absent", "Released"} /\ doc.gen < MaxGeneration

\* acquire_machine_authority: confirm the lease this instance holds, or take
\* the next generation of a released machine; a refusal latches.
Acquire(i, w) ==
    /\ Up(i) /\ pc[i][w] = "acquire"
    /\ LET g == IF FreeMachine THEN doc.gen + 1 ELSE doc.gen
       IN IF FreeMachine \/ Authorized(i, doc.gen)
            THEN /\ doc' = IF FreeMachine
                             THEN [gen |-> g, owner |-> i, fresh |-> TRUE,
                                   status |-> "Active"]
                             ELSE doc
                 /\ node' = [node EXCEPT ![i].held = g]
                 /\ job' = [job EXCEPT ![i][w] = [@ EXCEPT !.pred = g]]
                 /\ pc' = [pc EXCEPT ![i][w] = "verify"]
            ELSE Latch(i, w) /\ UNCHANGED <<doc, job>>
    /\ UNCHANGED <<sock, team, drv>>

\* rollback_unused_bundle_leases
RolledBack(i, w) ==
    IF job[i][w].newly /\ doc.gen = job[i][w].pred THEN ReleasedDoc ELSE doc

\* The final revalidation: it confirms, refuses, or its read fails.
Verify(i, w) ==
    /\ Up(i) /\ pc[i][w] = "verify"
    /\ \/ /\ Authorized(i, job[i][w].pred)
          /\ pc' = [pc EXCEPT ![i][w] = "adopt"]
          /\ UNCHANGED <<doc, node>>
       \/ /\ ~Authorized(i, job[i][w].pred)
          /\ doc' = RolledBack(i, w)
          /\ Latch(i, w)
       \/ /\ doc' = RolledBack(i, w)
          /\ pc' = [pc EXCEPT ![i][w] = IF w = "scan" THEN "run" ELSE "idle"]
          /\ UNCHANGED node
    /\ UNCHANGED <<sock, job, team, drv>>

\* supervisor_start_gate: a control worker holds it from its bundle on.
StartGateFree(i, w) == w = "scan" => pc[i]["ctl"] \in {"idle", "run"}

\* start_supervising: under the machine's authority, a run that no thread and
\* no live supervisor lease drives; the lane is reattached to this generation.
Supervise(i, w, s) ==
    /\ Up(i) /\ pc[i][w] = "adopt" /\ StartGateFree(i, w)
    /\ ~node[i].lost /\ Authorized(i, doc.gen)
    /\ drv[i][s].at = "none" /\ team[s].sup # "Active"
    /\ team[s].laneGen = doc.gen \/ ~InUse(s, team[s].laneGen)
    /\ team' = [team EXCEPT ![s] =
                 [@ EXCEPT !.supGen = doc.gen, !.sup = "Active", !.laneGen = doc.gen]]
    /\ drv' = [drv EXCEPT ![i][s] = [at |-> "idle", gen |-> doc.gen,
                                     valid |-> TRUE, group |-> FALSE]]
    /\ pc' = IF w = "ctl" THEN [pc EXCEPT ![i]["ctl"] = "idle"] ELSE pc
    /\ UNCHANGED <<doc, sock, node, job>>

\* The scan is over, or the start is refused and answered.
LeaveAdopt(i, w) ==
    /\ Up(i) /\ pc[i][w] = "adopt"
    /\ pc' = [pc EXCEPT ![i][w] = IF w = "scan" THEN "run" ELSE "idle"]
    /\ UNCHANGED <<doc, sock, node, job, team, drv>>

\* Mutant of Reapable: a thread that still runs is taken for finished.
ReapIdle(d) == d.at # "none"

\* JoinHandle::is_finished
Reapable(d) == d.at = "done"

\* reap_finished
Reap(i, s) ==
    /\ Up(i) /\ pc[i]["scan"] = "run" /\ ~node[i].stop
    /\ Reapable(drv[i][s])
    /\ drv' = [drv EXCEPT ![i][s] = NoDriver]
    /\ UNCHANGED <<doc, sock, node, pc, job, team>>

\* The scanner ends: with Ok on a stop it sees first, with an error when it
\* finds the authority lost or can no longer list the Spaces.  A control
\* worker that finds it lost answers with the refusal.
EndWorker(i, w) ==
    /\ Up(i)
    /\ \/ /\ w = "scan" /\ pc[i][w] = "run" /\ node[i].stop
          /\ pc' = [pc EXCEPT ![i][w] = "ok"]
       \/ /\ pc[i][w] = "run" /\ node[i].lost
          /\ pc' = [pc EXCEPT ![i][w] = EndOf(w)]
       \/ /\ w = "scan" /\ pc[i][w] = "adopt"
          /\ pc' = [pc EXCEPT ![i][w] = "err"]
    /\ UNCHANGED <<doc, sock, node, job, team, drv>>

-----------------------------------------------------------------------------
(* The rest of latch_machine_authority_loss, on whichever thread latched,  *)
(* and the heartbeat (run_held_node_authorities, renew_held_node_lease).   *)

LatchDrain(i, t) ==
    /\ Up(i) /\ pc[i][t] = "drain"
    /\ \E stored \in Outcome : doc' = IF stored THEN Drained(i) ELSE doc
    /\ pc' = [pc EXCEPT ![i][t] = "mark"]
    /\ UNCHANGED <<sock, node, job, team, drv>>

LatchMark(i, t) ==
    /\ Up(i) /\ pc[i][t] = "mark"
    /\ drv' = [drv EXCEPT ![i] = Quiesced(i)]
    /\ team' = Marked(i)
    /\ pc' = [pc EXCEPT ![i][t] = EndOf(t)]
    /\ UNCHANGED <<doc, sock, node, job>>

\* The lease expired, or it is no longer this instance's generation.
RenewalRefused(i) ==
    ~Owns(i) \/ doc.gen # node[i].held \/ (doc.status = "Active" /\ ~doc.fresh)

\* A renewal that succeeds keeps a fresh lease fresh; this one does not.
BeatLoses(i) ==
    /\ Up(i) /\ pc[i]["beat"] = "run" /\ ~node[i].shut /\ node[i].held # 0
    /\ RenewalRefused(i)
    /\ Latch(i, "beat")
    /\ UNCHANGED <<doc, sock, job, team, drv>>

\* The document says this generation is draining or released: every held entry
\* of it is dropped.
BeatDrops(i) ==
    /\ Up(i) /\ pc[i]["beat"] = "run" /\ ~node[i].shut /\ node[i].held # 0
    /\ Owns(i) /\ doc.gen = node[i].held /\ doc.status \in {"Draining", "Released"}
    /\ node' = [node EXCEPT ![i].held = 0]
    /\ UNCHANGED <<doc, sock, pc, job, team, drv>>

BeatEnds(i) ==
    /\ Up(i) /\ pc[i]["beat"] = "run" /\ node[i].shut
    /\ pc' = [pc EXCEPT ![i]["beat"] = "ok"]
    /\ UNCHANGED <<doc, sock, node, job, team, drv>>

-----------------------------------------------------------------------------
(* A supervisor thread: drive, its heartbeat, and the drop of its          *)
(* TeamSupervisorRegistration.                                             *)

\* prepare_runtime_command (require_current_node_daemon_unlocked) and the
\* provider effect it admits: an open process admission, the exact Active and
\* unexpired generation, a live supervisor scope and no unresolved command.
Prepare(i, s, k) ==
    /\ Up(i) /\ drv[i][s].at = "idle" /\ drv[i][s].valid
    /\ ~node[i].lost /\ Authorized(i, drv[i][s].gen)
    /\ team[s].sup = "Active" /\ team[s].supGen = drv[i][s].gen
    /\ team[s].cmd = "settled"
    /\ team' = [team EXCEPT ![s] =
                 [@ EXCEPT !.cmdGen = doc.gen, !.cmd = "prepared", !.kind = k,
                           !.resident = TRUE]]
    /\ drv' = [drv EXCEPT ![i][s] =
                 [@ EXCEPT !.at = "effect", !.group = drv[i][s].group \/ k = "provider"]]
    /\ UNCHANGED <<doc, sock, node, pc, job>>

\* require_node_daemon_settlement_authority_unlocked
MaySettle(g) == doc.gen = g /\ doc.status \in {"Active", "Draining"}

\* The command the thread prepared is still its own: the Operator has not
\* resolved it.
Drives(i, s) == team[s].cmd = "prepared" /\ team[s].cmdGen = drv[i][s].gen

\* mark_prepared_runtime_command_recovery: under no lease at all
FailedClosed(tm) == [tm EXCEPT !.cmd = "unknown"]

\* What an effect that returned leaves of its Space: a receipt settles the
\* command under settlement authority, an admission dropped without one fails
\* it closed, and a drop whose read or write fails leaves it prepared, with
\* nobody to settle it.
Returned(i, s) ==
    {FailedClosed(team[s])}
        \cup {tm \in {[team[s] EXCEPT !.cmd = "settled"]} : MaySettle(drv[i][s].gen)}
        \cup {tm \in {team[s]} : StoreFails}

\* The effect returns, and with it the admission is dropped.
Finish(i, s) ==
    /\ Up(i) /\ drv[i][s].at = "effect"
    /\ \E tm \in Returned(i, s) :
         team' = IF Drives(i, s) THEN [team EXCEPT ![s] = tm] ELSE team
    /\ drv' = [drv EXCEPT ![i][s] = [@ EXCEPT !.at = "idle"]]
    /\ UNCHANGED <<doc, sock, node, pc, job>>

\* run_supervisor_heartbeat_loop: renew_team_supervisor_lease is refused.
LoseScope(i, s) ==
    /\ Up(i) /\ drv[i][s].at \in {"idle", "effect"} /\ drv[i][s].valid
    /\ \/ ~Authorized(i, drv[i][s].gen)
       \/ ~(team[s].sup = "Active" /\ team[s].supGen = drv[i][s].gen)
    /\ drv' = [drv EXCEPT ![i][s] = [@ EXCEPT !.valid = FALSE]]
    /\ UNCHANGED <<doc, sock, node, pc, job, team>>

\* The thread returns and drops its provider handles and its registration; a
\* release of the supervisor lease that fails is ignored.
ThreadExit(i, s) ==
    /\ Up(i) /\ drv[i][s].at = "idle"
    /\ drv' = [drv EXCEPT ![i][s] =
                 [@ EXCEPT !.at = "done", !.valid = FALSE, !.group = FALSE]]
    /\ \/ team' = IF Unreleased(s, drv[i][s].gen)
                    THEN [team EXCEPT ![s].sup = "Released"] ELSE team
       \/ team' = team
    /\ UNCHANGED <<doc, sock, node, pc, job>>

-----------------------------------------------------------------------------
(* The serve loop (serve_loop, graceful_shutdown_with_deadlines).          *)

\* A stop, or the end of either background thread, ends control ingress.
LeaveServing(i) ==
    /\ Up(i) /\ node[i].serve = "serve"
    /\ node[i].stop \/ pc[i]["scan"] \in {"ok", "err"} \/ pc[i]["beat"] = "err"
    /\ node' = [node EXCEPT ![i] = [@ EXCEPT !.stop = TRUE, !.serve = "join"]]
    /\ UNCHANGED <<doc, sock, pc, job, team, drv>>

\* Mutant of JoinWorkers: a scanner that ended with an error is waited for.
JoinCleanScan(i) ==
    /\ Up(i) /\ node[i].serve = "join"
    /\ pc[i]["ctl"] = "idle" /\ pc[i]["scan"] = "ok"
    /\ node' = [node EXCEPT ![i].serve = "quiesce"]
    /\ UNCHANGED <<doc, sock, pc, job, team, drv>>

\* Every control worker and the scanner are joined; either may have overrun
\* its bound, which makes the stop incomplete.
JoinWorkers(i) ==
    /\ Up(i) /\ node[i].serve = "join"
    /\ pc[i]["ctl"] = "idle" /\ pc[i]["scan"] \in {"ok", "err"}
    /\ \E inTime \in BOOLEAN :
         node' = [node EXCEPT ![i] =
                   [@ EXCEPT !.serve = "quiesce",
                             !.clean = inTime /\ pc[i]["scan"] = "ok"]]
    /\ UNCHANGED <<doc, sock, pc, job, team, drv>>

Quiesce(i) ==
    /\ Up(i) /\ node[i].serve = "quiesce"
    /\ drv' = [drv EXCEPT ![i] = Quiesced(i)]
    /\ node' = [node EXCEPT ![i].serve = "kill"]
    /\ UNCHANGED <<doc, sock, pc, job, team>>

\* The cooperative deadline has passed, or everyone is done:
\* terminate_registered_process_groups, some of whose signals may fail.
KillGroups(i) ==
    /\ Up(i) /\ node[i].serve = "kill"
    /\ \E immune \in SUBSET {s \in Space : drv[i][s].group} :
         drv' = [drv EXCEPT ![i] = [s \in Space |->
                   [drv[i][s] EXCEPT !.group = s \in immune]]]
    /\ node' = [node EXCEPT ![i].serve = "forced"]
    /\ UNCHANGED <<doc, sock, pc, job, team>>

\* Every supervisor thread has joined and no registered group is left; whose
\* lease it is decides between settlement and record.
DrainConverged(i) ==
    /\ Up(i) /\ node[i].serve = "forced"
    /\ \A s \in Space : Finished(drv[i][s]) /\ ~drv[i][s].group
    /\ node' = [node EXCEPT ![i] =
                 [@ EXCEPT !.serve = IF doc.status = "Absent" THEN "drain"
                                     ELSE IF Owns(i) THEN "settle" ELSE "skip",
                           !.todo = Space]]
    /\ UNCHANGED <<doc, sock, pc, job, team, drv>>

\* The forced deadline passed first: no settlement and no drain, but the lanes
\* this generation leaves behind are marked.
DrainIncomplete(i) ==
    /\ Up(i) /\ node[i].serve = "forced"
    /\ \E s \in Space : ~Finished(drv[i][s]) \/ drv[i][s].group
    /\ team' = Marked(i)
    /\ node' = [node EXCEPT ![i] =
                 [@ EXCEPT !.serve = "beat", !.clean = FALSE, !.drained = FALSE]]
    /\ UNCHANGED <<doc, sock, pc, job, drv>>

\* settle_node_daemon_shutdown_sessions in one Space.
SettleSpace(i, s) ==
    /\ Up(i) /\ node[i].serve = "settle" /\ s \in node[i].todo
    /\ \E stored \in Outcome :
       LET ok == /\ Owns(i) /\ doc.status \in {"Active", "Draining"}
                 /\ OwesNothing(s, doc.gen) /\ stored
       IN /\ team' = IF ok /\ InUse(s, doc.gen)
                       THEN [team EXCEPT ![s] = Detached(@)] ELSE team
          /\ node' = [node EXCEPT ![i] =
                       [@ EXCEPT !.todo = node[i].todo \ {s},
                                 !.clean = node[i].clean /\ ok,
                                 !.settled = node[i].settled /\ ok]]
    /\ UNCHANGED <<doc, sock, pc, job, drv>>

\* Settlement is skipped: the lanes are recorded instead.
SkipSettlement(i) ==
    /\ Up(i) /\ node[i].serve = "skip"
    /\ team' = Marked(i)
    /\ node' = [node EXCEPT ![i] = [@ EXCEPT !.serve = "drain", !.todo = {}]]
    /\ UNCHANGED <<doc, sock, pc, job, drv>>

\* A settlement that failed anywhere keeps the generation from draining.
EndSettlement(i) ==
    /\ Up(i) /\ node[i].serve = "settle" /\ node[i].todo = {}
    /\ node' = [node EXCEPT ![i].serve =
                  IF node[i].settled THEN "drain" ELSE "beat"]
    /\ UNCHANGED <<doc, sock, pc, job, team, drv>>

\* drain_node_authorities; draining what is already released is an error.
DrainAuthority(i) ==
    /\ Up(i) /\ node[i].serve = "drain"
    /\ \E stored \in Outcome :
         /\ doc' = IF stored THEN Drained(i) ELSE doc
         /\ node' = [node EXCEPT ![i] =
              [@ EXCEPT !.serve = "beat",
                        !.clean = /\ node[i].clean /\ stored
                                  /\ ~(Owns(i) /\ doc.status = "Released")]]
    /\ UNCHANGED <<sock, pc, job, team, drv>>

\* Mutant of ShutAuthority: the flag is not published.
ShutNothing(i) ==
    /\ Up(i) /\ node[i].serve = "beat" /\ ~node[i].shut
    /\ UNCHANGED vars

\* authority_shutdown, then the heartbeat is joined.
ShutAuthority(i) ==
    /\ Up(i) /\ node[i].serve = "beat" /\ ~node[i].shut
    /\ node' = [node EXCEPT ![i].shut = TRUE]
    /\ UNCHANGED <<doc, sock, pc, job, team, drv>>

\* Mutant of MayRelease: only the heartbeat is looked at.
ReleaseAnyway(i) == pc[i]["beat"] = "ok"

\* Every phase of the shutdown, and the heartbeat, returned Ok.
MayRelease(i) == node[i].clean /\ pc[i]["beat"] = "ok"

JoinBeat(i) ==
    /\ Up(i) /\ node[i].serve = "beat" /\ node[i].shut
    /\ pc[i]["beat"] \in {"ok", "err"}
    /\ node' = [node EXCEPT ![i].serve =
                  IF MayRelease(i) THEN "release" ELSE "exit"]
    /\ UNCHANGED <<doc, sock, pc, job, team, drv>>

\* release_node_authorities
Release(i) ==
    /\ Up(i) /\ node[i].serve = "release"
    /\ \E stored \in Outcome :
         doc' = IF Owns(i) /\ stored THEN ReleasedDoc ELSE doc
    /\ node' = [node EXCEPT ![i].serve = "exit"]
    /\ UNCHANGED <<sock, pc, job, team, drv>>

\* run returns: the socket path is removed, whoever bound it last.
Exit(i) ==
    /\ Up(i) /\ node[i].serve = "exit"
    /\ sock' = Nobody
    /\ Ended(i)
    /\ UNCHANGED <<doc, team>>

-----------------------------------------------------------------------------

WorkerStep(i, w) ==
    \/ BeginBundle(i, w) \/ PublishRecovery(i, w) \/ Acquire(i, w)
    \/ Verify(i, w) \/ LeaveAdopt(i, w) \/ EndWorker(i, w)
    \/ LatchDrain(i, w) \/ LatchMark(i, w)
    \/ \E s \in Space : RecoverSpace(i, w, s) \/ Supervise(i, w, s)

BeatStep(i) ==
    \/ BeatLoses(i) \/ BeatDrops(i) \/ BeatEnds(i)
    \/ LatchDrain(i, "beat") \/ LatchMark(i, "beat")

ServeStep(i) ==
    \/ LeaveServing(i) \/ JoinWorkers(i) \/ Quiesce(i) \/ KillGroups(i)
    \/ DrainConverged(i) \/ DrainIncomplete(i) \/ SkipSettlement(i)
    \/ EndSettlement(i) \/ DrainAuthority(i) \/ ShutAuthority(i)
    \/ JoinBeat(i) \/ Release(i) \/ Exit(i)
    \/ \E s \in Space : SettleSpace(i, s)

DriverStep(i, s) ==
    \/ \E k \in Kinds : Prepare(i, s, k)
    \/ Finish(i, s) \/ LoseScope(i, s) \/ ThreadExit(i, s)

Environment ==
    \/ \E i \in Instance :
         \/ ProbeSocket(i) \/ RemoveSocket(i) \/ BindSocket(i) \/ BindFails(i)
         \/ Crash(i) \/ RequestStop(i) \/ AcceptStart(i)
    \/ \E s \in Space : ExpireSupervisor(s) \/ Resolve(s)
    \/ Expire

Next ==
    \/ Environment
    \/ \E i \in Instance :
         \/ \E w \in Worker : WorkerStep(i, w)
         \/ BeatStep(i) \/ ServeStep(i)
         \/ \E s \in Space : Reap(i, s) \/ DriverStep(i, s)

Spec == Init /\ [][Next]_vars

\* What the code's scheduling gives: the threads of a live process run, and
\* time passes.  Nothing is asked of providers, clients or operators; a
\* supervisor thread may hang for ever.
Fairness ==
    /\ \A i \in Instance :
         /\ WF_vars(RemoveSocket(i) \/ BindSocket(i) \/ BindFails(i))
         /\ \A w \in Worker : WF_vars(WorkerStep(i, w))
         /\ WF_vars(BeatStep(i)) /\ WF_vars(ServeStep(i))
    /\ WF_vars(Expire)

FairSpec == Spec /\ Fairness

\* The same with an Operator who resolves every command that can be.
OperatorSpec == FairSpec /\ \A s \in Space : WF_vars(Resolve(s))

-----------------------------------------------------------------------------
(* Properties.                                                             *)

FinishedGeneration(g) ==
    g # 0 /\ (g < doc.gen \/ (g = doc.gen /\ doc.status = "Released"))

\* No generation is released, by its own shutdown, by a rolled-back bundle or
\* by a successor's recovery, while any Space still owes it something: an
\* unsettled command, a supervisor lease, an attached or marked lane
\* (require_node_daemon_settlement_unlocked: "no generation may be released
\* while one of its Sessions or RuntimeCommands is still unsettled").
FinishedGenerationOwesNothing ==
    \A s \in Space, g \in 1..doc.gen :
        FinishedGeneration(g) =>
            ~Unsettled(s, g) /\ ~Unreleased(s, g) /\ ~InUse(s, g)

\* One driver per machine: a supervisor thread or a provider process group of
\* an instance is live only while the machine lease still names that instance
\* and generation as unreleased, so a successor's effects never overlap it
\* (serve_loop: "prevents a successor generation from overlapping an accepted
\* mutation that already crossed prepare").
EffectsStayUnderTheirLease ==
    \A i \in Instance, s \in Space :
        drv[i][s].at \in {"idle", "effect"} \/ drv[i][s].group =>
            Owns(i) /\ doc.gen = drv[i][s].gen /\ doc.status # "Released"

\* A marker never outlives what it records: a marked lane is one that is still
\* attached (ADR 0073: "By construction a marked lane is also non-detached").
MarkedLaneIsAttached ==
    \A s \in Space : team[s].marked => team[s].resident

\* While an effect is under way its command is its thread's alone: whatever
\* stops, is reaped, killed, latched, handed over or recovered around it, only
\* the thread's own return, the Operator or the death of the process takes the
\* command from it or replaces it (ProviderEffectAdmission::drop,
\* reap_finished, graceful_shutdown_with_deadlines).
EffectKeepsItsCommand ==
    [][\A i \in Instance, s \in Space :
         drv[i][s].at = "effect" /\ Drives(i, s) =>
            \/ Finish(i, s) \/ Resolve(s) \/ ~Up(i)'
            \/ drv'[i][s].at = "effect" /\ Drives(i, s)']_vars

\* A supervisor thread that has not returned.
Live(d) == d.at \in {"idle", "effect"}

\* Space s owes nothing to generation g.
Clear(s, g) == ~Unsettled(s, g) /\ ~Unreleased(s, g) /\ ~InUse(s, g)

\* Space s has work of generation g: rows that owe it something, or a thread or
\* a provider group of a live process.
Pending(s, g) ==
    \/ ~Clear(s, g)
    \/ \E i \in Instance :
         Up(i) /\ drv[i][s].gen = g /\ (Live(drv[i][s]) \/ drv[i][s].group)

\* The work that finished generations left behind.
LeftBehind ==
    {p \in Space \X (1..doc.gen) : FinishedGeneration(p[2]) /\ Pending(p[1], p[2])}

\* rollback_unused_bundle_leases
RollsBack == \E i \in Instance, w \in Worker : Verify(i, w) /\ doc' # doc

\* Whatever is overtaken, and however many bundles a process runs at once, only
\* the rollback of a bundle lets a generation go with work in a Space: no
\* shutdown does, no recovery of a dead predecessor, and nothing is begun, or
\* owed anew, under a generation that was let go, though its threads may still
\* run (require_node_daemon_settlement_unlocked, prepare_runtime_command).
OnlyRollbackLeavesWork ==
    [][LeftBehind' \subseteq LeftBehind \/ RollsBack]_vars

\* Every stop ends the process, though supervisor threads hang, signals fail
\* and either background thread may already have died: no join of serve_loop
\* waits for a thread that waits for it.
StopTerminates ==
    \A i \in Instance : (Up(i) /\ node[i].stop) ~> ~Up(i)

\* A daemon whose lease expired never keeps running on it: the heartbeat
\* latches and the process stops, or another thread found out first
\* (renew_held_node_lease).
ExpiredAuthorityEndsDaemon ==
    \A i \in Instance :
        (Up(i) /\ Owns(i) /\ doc.status = "Active" /\ ~doc.fresh) ~> ~Up(i)

\* A dead predecessor does not fence the machine for ever: a successor whose
\* scan finds it expired and dead, with no ambiguous command, moves the
\* machine to another generation, whatever lanes, markers and supervisor
\* leases it left behind (recover_proven_dead_predecessor).
DeadPredecessorIsRecovered ==
    \A i \in Instance \ Mortal, g \in 1..MaxGeneration :
        /\ Up(i) /\ pc[i]["scan"] = "run" /\ ~node[i].stop
        /\ Blocked(i) /\ ProvenDead /\ doc.gen = g
        /\ \A s \in Space : Unsettled(s, g) => team[s].kind = "message"
        ~> doc.gen # g

\* An Operator who keeps trying can settle the ambiguous command of a daemon
\* that died (operations.md: "ambiguous RuntimeCommands stay operator-gated").
OperatorResolves ==
    \A s \in Space, g \in 1..MaxGeneration :
        (Unsettled(s, g) /\ doc.gen = g /\ node[doc.owner].proc = "gone")
            ~> ~Unsettled(s, g)

\* The lanes of a generation whose drain did not converge are on record when
\* the process ends (serve_loop: "the lanes it owned must not vanish from the
\* record").
DrainIncompleteIsOnRecord ==
    \A i \in Instance, s \in Space :
        /\ Up(i) /\ node[i].serve = "exit" /\ ~node[i].drained
        /\ Owns(i) /\ InUse(s, doc.gen)
        => team[s].marked

\* So are the lanes of a generation that could not settle them
\* (operations.md: "A generation that cannot settle its own lanes says so
\* rather than leaving them unreadable").
UnsettledLaneIsOnRecord ==
    \A i \in Instance, s \in Space :
        /\ Up(i) /\ node[i].serve = "exit" /\ ~node[i].settled
        /\ Owns(i) /\ InUse(s, doc.gen)
        => team[s].marked

\* The socket path is not taken from a process that holds the machine under a
\* live lease, except by its own exit (ensure_stale_socket_reclaimable).
RendezvousIsKept ==
    [][\A i \in Instance :
         /\ sock = i /\ sock' # i
         /\ Owns(i) /\ doc.status = "Active" /\ doc.fresh
         => node'[i].proc = "gone"]_vars

-----------------------------------------------------------------------------
(* What the safety properties rest on: together, an inductive invariant,   *)
(* whatever is overtaken.                                                  *)

\* The document is absent until it has an owner, whose process has begun; what
\* an owner remembers is the generation it owns.
OwnerIsKnown ==
    /\ doc.status = "Absent" <=> doc.owner = Nobody
    /\ doc.status = "Absent" <=> doc.gen = 0
    /\ \A i \in Instance :
         Owns(i) => node[i].proc \in {"up", "gone"}
                    /\ (Up(i) => node[i].held \in {0, doc.gen})

\* No row and no bundle is ahead of the document.
GenerationsAreBehind ==
    /\ \A s \in Space : /\ team[s].supGen <= doc.gen /\ team[s].cmdGen <= doc.gen
                        /\ team[s].laneGen <= doc.gen
    /\ \A i \in Instance, w \in Worker : job[i][w].pred <= doc.gen

\* A thread is of a live process and of a generation that was granted; one of
\* the current generation drives under the owner's lease and its rows.  A group
\* has a thread that drives it, until its process is gone.
DriverFits(i, s) ==
    LET d == drv[i][s] IN
    /\ d.group => Live(d) \/ node[i].proc = "gone"
    /\ Live(d) => Up(i) /\ d.gen <= doc.gen
    /\ Live(d) /\ d.gen = doc.gen =>
         Owns(i) /\ team[s].supGen = d.gen /\ team[s].laneGen = d.gen

\* The threads of one generation are of one process.
OneDriverPerGeneration ==
    \A i, j \in Instance, s, r \in Space :
        Live(drv[i][s]) /\ Live(drv[j][r]) /\ drv[i][s].gen = drv[j][r].gen => i = j

\* A recovery is of a generation whose owner is dead, and has cleared the Spaces
\* it is done with; another's recovery of it cleared them all.
RecoveryFits(i, w) ==
    pc[i][w] = "recover" /\ doc.gen = job[i][w].pred =>
        /\ doc.owner \in Instance /\ node[doc.owner].proc = "gone"
        /\ doc.status = "Released" => \A s \in Space : Clear(s, doc.gen)
        /\ ~job[i][w].failed =>
             \A s \in Space \ job[i][w].todo : Clear(s, doc.gen)

\* A bundle that may yet roll back the current generation is its owner's.
RollbackIsOwn(i, w) ==
    pc[i][w] = "verify" /\ doc.gen = job[i][w].pred => Owns(i)

\* A shutdown: the workers are joined, then the drivers; what is drained, and
\* what is released, owes nothing.
ShutdownFits(i) ==
    LET n == node[i] IN
    /\ n.serve \notin {"serve", "join"} => pc[i]["ctl"] = "idle" /\ pc[i]["scan"] \in {"ok", "err"}
    /\ n.serve \in {"settle", "skip", "drain"}
         \/ (n.serve \in {"beat", "release"} /\ n.clean /\ Owns(i)) =>
         \A s \in Space : ~Live(drv[i][s])
    /\ n.serve = "skip" => ~Owns(i)
    /\ n.serve = "release" => n.clean
    /\ n.clean \/ n.serve \in {"serve", "join"} => n.settled
    /\ n.serve = "settle" /\ n.settled /\ Owns(i) =>
         \A s \in Space \ n.todo : Clear(s, doc.gen)
    /\ Owns(i) /\ (n.serve = "drain" \/ (n.serve \in {"beat", "release"} /\ n.clean)) =>
         \A s \in Space : Clear(s, doc.gen)

IndInv ==
    /\ TypeOK
    /\ OwnerIsKnown
    /\ GenerationsAreBehind
    /\ \A i \in Instance : ShutdownFits(i)
    /\ \A i \in Instance, s \in Space : DriverFits(i, s)
    /\ \A i \in Instance, w \in Worker : RecoveryFits(i, w) /\ RollbackIsOwn(i, w)
    /\ OneDriverPerGeneration
    /\ MarkedLaneIsAttached

-----------------------------------------------------------------------------
(* The abstract specification.                                             *)

\* The machine has a holder.
Held == doc.status \in {"Active", "Draining"}

\* The owner took the machine over from a dead one, and a bundle of it has yet
\* to be confirmed: until then it may roll back.
OnTrial ==
    /\ Held /\ Up(doc.owner)
    /\ \E w \in Worker :
         /\ job[doc.owner][w].newly
         /\ \/ pc[doc.owner][w] = "acquire"
            \/ pc[doc.owner][w] = "verify" /\ job[doc.owner][w].pred = doc.gen

\* The lease document, the rows of the Spaces and the threads of all processes,
\* seen as one authority that passes from holder to holder, and leaves work
\* behind only when a holder on trial gives up (serve_loop: "prevents a
\* successor generation from overlapping an accepted mutation that already
\* crossed prepare").
Authority == INSTANCE MachineAuthority WITH
    gen <- doc.gen,
    holder <- IF Held THEN doc.owner ELSE Nobody,
    open <- doc.status = "Active" /\ doc.fresh,
    trial <- OnTrial,
    busy <- {p \in Space \X (1..doc.gen) : Pending(p[1], p[2])}

MachineAuthorityHolds == Authority!Spec

=============================================================================
