-------------------------- MODULE NodeDaemonProofs --------------------------
(***************************************************************************)
(* Nothing but the rollback of a bundle lets a generation of a machine go  *)
(* while a Space has work of it, no effect loses its command to another    *)
(* than its own thread, the Operator or the end of its process, and the    *)
(* daemons of a machine implement MachineAuthority: for every set of       *)
(* daemon processes and Spaces and every bound on the generations, whether *)
(* clients start runs, Store writes fail and provider groups outlive their *)
(* daemon or not.                                                          *)
(*                                                                         *)
(* The actions that write each variable are named first.  What they do to  *)
(* it is summarised by relations: Eases and Begins for the rows of a       *)
(* Space, Keeps and Grants for the document, Goes and Shuts for a process, *)
(* Continues for a supervisor thread, Turns and Bundles for the workers.   *)
(* The parts of the invariant follow from the relations, and from both the *)
(* action properties and the refinement, step by step.                     *)
(***************************************************************************)
EXTENDS NodeDaemon, TLAPS

-----------------------------------------------------------------------------
(* Who writes what.                                                        *)

DocWriter ==
    \/ Expire
    \/ \E i \in Instance :
         \/ DrainAuthority(i) \/ Release(i)
         \/ \E t \in Thread : LatchDrain(i, t)
         \/ \E w \in Worker : PublishRecovery(i, w) \/ Acquire(i, w) \/ Verify(i, w)

TeamWriter ==
    \/ \E s \in Space : ExpireSupervisor(s) \/ Resolve(s)
    \/ \E i \in Instance :
         \/ DrainIncomplete(i) \/ SkipSettlement(i)
         \/ \E t \in Thread : LatchMark(i, t)
         \/ \E s \in Space :
              \/ SettleSpace(i, s) \/ Finish(i, s) \/ ThreadExit(i, s)
              \/ \E k \in Kinds : Prepare(i, s, k)
              \/ \E w \in Worker : RecoverSpace(i, w, s) \/ Supervise(i, w, s)

DriverWriter ==
    \E i \in Instance :
        \/ Crash(i) \/ Exit(i) \/ Quiesce(i) \/ KillGroups(i)
        \/ \E t \in Thread : LatchMark(i, t)
        \/ \E s \in Space :
             \/ Reap(i, s) \/ Finish(i, s) \/ LoseScope(i, s) \/ ThreadExit(i, s)
             \/ \E k \in Kinds : Prepare(i, s, k)
             \/ \E w \in Worker : Supervise(i, w, s)

NodeWriter ==
    \E i \in Instance :
        \/ ProbeSocket(i) \/ RemoveSocket(i) \/ BindSocket(i) \/ BindFails(i)
        \/ Crash(i) \/ RequestStop(i) \/ BeatLoses(i) \/ BeatDrops(i)
        \/ ServeStep(i)
        \/ \E w \in Worker : Acquire(i, w) \/ Verify(i, w)

ThreadWriter ==
    \E i \in Instance :
        \/ Crash(i) \/ Exit(i) \/ AcceptStart(i) \/ BeatLoses(i) \/ BeatEnds(i)
        \/ \E t \in Thread : LatchDrain(i, t) \/ LatchMark(i, t)
        \/ \E w \in Worker :
             \/ BeginBundle(i, w) \/ PublishRecovery(i, w) \/ Acquire(i, w)
             \/ Verify(i, w) \/ LeaveAdopt(i, w) \/ EndWorker(i, w)
             \/ \E s \in Space : Supervise(i, w, s)

JobWriter ==
    \E i \in Instance :
        \/ Crash(i) \/ Exit(i)
        \/ \E w \in Worker :
             \/ BeginBundle(i, w) \/ PublishRecovery(i, w) \/ Acquire(i, w)
             \/ \E s \in Space : RecoverSpace(i, w, s)

\* A step writes only what its action writes: the document.
LEMMA DocIsWritten == Next => UNCHANGED doc \/ DocWriter
<1> SUFFICES ASSUME Next PROVE UNCHANGED doc \/ DocWriter
  OBVIOUS
<1>1. CASE Environment
  BY <1>1 DEF Environment, DocWriter, ProbeSocket, RemoveSocket, BindSocket, BindFails,
              Crash, RequestStop, AcceptStart, ExpireSupervisor, Resolve
<1>2. ASSUME NEW i \in Instance, NEW w \in Worker, WorkerStep(i, w)
      PROVE  UNCHANGED doc \/ DocWriter
  BY <1>2 DEF WorkerStep, DocWriter, BeginBundle, LeaveAdopt, EndWorker, LatchMark,
              RecoverSpace, Supervise, Thread
<1>3. ASSUME NEW i \in Instance, BeatStep(i)
      PROVE  UNCHANGED doc \/ DocWriter
  BY <1>3 DEF BeatStep, DocWriter, BeatLoses, BeatDrops, BeatEnds, LatchMark, Thread
<1>4. ASSUME NEW i \in Instance, ServeStep(i)
      PROVE  UNCHANGED doc \/ DocWriter
  BY <1>4 DEF ServeStep, DocWriter, LeaveServing, JoinWorkers, Quiesce, KillGroups,
              DrainConverged, DrainIncomplete, SkipSettlement, EndSettlement,
              ShutAuthority, JoinBeat, Exit, SettleSpace
<1>5. ASSUME NEW i \in Instance, NEW s \in Space, Reap(i, s) \/ DriverStep(i, s)
      PROVE  UNCHANGED doc \/ DocWriter
  BY <1>5 DEF DriverStep, Reap, Prepare, Finish, LoseScope, ThreadExit
<1>6. QED
  BY <1>1, <1>2, <1>3, <1>4, <1>5 DEF Next

\* The rows of the Spaces.
LEMMA TeamIsWritten == Next => UNCHANGED team \/ TeamWriter
<1> SUFFICES ASSUME Next PROVE UNCHANGED team \/ TeamWriter
  OBVIOUS
<1>1. CASE Environment
  BY <1>1 DEF Environment, TeamWriter, ProbeSocket, RemoveSocket, BindSocket, BindFails,
              Crash, RequestStop, AcceptStart, Expire
<1>2. ASSUME NEW i \in Instance, NEW w \in Worker, WorkerStep(i, w)
      PROVE  UNCHANGED team \/ TeamWriter
  BY <1>2 DEF WorkerStep, TeamWriter, BeginBundle, LeaveAdopt, EndWorker, LatchDrain,
              PublishRecovery, Acquire, Verify, Thread
<1>3. ASSUME NEW i \in Instance, BeatStep(i)
      PROVE  UNCHANGED team \/ TeamWriter
  BY <1>3 DEF BeatStep, TeamWriter, BeatLoses, BeatDrops, BeatEnds, LatchDrain, Thread
<1>4. ASSUME NEW i \in Instance, ServeStep(i)
      PROVE  UNCHANGED team \/ TeamWriter
  BY <1>4 DEF ServeStep, TeamWriter, LeaveServing, JoinWorkers, Quiesce, KillGroups,
              DrainConverged, DrainAuthority, EndSettlement, ShutAuthority, JoinBeat,
              Release, Exit
<1>5. ASSUME NEW i \in Instance, NEW s \in Space, Reap(i, s) \/ DriverStep(i, s)
      PROVE  UNCHANGED team \/ TeamWriter
  BY <1>5 DEF DriverStep, TeamWriter, Reap, LoseScope
<1>6. QED
  BY <1>1, <1>2, <1>3, <1>4, <1>5 DEF Next

\* The supervisor threads.
LEMMA DriversAreWritten == Next => UNCHANGED drv \/ DriverWriter
<1> SUFFICES ASSUME Next PROVE UNCHANGED drv \/ DriverWriter
  OBVIOUS
<1>1. CASE Environment
  BY <1>1 DEF Environment, DriverWriter, ProbeSocket, RemoveSocket, BindSocket, BindFails,
              RequestStop, AcceptStart, Expire, ExpireSupervisor, Resolve
<1>2. ASSUME NEW i \in Instance, NEW w \in Worker, WorkerStep(i, w)
      PROVE  UNCHANGED drv \/ DriverWriter
  BY <1>2 DEF WorkerStep, DriverWriter, BeginBundle, LeaveAdopt, EndWorker, LatchDrain,
              PublishRecovery, Acquire, Verify, RecoverSpace, Thread
<1>3. ASSUME NEW i \in Instance, BeatStep(i)
      PROVE  UNCHANGED drv \/ DriverWriter
  BY <1>3 DEF BeatStep, DriverWriter, BeatLoses, BeatDrops, BeatEnds, LatchDrain, Thread
<1>4. ASSUME NEW i \in Instance, ServeStep(i)
      PROVE  UNCHANGED drv \/ DriverWriter
  BY <1>4 DEF ServeStep, DriverWriter, LeaveServing, JoinWorkers, DrainConverged,
              DrainIncomplete, SkipSettlement, EndSettlement, DrainAuthority,
              ShutAuthority, JoinBeat, Release, SettleSpace
<1>5. ASSUME NEW i \in Instance, NEW s \in Space, Reap(i, s) \/ DriverStep(i, s)
      PROVE  UNCHANGED drv \/ DriverWriter
  BY <1>5 DEF DriverStep, DriverWriter
<1>6. QED
  BY <1>1, <1>2, <1>3, <1>4, <1>5 DEF Next

\* The processes.
LEMMA NodesAreWritten == Next => UNCHANGED node \/ NodeWriter
<1> SUFFICES ASSUME Next PROVE UNCHANGED node \/ NodeWriter
  OBVIOUS
<1>1. CASE Environment
  BY <1>1 DEF Environment, NodeWriter, AcceptStart, Expire, ExpireSupervisor, Resolve
<1>2. ASSUME NEW i \in Instance, NEW w \in Worker, WorkerStep(i, w)
      PROVE  UNCHANGED node \/ NodeWriter
  BY <1>2 DEF WorkerStep, NodeWriter, BeginBundle, LeaveAdopt, EndWorker, LatchDrain,
              LatchMark, PublishRecovery, RecoverSpace, Supervise
<1>3. ASSUME NEW i \in Instance, BeatStep(i)
      PROVE  UNCHANGED node \/ NodeWriter
  BY <1>3 DEF BeatStep, NodeWriter, BeatEnds, LatchDrain, LatchMark
<1>4. ASSUME NEW i \in Instance, ServeStep(i)
      PROVE  UNCHANGED node \/ NodeWriter
  BY <1>4 DEF NodeWriter
<1>5. ASSUME NEW i \in Instance, NEW s \in Space, Reap(i, s) \/ DriverStep(i, s)
      PROVE  UNCHANGED node \/ NodeWriter
  BY <1>5 DEF DriverStep, Reap, Prepare, Finish, LoseScope, ThreadExit
<1>6. QED
  BY <1>1, <1>2, <1>3, <1>4, <1>5 DEF Next

\* The control points.
LEMMA ThreadsAreWritten == Next => UNCHANGED pc \/ ThreadWriter
<1> SUFFICES ASSUME Next PROVE UNCHANGED pc \/ ThreadWriter
  OBVIOUS
<1>1. CASE Environment
  BY <1>1 DEF Environment, ThreadWriter, ProbeSocket, RemoveSocket, BindSocket, BindFails,
              RequestStop, Expire, ExpireSupervisor, Resolve
<1>2. ASSUME NEW i \in Instance, NEW w \in Worker, WorkerStep(i, w)
      PROVE  UNCHANGED pc \/ ThreadWriter
  BY <1>2 DEF WorkerStep, ThreadWriter, RecoverSpace, Thread
<1>3. ASSUME NEW i \in Instance, BeatStep(i)
      PROVE  UNCHANGED pc \/ ThreadWriter
  BY <1>3 DEF BeatStep, ThreadWriter, BeatDrops, Thread
<1>4. ASSUME NEW i \in Instance, ServeStep(i)
      PROVE  UNCHANGED pc \/ ThreadWriter
  BY <1>4 DEF ServeStep, ThreadWriter, LeaveServing, JoinWorkers, Quiesce, KillGroups,
              DrainConverged, DrainIncomplete, SkipSettlement, EndSettlement,
              DrainAuthority, ShutAuthority, JoinBeat, Release, SettleSpace
<1>5. ASSUME NEW i \in Instance, NEW s \in Space, Reap(i, s) \/ DriverStep(i, s)
      PROVE  UNCHANGED pc \/ ThreadWriter
  BY <1>5 DEF DriverStep, Reap, Prepare, Finish, LoseScope, ThreadExit
<1>6. QED
  BY <1>1, <1>2, <1>3, <1>4, <1>5 DEF Next

\* The bundles in progress.
LEMMA JobsAreWritten == Next => UNCHANGED job \/ JobWriter
<1> SUFFICES ASSUME Next PROVE UNCHANGED job \/ JobWriter
  OBVIOUS
<1>1. CASE Environment
  BY <1>1 DEF Environment, JobWriter, ProbeSocket, RemoveSocket, BindSocket, BindFails,
              RequestStop, AcceptStart, Expire, ExpireSupervisor, Resolve
<1>2. ASSUME NEW i \in Instance, NEW w \in Worker, WorkerStep(i, w)
      PROVE  UNCHANGED job \/ JobWriter
  BY <1>2 DEF WorkerStep, JobWriter, LeaveAdopt, EndWorker, LatchDrain, LatchMark,
              Verify, Supervise
<1>3. ASSUME NEW i \in Instance, BeatStep(i)
      PROVE  UNCHANGED job \/ JobWriter
  BY <1>3 DEF BeatStep, BeatLoses, BeatDrops, BeatEnds, LatchDrain, LatchMark
<1>4. ASSUME NEW i \in Instance, ServeStep(i)
      PROVE  UNCHANGED job \/ JobWriter
  BY <1>4 DEF ServeStep, JobWriter, LeaveServing, JoinWorkers, Quiesce, KillGroups,
              DrainConverged, DrainIncomplete, SkipSettlement, EndSettlement,
              DrainAuthority, ShutAuthority, JoinBeat, Release, SettleSpace
<1>5. ASSUME NEW i \in Instance, NEW s \in Space, Reap(i, s) \/ DriverStep(i, s)
      PROVE  UNCHANGED job \/ JobWriter
  BY <1>5 DEF DriverStep, Reap, Prepare, Finish, LoseScope, ThreadExit
<1>6. QED
  BY <1>1, <1>2, <1>3, <1>4, <1>5 DEF Next

-----------------------------------------------------------------------------
(* Types.                                                                  *)

\* The document keeps its type.
LEMMA DocTyped == ASSUME TypeOK, Next PROVE doc' \in Doc
<1>1. doc \in Doc /\ MaxGeneration \in Nat
  BY NodeDaemonAssumption DEF TypeOK
<1>2. \A i \in Instance : Drained(i) \in Doc
  BY <1>1 DEF Drained, Doc
<1>3. ReleasedDoc \in Doc
  BY <1>1 DEF ReleasedDoc, Doc
<1>4. CASE UNCHANGED doc
  BY <1>1, <1>4
<1>5. CASE Expire
  BY <1>1, <1>5 DEF Expire, Doc
<1>6. ASSUME NEW i \in Instance, DrainAuthority(i) \/ Release(i) PROVE doc' \in Doc
  BY <1>1, <1>2, <1>3, <1>6 DEF DrainAuthority, Release
<1>7. ASSUME NEW i \in Instance, NEW t \in Thread, LatchDrain(i, t) PROVE doc' \in Doc
  BY <1>1, <1>2, <1>7 DEF LatchDrain
<1>8. ASSUME NEW i \in Instance, NEW w \in Worker, PublishRecovery(i, w) \/ Verify(i, w)
      PROVE  doc' \in Doc
  BY <1>1, <1>3, <1>8 DEF PublishRecovery, Verify, RolledBack
<1>9. ASSUME NEW i \in Instance, NEW w \in Worker, Acquire(i, w) PROVE doc' \in Doc
  <2>1. FreeMachine => doc.gen + 1 \in Generation
    BY <1>1 DEF FreeMachine, Doc, Generation
  <2>2. doc' = doc \/ (FreeMachine /\ doc' = [gen |-> doc.gen + 1, owner |-> i, fresh |-> TRUE,
                                             status |-> "Active"])
    BY <1>9 DEF Acquire
  <2>3. FreeMachine => [gen |-> doc.gen + 1, owner |-> i, fresh |-> TRUE, status |-> "Active"] \in Doc
    BY <2>1 DEF Doc
  <2>4. QED
    BY <1>1, <2>2, <2>3
<1>10. QED
  BY <1>4, <1>5, <1>6, <1>7, <1>8, <1>9, DocIsWritten DEF DocWriter

\* A process that is set going, or ends, is a process.
LEMMA RecordTypes ==
    /\ [NoProcess EXCEPT !.proc = "gone"] \in Node
    /\ NoJob \in Job /\ NoDriver \in Drv
    /\ NoThread \in [Thread -> {"idle", "run"}]
<1>1. 0 \in Generation
  BY NodeDaemonAssumption DEF Generation
<1>2. QED
  BY <1>1 DEF NoProcess, Node, NoJob, Job, NoDriver, Drv, NoThread

\* The settlement of one Space, its outcome named.
SettlesAs(i, s, ok, c, d) ==
    /\ c = (node[i].clean /\ ok) /\ d = (node[i].settled /\ ok)
    /\ node' = [node EXCEPT ![i] = [@ EXCEPT !.todo = node[i].todo \ {s}, !.clean = c, !.settled = d]]
    /\ ok => OwesNothing(s, doc.gen)
    /\ team' = IF ok /\ InUse(s, doc.gen) THEN [team EXCEPT ![s] = Detached(@)] ELSE team

\* A settlement has one of these forms.
LEMMA SettleForm ==
    ASSUME NEW i \in Instance, NEW s \in Space, SettleSpace(i, s)
    PROVE  \E ok \in BOOLEAN, c \in BOOLEAN, d \in BOOLEAN : SettlesAs(i, s, ok, c, d)
<1>1. PICK stored \in Outcome :
        LET ok == /\ Owns(i) /\ doc.status \in {"Active", "Draining"}
                  /\ OwesNothing(s, doc.gen) /\ stored
        IN  /\ team' = IF ok /\ InUse(s, doc.gen)
                         THEN [team EXCEPT ![s] = Detached(@)] ELSE team
            /\ node' = [node EXCEPT ![i] =
                         [@ EXCEPT !.todo = node[i].todo \ {s}, !.clean = node[i].clean /\ ok,
                                   !.settled = node[i].settled /\ ok]]
  BY DEF SettleSpace
<1>2. PICK ok \in BOOLEAN : ok = (/\ Owns(i) /\ doc.status \in {"Active", "Draining"}
                                 /\ OwesNothing(s, doc.gen) /\ stored)
  OBVIOUS
<1>3. PICK c \in BOOLEAN, d \in BOOLEAN : c = (node[i].clean /\ ok) /\ d = (node[i].settled /\ ok)
  OBVIOUS
<1>4. /\ node' = [node EXCEPT ![i] = [@ EXCEPT !.todo = node[i].todo \ {s}, !.clean = c, !.settled = d]]
      /\ team' = IF ok /\ InUse(s, doc.gen) THEN [team EXCEPT ![s] = Detached(@)] ELSE team
      /\ ok => OwesNothing(s, doc.gen)
  BY <1>1, <1>2, <1>3
<1>5. QED
  BY <1>3, <1>4 DEF SettlesAs

\* The processes keep their types.
LEMMA NodesTyped == ASSUME TypeOK, Next PROVE node' \in [Instance -> Node]
<1> DEFINE T == node' \in [Instance -> Node]
<1>1. /\ node \in [Instance -> Node] /\ doc.gen \in Generation /\ 0 \in Generation
      /\ FreeMachine => doc.gen + 1 \in Generation
  BY NodeDaemonAssumption DEF TypeOK, Doc, Generation, FreeMachine
<1>2. CASE UNCHANGED node
  BY <1>1, <1>2
<1>3. ASSUME NEW i \in Instance,
             \/ ProbeSocket(i) \/ RemoveSocket(i) \/ BindSocket(i) \/ BindFails(i)
      PROVE  T
  <2>1. PICK p \in {"clear", "stale", "up", "gone"} : node' = [node EXCEPT ![i].proc = p]
    BY <1>3 DEF ProbeSocket, RemoveSocket, BindSocket, BindFails
  <2>2. QED
    BY <1>1, <2>1 DEF Node
<1>4. ASSUME NEW i \in Instance, Crash(i) \/ Exit(i) PROVE T
  BY <1>1, <1>4, RecordTypes DEF Crash, Exit, Ended
<1>5. ASSUME NEW i \in Instance PROVE LatchedNode(i) \in Node
  BY <1>1, <1>5 DEF LatchedNode, Node
<1>6. ASSUME NEW i \in Instance, BeatLoses(i) PROVE T
  BY <1>1, <1>5, <1>6 DEF BeatLoses, Latch
<1>7. ASSUME NEW i \in Instance, NEW w \in Worker, Acquire(i, w) PROVE T
  <2>1. CASE node' = [node EXCEPT ![i] = LatchedNode(i)]
    BY <1>1, <1>5, <2>1
  <2>2. PICK g \in Generation : g = IF FreeMachine THEN doc.gen + 1 ELSE doc.gen
    BY <1>1
  <2>3. CASE node' = [node EXCEPT ![i].held = g]
    BY <1>1, <2>3 DEF Node
  <2>4. QED
    BY <1>7, <2>1, <2>2, <2>3 DEF Acquire, Latch
<1>8. ASSUME NEW i \in Instance, NEW w \in Worker, Verify(i, w) PROVE T
  BY <1>1, <1>5, <1>8 DEF Verify, Latch
<1>9. ASSUME NEW i \in Instance, NEW n \in Node, node' = [node EXCEPT ![i] = n] PROVE T
  BY <1>1, <1>9
<1>10. ASSUME NEW i \in Instance, RequestStop(i) \/ BeatDrops(i) \/ ShutAuthority(i) PROVE T
  <2>1. node[i] \in Node
    BY <1>1
  <2>2. /\ [node[i] EXCEPT !.stop = TRUE] \in Node
        /\ [node[i] EXCEPT !.shut = TRUE] \in Node
        /\ [node[i] EXCEPT !.held = 0] \in Node
    BY <1>1, <2>1 DEF Node
  <2>3. CASE RequestStop(i)
    BY <1>1, <1>9, <2>2, <2>3 DEF RequestStop
  <2>4. CASE BeatDrops(i)
    BY <1>1, <1>9, <2>2, <2>4 DEF BeatDrops
  <2>5. CASE ShutAuthority(i)
    BY <1>1, <1>9, <2>2, <2>5 DEF ShutAuthority
  <2>6. QED
    BY <1>10, <2>3, <2>4, <2>5
<1>11. ASSUME NEW i \in Instance,
              Quiesce(i) \/ KillGroups(i) \/ EndSettlement(i) \/ JoinBeat(i) \/ Release(i)
       PROVE  T
  <2>1. PICK at \in {"kill", "forced", "drain", "beat", "release", "exit"} :
          node' = [node EXCEPT ![i].serve = at]
    BY <1>11 DEF Quiesce, KillGroups, EndSettlement, JoinBeat, Release
  <2>2. QED
    BY <1>1, <2>1 DEF Node
<1>12. ASSUME NEW i \in Instance, NEW c \in BOOLEAN
       PROVE  /\ [node[i] EXCEPT !.stop = TRUE, !.serve = "join"] \in Node
              /\ [node[i] EXCEPT !.serve = "quiesce", !.clean = c] \in Node
              /\ [node[i] EXCEPT !.serve = "beat", !.clean = c] \in Node
              /\ [node[i] EXCEPT !.serve = "beat", !.clean = FALSE, !.drained = FALSE] \in Node
  <2>1. node[i] \in Node
    BY <1>1
  <2>2. QED
    BY <2>1 DEF Node
<1>13. ASSUME NEW i \in Instance, NEW at \in {"drain", "settle", "skip"}, NEW todo \in SUBSET Space
       PROVE  [node[i] EXCEPT !.serve = at, !.todo = todo] \in Node
  <2>1. node[i] \in Node
    BY <1>1
  <2>2. QED
    BY <2>1 DEF Node
<1>14. ASSUME NEW i \in Instance,
              \/ LeaveServing(i) \/ DrainConverged(i) \/ SkipSettlement(i)
              \/ DrainIncomplete(i) \/ JoinWorkers(i) \/ DrainAuthority(i)
       PROVE  T
  <2>1. CASE LeaveServing(i)
    <3>1. [node[i] EXCEPT !.stop = TRUE, !.serve = "join"] \in Node
      BY <1>12
    <3>2. QED
      BY <1>9, <2>1, <3>1 DEF LeaveServing
  <2>2. CASE DrainConverged(i)
    BY <1>9, <1>13, <2>2 DEF DrainConverged
  <2>3. CASE SkipSettlement(i)
    BY <1>9, <1>13, <2>3 DEF SkipSettlement
  <2>4. CASE DrainIncomplete(i)
    BY <1>9, <1>12, <2>4 DEF DrainIncomplete
  <2>5. CASE JoinWorkers(i)
    <3>1. PICK inTime \in BOOLEAN :
            node' = [node EXCEPT ![i] = [@ EXCEPT !.serve = "quiesce",
                                                  !.clean = inTime /\ pc[i]["scan"] = "ok"]]
      BY <2>5 DEF JoinWorkers
    <3>2. PICK c \in BOOLEAN : c = (inTime /\ pc[i]["scan"] = "ok")
      OBVIOUS
    <3>3. node' = [node EXCEPT ![i] = [@ EXCEPT !.serve = "quiesce", !.clean = c]]
      BY <3>1, <3>2
    <3>4. QED
      BY <1>9, <1>12, <3>3
  <2>6. CASE DrainAuthority(i)
    <3>1. PICK stored \in Outcome :
            node' = [node EXCEPT ![i] =
                [@ EXCEPT !.serve = "beat",
                          !.clean = /\ node[i].clean /\ stored
                                    /\ ~(Owns(i) /\ doc.status = "Released")]]
      BY <2>6 DEF DrainAuthority
    <3>2. PICK c \in BOOLEAN :
            c = (node[i].clean /\ stored /\ ~(Owns(i) /\ doc.status = "Released"))
      OBVIOUS
    <3>3. node' = [node EXCEPT ![i] = [@ EXCEPT !.serve = "beat", !.clean = c]]
      BY <3>1, <3>2
    <3>4. QED
      BY <1>9, <1>12, <3>3
  <2>7. QED
    BY <1>14, <2>1, <2>2, <2>3, <2>4, <2>5, <2>6
<1>15. ASSUME NEW i \in Instance, NEW s \in Space, SettleSpace(i, s) PROVE T
  <2>1. PICK ok \in BOOLEAN, c \in BOOLEAN, d \in BOOLEAN : SettlesAs(i, s, ok, c, d)
    BY <1>15, SettleForm
  <2>2. node' = [node EXCEPT ![i] = [@ EXCEPT !.todo = node[i].todo \ {s}, !.clean = c, !.settled = d]]
    BY <2>1 DEF SettlesAs
  <2>3. node[i] \in Node
    BY <1>1
  <2>4. [node[i] EXCEPT !.todo = node[i].todo \ {s}, !.clean = c, !.settled = d] \in Node
    BY <2>3 DEF Node
  <2>5. QED
    BY <1>9, <2>2, <2>4
<1>16. QED
  BY <1>2, <1>3, <1>4, <1>6, <1>7, <1>8, <1>10, <1>11, <1>14, <1>15, NodesAreWritten
     DEF NodeWriter, ServeStep

\* The control points keep their types.
LEMMA ThreadsTyped ==
    ASSUME TypeOK, Next
    PROVE  pc' \in [Instance -> [Thread -> {"idle", "run", "recover", "acquire", "verify",
                                            "adopt", "drain", "mark", "ok", "err"}]]
<1> DEFINE P == {"idle", "run", "recover", "acquire", "verify",
                 "adopt", "drain", "mark", "ok", "err"}
           T == pc' \in [Instance -> [Thread -> P]]
<1>1. pc \in [Instance -> [Thread -> P]] /\ Worker \subseteq Thread /\ "beat" \in Thread
  BY DEF TypeOK, Thread
<1>2. ASSUME NEW i \in Instance, NEW t \in Thread, NEW p \in P, pc' = [pc EXCEPT ![i][t] = p]
      PROVE  T
  BY <1>1, <1>2
<1>3. CASE UNCHANGED pc
  BY <1>1, <1>3
<1>4. ASSUME NEW i \in Instance, Crash(i) \/ Exit(i) PROVE T
  <2>1. pc' = [pc EXCEPT ![i] = NoThread]
    BY <1>4 DEF Crash, Exit, Ended
  <2>2. NoThread \in [Thread -> P]
    BY RecordTypes
  <2>3. QED
    BY <1>1, <2>1, <2>2
<1>5. ASSUME NEW i \in Instance, AcceptStart(i) \/ BeatLoses(i) \/ BeatEnds(i) PROVE T
  BY <1>1, <1>2, <1>5 DEF AcceptStart, BeatLoses, BeatEnds, Latch, Worker
<1>6. ASSUME NEW i \in Instance, NEW t \in Thread, LatchDrain(i, t) \/ LatchMark(i, t) PROVE T
  BY <1>2, <1>6 DEF LatchDrain, LatchMark, EndOf
<1>7. ASSUME NEW i \in Instance, NEW w \in Worker,
             \/ BeginBundle(i, w) \/ PublishRecovery(i, w) \/ Acquire(i, w)
             \/ Verify(i, w) \/ LeaveAdopt(i, w) \/ EndWorker(i, w)
             \/ \E s \in Space : Supervise(i, w, s)
      PROVE  T
  <2>1. \/ pc' = pc
        \/ \E p \in P : pc' = [pc EXCEPT ![i][w] = p]
    BY <1>7 DEF BeginBundle, PublishRecovery, Acquire, Verify, LeaveAdopt, EndWorker,
         Supervise, Latch, EndOf
  <2>2. QED
    BY <1>1, <1>2, <2>1
<1>8. QED
  BY <1>3, <1>4, <1>5, <1>6, <1>7, ThreadsAreWritten DEF ThreadWriter

\* The recovery of one Space, its outcome named.
RecoversAs(i, w, s, refused, f) ==
    LET g == job[i][w].pred IN
    /\ f = (job[i][w].failed \/ refused)
    /\ job' = [job EXCEPT ![i][w] = [@ EXCEPT !.todo = job[i][w].todo \ {s}, !.failed = f]]
    /\ ~refused => doc.gen = g /\ ~Ambiguous(s, g)
    /\ team' = IF refused \/ doc.status = "Released" THEN team
               ELSE [team EXCEPT ![s] = RecoveredTeam(s, g)]

\* A recovery has one of these forms.
LEMMA RecoverForm ==
    ASSUME NEW i \in Instance, NEW w \in Worker, NEW s \in Space, RecoverSpace(i, w, s)
    PROVE  \E refused \in BOOLEAN, f \in BOOLEAN : RecoversAs(i, w, s, refused, f)
<1> DEFINE g == job[i][w].pred
<1>1. PICK stored \in Outcome :
        LET stale == doc.gen # g \/ (doc.status # "Released" /\ doc.fresh)
            refused == ~stored \/ stale \/ Ambiguous(s, g)
        IN  /\ team' = IF refused \/ doc.status = "Released" THEN team
                       ELSE [team EXCEPT ![s] = RecoveredTeam(s, g)]
            /\ job' = [job EXCEPT ![i][w] = [@ EXCEPT !.todo = job[i][w].todo \ {s},
                                                     !.failed = job[i][w].failed \/ refused]]
  BY DEF RecoverSpace
<1>2. PICK refused \in BOOLEAN :
        refused = \/ ~stored \/ doc.gen # g \/ (doc.status # "Released" /\ doc.fresh)
                  \/ Ambiguous(s, g)
  OBVIOUS
<1>3. PICK f \in BOOLEAN : f = (job[i][w].failed \/ refused)
  OBVIOUS
<1>4. /\ job' = [job EXCEPT ![i][w] = [@ EXCEPT !.todo = job[i][w].todo \ {s}, !.failed = f]]
      /\ team' = IF refused \/ doc.status = "Released" THEN team
                 ELSE [team EXCEPT ![s] = RecoveredTeam(s, g)]
      /\ ~refused => doc.gen = g /\ ~Ambiguous(s, g)
  BY <1>1, <1>2, <1>3
<1>5. QED
  BY <1>3, <1>4 DEF RecoversAs

\* The bundles in progress keep their types.
LEMMA JobsTyped == ASSUME TypeOK, Next PROVE job' \in [Instance -> [Worker -> Job]]
<1> DEFINE T == job' \in [Instance -> [Worker -> Job]]
<1>1. /\ job \in [Instance -> [Worker -> Job]] /\ doc.gen \in Generation
      /\ FreeMachine => doc.gen + 1 \in Generation
  BY NodeDaemonAssumption DEF TypeOK, Doc, Generation, FreeMachine
<1>2. ASSUME NEW i \in Instance, NEW w \in Worker, NEW j \in Job, job' = [job EXCEPT ![i][w] = j]
      PROVE  T
  BY <1>1, <1>2
<1>3. CASE UNCHANGED job
  BY <1>1, <1>3
<1>4. ASSUME NEW i \in Instance, Crash(i) \/ Exit(i) PROVE T
  <2>1. job' = [job EXCEPT ![i] = [w \in Worker |-> NoJob]]
    BY <1>4 DEF Crash, Exit, Ended
  <2>2. [w \in Worker |-> NoJob] \in [Worker -> Job]
    BY RecordTypes
  <2>3. QED
    BY <1>1, <2>1, <2>2
<1>5. ASSUME NEW i \in Instance, NEW w \in Worker, BeginBundle(i, w) PROVE T
  <2>1. [NoJob EXCEPT !.pred = doc.gen, !.todo = Space] \in Job /\ NoJob \in Job
    BY <1>1, RecordTypes DEF Job
  <2>2. QED
    BY <1>2, <1>5, <2>1 DEF BeginBundle
<1>6. ASSUME NEW i \in Instance, NEW w \in Worker, PublishRecovery(i, w) PROVE T
  <2>1. PICK ok \in BOOLEAN : job' = [job EXCEPT ![i][w] = [@ EXCEPT !.newly = ok]]
    BY <1>6 DEF PublishRecovery
  <2>2. job[i][w] \in Job
    BY <1>1
  <2>3. [job[i][w] EXCEPT !.newly = ok] \in Job
    BY <2>2 DEF Job
  <2>4. QED
    BY <1>2, <2>1, <2>3
<1>7. ASSUME NEW i \in Instance, NEW w \in Worker, Acquire(i, w) PROVE T
  <2>1. PICK g \in Generation : g = IF FreeMachine THEN doc.gen + 1 ELSE doc.gen
    BY <1>1
  <2>2. job' = job \/ job' = [job EXCEPT ![i][w] = [@ EXCEPT !.pred = g]]
    BY <1>7, <2>1 DEF Acquire
  <2>3. job[i][w] \in Job
    BY <1>1
  <2>4. [job[i][w] EXCEPT !.pred = g] \in Job
    BY <2>3 DEF Job
  <2>5. QED
    BY <1>2, <1>3, <2>2, <2>4
<1>8. ASSUME NEW i \in Instance, NEW w \in Worker, NEW s \in Space, RecoverSpace(i, w, s) PROVE T
  <2>1. PICK refused \in BOOLEAN, f \in BOOLEAN : RecoversAs(i, w, s, refused, f)
    BY <1>8, RecoverForm
  <2>2. job' = [job EXCEPT ![i][w] = [@ EXCEPT !.todo = job[i][w].todo \ {s}, !.failed = f]]
    BY <2>1 DEF RecoversAs
  <2>3. job[i][w] \in Job
    BY <1>1
  <2>4. [job[i][w] EXCEPT !.todo = job[i][w].todo \ {s}, !.failed = f] \in Job
    BY <2>3 DEF Job
  <2>5. QED
    BY <1>2, <2>2, <2>4
<1>9. QED
  BY <1>3, <1>4, <1>5, <1>6, <1>7, <1>8, JobsAreWritten DEF JobWriter

\* What a recovery leaves of a Space, field by field.
LEMMA RecoveredRow ==
    ASSUME TypeOK, NEW s \in Space, NEW g
    PROVE  LET tm == RecoveredTeam(s, g) IN
           /\ tm \in Team
           /\ tm.supGen = team[s].supGen /\ tm.cmdGen = team[s].cmdGen
           /\ tm.laneGen = team[s].laneGen /\ tm.kind = team[s].kind
           /\ tm.cmd = IF Unsettled(s, g) THEN "settled" ELSE team[s].cmd
           /\ tm.sup = IF Unreleased(s, g) THEN "Released" ELSE team[s].sup
           /\ InUse(s, g) => ~tm.resident /\ ~tm.marked
           /\ ~InUse(s, g) => tm.resident = team[s].resident /\ tm.marked = team[s].marked
<1>1. team[s] \in Team
  BY DEF TypeOK
<1>2. PICK tm \in Team : tm = IF InUse(s, g) THEN Detached(team[s]) ELSE team[s]
  BY <1>1 DEF Detached, Team
<1>3. /\ tm.supGen = team[s].supGen /\ tm.cmdGen = team[s].cmdGen
      /\ tm.laneGen = team[s].laneGen /\ tm.kind = team[s].kind
      /\ tm.cmd = team[s].cmd /\ tm.sup = team[s].sup
      /\ InUse(s, g) => ~tm.resident /\ ~tm.marked
      /\ ~InUse(s, g) => tm.resident = team[s].resident /\ tm.marked = team[s].marked
  BY <1>1, <1>2 DEF Detached, Team
<1>4. PICK c \in {"settled", "prepared", "unknown"} :
        c = IF Unsettled(s, g) THEN "settled" ELSE tm.cmd
  BY DEF Team
<1>5. PICK p \in {"Released", "Active", "Expired"} :
        p = IF Unreleased(s, g) THEN "Released" ELSE tm.sup
  BY DEF Team
<1>6. RecoveredTeam(s, g) = [tm EXCEPT !.cmd = c, !.sup = p]
  BY <1>2, <1>4, <1>5 DEF RecoveredTeam
<1>7. [tm EXCEPT !.cmd = c, !.sup = p] \in Team
  BY DEF Team
<1>8. QED
  BY <1>3, <1>4, <1>5, <1>6, <1>7 DEF Team

\* An effect that returns settles its command, fails it closed, or leaves it.
LEMMA FinishForm ==
    ASSUME TypeOK, NEW i \in Instance, NEW s \in Space, Finish(i, s)
    PROVE  \/ team' = team
           \/ /\ Drives(i, s)
              /\ \E c \in {"settled", "unknown"} : team' = [team EXCEPT ![s].cmd = c]
<1>1. team \in [Space -> Team]
  BY DEF TypeOK
<1>2. PICK tm \in Returned(i, s) :
        team' = IF Drives(i, s) THEN [team EXCEPT ![s] = tm] ELSE team
  BY DEF Finish
<1>3. tm = team[s] \/ \E c \in {"settled", "unknown"} : tm = [team[s] EXCEPT !.cmd = c]
  BY DEF Returned, FailedClosed
<1>4. CASE tm = team[s]
  BY <1>1, <1>2, <1>4
<1>5. ASSUME NEW c \in {"settled", "unknown"}, tm = [team[s] EXCEPT !.cmd = c], Drives(i, s)
      PROVE  team' = [team EXCEPT ![s].cmd = c]
  BY <1>1, <1>2, <1>5
<1>6. QED
  BY <1>2, <1>3, <1>4, <1>5

\* The rows keep their types.
LEMMA TeamTyped == ASSUME TypeOK, Next PROVE team' \in [Space -> Team]
<1> DEFINE T == team' \in [Space -> Team]
<1>1. /\ team \in [Space -> Team] /\ doc.gen \in Generation
      /\ Kinds \subseteq {"message", "provider"}
  BY NodeDaemonAssumption DEF TypeOK, Doc
<1>2. ASSUME NEW s \in Space, NEW tm \in Team, team' = [team EXCEPT ![s] = tm] PROVE T
  BY <1>1, <1>2
<1>3. CASE UNCHANGED team
  BY <1>1, <1>3
<1>4. ASSUME NEW s \in Space, ExpireSupervisor(s) \/ Resolve(s) PROVE T
  BY <1>1, <1>4 DEF ExpireSupervisor, Resolve, Team
<1>5. ASSUME NEW i \in Instance PROVE Marked(i) \in [Space -> Team]
  <2>1. \A s \in Space : team[s] \in Team /\ [team[s] EXCEPT !.marked = TRUE] \in Team
    BY <1>1 DEF Team
  <2>2. QED
    BY <2>1 DEF Marked
<1>6. ASSUME NEW i \in Instance, DrainIncomplete(i) \/ SkipSettlement(i) PROVE T
  BY <1>5, <1>6 DEF DrainIncomplete, SkipSettlement
<1>7. ASSUME NEW i \in Instance, NEW t \in Thread, LatchMark(i, t) PROVE T
  BY <1>5, <1>7 DEF LatchMark
<1>8. ASSUME NEW i \in Instance, NEW s \in Space, SettleSpace(i, s) PROVE T
  <2>1. team[s] \in Team
    BY <1>1
  <2>2. Detached(team[s]) \in Team
    BY <2>1 DEF Detached, Team
  <2>3. QED
    BY <1>2, <1>3, <1>8, <2>2 DEF SettleSpace
<1>9. ASSUME NEW i \in Instance, NEW s \in Space, Finish(i, s) \/ ThreadExit(i, s) PROVE T
  <2>1. CASE ThreadExit(i, s)
    BY <1>1, <1>3, <2>1 DEF ThreadExit, Team
  <2>2. CASE Finish(i, s)
    <3>1. \/ team' = team
          \/ \E c \in {"settled", "unknown"} : team' = [team EXCEPT ![s].cmd = c]
      BY <2>2, FinishForm
    <3>2. QED
      BY <1>1, <1>3, <3>1 DEF Team
  <2>3. QED
    BY <1>9, <2>1, <2>2
<1>10. ASSUME NEW i \in Instance, NEW s \in Space, NEW k \in Kinds, Prepare(i, s, k) PROVE T
  <2>1. team[s] \in Team
    BY <1>1
  <2>2. [team[s] EXCEPT !.cmdGen = doc.gen, !.cmd = "prepared", !.kind = k,
                        !.resident = TRUE] \in Team
    BY <1>1, <2>1 DEF Team
  <2>3. QED
    BY <1>2, <1>10, <2>2 DEF Prepare
<1>11. ASSUME NEW i \in Instance, NEW w \in Worker, NEW s \in Space, RecoverSpace(i, w, s) PROVE T
  BY <1>2, <1>3, <1>11, RecoveredRow DEF RecoverSpace
<1>12. ASSUME NEW i \in Instance, NEW w \in Worker, NEW s \in Space, Supervise(i, w, s) PROVE T
  <2>1. team[s] \in Team
    BY <1>1
  <2>2. [team[s] EXCEPT !.supGen = doc.gen, !.sup = "Active", !.laneGen = doc.gen] \in Team
    BY <1>1, <2>1 DEF Team
  <2>3. QED
    BY <1>2, <1>12, <2>2 DEF Supervise
<1>13. QED
  BY <1>3, <1>4, <1>6, <1>7, <1>8, <1>9, <1>10, <1>11, <1>12, TeamIsWritten DEF TeamWriter

\* The supervisor threads keep their types.
LEMMA DriversTyped == ASSUME TypeOK, Next PROVE drv' \in [Instance -> [Space -> Drv]]
<1> DEFINE T == drv' \in [Instance -> [Space -> Drv]]
<1>1. drv \in [Instance -> [Space -> Drv]] /\ doc.gen \in Generation /\ NoDriver \in Drv
  BY RecordTypes DEF TypeOK, Doc
<1>2. ASSUME NEW i \in Instance, NEW s \in Space, NEW d \in Drv, drv' = [drv EXCEPT ![i][s] = d]
      PROVE  T
  BY <1>1, <1>2
<1>3. ASSUME NEW i \in Instance, NEW f \in [Space -> Drv], drv' = [drv EXCEPT ![i] = f]
      PROVE  T
  BY <1>1, <1>3
<1>4. CASE UNCHANGED drv
  BY <1>1, <1>4
<1>5. ASSUME NEW i \in Instance, NEW s \in Space
      PROVE  /\ drv[i][s] \in Drv
             /\ [drv[i][s] EXCEPT !.valid = FALSE] \in Drv
             /\ [drv[i][s] EXCEPT !.at = "none", !.valid = FALSE] \in Drv
             /\ [drv[i][s] EXCEPT !.at = "idle"] \in Drv
             /\ [drv[i][s] EXCEPT !.at = "done", !.valid = FALSE, !.group = FALSE] \in Drv
             /\ \A g \in BOOLEAN : /\ [drv[i][s] EXCEPT !.at = "effect", !.group = g] \in Drv
                                   /\ [drv[i][s] EXCEPT !.group = g] \in Drv
  <2>1. drv[i][s] \in Drv
    BY <1>1
  <2>2. QED
    BY <2>1 DEF Drv
<1>6. ASSUME NEW i \in Instance, Crash(i) \/ Exit(i) PROVE T
  <2>1. [s \in Space |-> IF drv[i][s].group /\ ~GroupsDieWithDaemon
                           THEN [drv[i][s] EXCEPT !.at = "none", !.valid = FALSE]
                           ELSE NoDriver] \in [Space -> Drv]
    BY <1>1, <1>5
  <2>2. QED
    BY <1>3, <1>6, <2>1 DEF Crash, Exit, Ended
<1>7. ASSUME NEW i \in Instance PROVE Quiesced(i) \in [Space -> Drv]
  BY <1>5 DEF Quiesced
<1>8. ASSUME NEW i \in Instance, Quiesce(i) \/ \E t \in Thread : LatchMark(i, t) PROVE T
  BY <1>3, <1>7, <1>8 DEF Quiesce, LatchMark
<1>9. ASSUME NEW i \in Instance, KillGroups(i) PROVE T
  <2>1. PICK immune \in SUBSET {s \in Space : drv[i][s].group} :
          drv' = [drv EXCEPT ![i] = [s \in Space |->
                   [drv[i][s] EXCEPT !.group = s \in immune]]]
    BY <1>9 DEF KillGroups
  <2>2. ASSUME NEW s \in Space PROVE [drv[i][s] EXCEPT !.group = s \in immune] \in Drv
    <3>0. (s \in immune) \in BOOLEAN
      OBVIOUS
    <3>1. PICK g \in BOOLEAN : g = (s \in immune)
      BY <3>0, Zenon
    <3>2. [drv[i][s] EXCEPT !.group = g] \in Drv
      BY <1>5
    <3>3. QED
      BY <3>1, <3>2
  <2>3. [s \in Space |-> [drv[i][s] EXCEPT !.group = s \in immune]] \in [Space -> Drv]
    BY <2>2
  <2>4. QED
    BY <1>3, <2>1, <2>3
<1>10. ASSUME NEW i \in Instance, NEW s \in Space,
              Reap(i, s) \/ Finish(i, s) \/ LoseScope(i, s) \/ ThreadExit(i, s)
       PROVE  T
  <2>1. CASE Reap(i, s)
    BY <1>1, <1>2, <2>1 DEF Reap
  <2>2. CASE Finish(i, s)
    BY <1>2, <1>5, <2>2 DEF Finish
  <2>3. CASE LoseScope(i, s)
    BY <1>2, <1>5, <2>3 DEF LoseScope
  <2>4. CASE ThreadExit(i, s)
    BY <1>2, <1>5, <2>4 DEF ThreadExit
  <2>5. QED
    BY <1>10, <2>1, <2>2, <2>3, <2>4
<1>11. ASSUME NEW i \in Instance, NEW s \in Space, NEW k \in Kinds, Prepare(i, s, k) PROVE T
  <2>1. PICK g \in BOOLEAN : g = (drv[i][s].group \/ k = "provider")
    OBVIOUS
  <2>2. drv' = [drv EXCEPT ![i][s] = [@ EXCEPT !.at = "effect", !.group = g]]
    BY <1>11, <2>1 DEF Prepare
  <2>3. QED
    BY <1>2, <1>5, <2>2
<1>12. ASSUME NEW i \in Instance, NEW s \in Space, NEW w \in Worker, Supervise(i, w, s) PROVE T
  <2>1. [at |-> "idle", gen |-> doc.gen, valid |-> TRUE, group |-> FALSE] \in Drv
    BY <1>1 DEF Drv
  <2>2. QED
    BY <1>2, <1>12, <2>1 DEF Supervise
<1>13. QED
  BY <1>4, <1>6, <1>8, <1>9, <1>10, <1>11, <1>12, DriversAreWritten DEF DriverWriter

\* A step keeps every variable in its type.
LEMMA TypeStep == TypeOK /\ [Next]_vars => TypeOK'
<1> SUFFICES ASSUME TypeOK, [Next]_vars PROVE TypeOK'
  OBVIOUS
<1>1. CASE UNCHANGED vars
  BY <1>1 DEF vars, TypeOK
<1>2. CASE Next
  <2>1. sock' \in Instance \cup {Nobody}
    <3>1. sock \in Instance \cup {Nobody}
      BY DEF TypeOK
    <3>2. CASE Environment
      BY <1>2, <3>1, <3>2 DEF Environment, ProbeSocket, RemoveSocket, BindSocket, BindFails, Crash,
           RequestStop, AcceptStart, ExpireSupervisor, Resolve, Expire
    <3>3. ASSUME NEW i \in Instance, NEW w \in Worker, WorkerStep(i, w)
          PROVE  sock' = sock
      BY <3>3 DEF WorkerStep, BeginBundle, PublishRecovery, Acquire, Verify, LeaveAdopt, EndWorker,
           LatchDrain, LatchMark, RecoverSpace, Supervise
    <3>4. ASSUME NEW i \in Instance, BeatStep(i) PROVE sock' = sock
      BY <3>4 DEF BeatStep, BeatLoses, BeatDrops, BeatEnds, LatchDrain, LatchMark
    <3>5. ASSUME NEW i \in Instance, ServeStep(i) PROVE sock' \in {sock, Nobody}
      BY <3>5 DEF ServeStep, LeaveServing, JoinWorkers, Quiesce, KillGroups, DrainConverged,
           DrainIncomplete, SkipSettlement, EndSettlement, DrainAuthority, ShutAuthority, JoinBeat,
           Release, Exit, SettleSpace
    <3>6. ASSUME NEW i \in Instance, NEW s \in Space, Reap(i, s) \/ DriverStep(i, s)
          PROVE  sock' = sock
      BY <3>6 DEF DriverStep, Reap, Prepare, Finish, LoseScope, ThreadExit
    <3>7. QED
      BY <1>2, <3>1, <3>2, <3>3, <3>4, <3>5, <3>6 DEF Next
  <2>2. QED
    BY <1>2, <2>1, DocTyped, NodesTyped, ThreadsTyped, JobsTyped, TeamTyped, DriversTyped
       DEF TypeOK
<1>3. QED
  BY <1>1, <1>2

-----------------------------------------------------------------------------
(* What a step does to the rows of a Space.                                *)

\* The rows of s keep their generations, and what was settled, released or
\* detached stays so; a marker is of an attached lane.
Eases(s) ==
    LET a == team[s]  b == team'[s] IN
    /\ b.supGen = a.supGen /\ b.cmdGen = a.cmdGen /\ b.laneGen = a.laneGen
    /\ a.sup = "Released" => b.sup = "Released"
    /\ a.cmd = "settled" => b.cmd = "settled"
    /\ b.cmd = "prepared" => a.cmd = "prepared"
    /\ b.resident => a.resident
    /\ b.marked => b.resident

\* Process i starts a supervisor, or an effect, in s under a lease that is good.
Begins(i, s) ==
    LET a == team[s]  b == team'[s] IN
    /\ UNCHANGED <<doc, node, job>>
    /\ Up(i) /\ ~node[i].lost /\ Authorized(i, doc.gen)
    /\ b.supGen = doc.gen /\ b.laneGen = doc.gen
    /\ \/ b.cmdGen = a.cmdGen /\ b.cmd = a.cmd /\ drv[i][s].at = "none"
       \/ b.cmdGen = doc.gen /\ drv'[i][s].at = "effect"
    /\ drv[i][s].at \in {"none", "idle"}
    /\ drv'[i][s].at \in {"idle", "effect"} /\ drv'[i][s].gen = doc.gen
    /\ b.marked => b.resident
    /\ \/ \E w \in Worker : pc[i][w] = "adopt" /\ StartGateFree(i, w)
       \/ Live(drv[i][s]) /\ UNCHANGED pc

\* Detaching a lane eases its Space.
LEMMA DetachedEases ==
    ASSUME TypeOK, NEW s \in Space, team'[s] = Detached(team[s]) PROVE Eases(s)
<1>1. team[s] \in Team
  BY DEF TypeOK
<1>2. QED
  BY <1>1 DEF Eases, Detached, Team

\* So does marking the lanes a process remembers.
LEMMA MarkedEases ==
    ASSUME TypeOK, MarkedLaneIsAttached, NEW i \in Instance, team' = Marked(i), NEW s \in Space
    PROVE  Eases(s)
<1>1. team[s] \in Team /\ (team[s].marked => team[s].resident)
  BY DEF TypeOK, MarkedLaneIsAttached
<1>2. CASE team'[s] = team[s]
  BY <1>1, <1>2 DEF Eases
<1>3. CASE team[s].resident /\ team'[s] = [team[s] EXCEPT !.marked = TRUE]
  BY <1>1, <1>3 DEF Eases, Team
<1>4. QED
  BY <1>2, <1>3 DEF Marked

\* An effect begins under the driver's own rows.
LEMMA PrepareBegins ==
    ASSUME IndInv, NEW i \in Instance, NEW s \in Space, NEW k \in Kinds, Prepare(i, s, k)
    PROVE  Begins(i, s)
<1>1. /\ team \in [Space -> Team] /\ team[s] \in Team
      /\ drv[i][s] \in Drv /\ drv \in [Instance -> [Space -> Drv]] /\ DriverFits(i, s)
  BY DEF TypeOK, IndInv
<1>2. /\ Up(i) /\ ~node[i].lost /\ Authorized(i, doc.gen) /\ drv[i][s].gen = doc.gen
      /\ drv[i][s].at = "idle" /\ team[s].supGen = doc.gen
      /\ UNCHANGED <<doc, node, job, pc>>
  BY DEF Prepare, Authorized
<1>3. Live(drv[i][s]) /\ team[s].laneGen = doc.gen
  BY <1>1, <1>2 DEF Live, DriverFits
<1>4. team'[s] = [team[s] EXCEPT !.cmdGen = doc.gen, !.cmd = "prepared", !.kind = k,
                                 !.resident = TRUE]
  BY <1>1 DEF Prepare
<1>5. /\ team'[s].cmdGen = doc.gen /\ team'[s].supGen = doc.gen /\ team'[s].laneGen = doc.gen
      /\ team'[s].resident
  BY <1>1, <1>2, <1>3, <1>4 DEF Team
<1>6. drv'[i][s].at = "effect" /\ drv'[i][s].gen = doc.gen
  BY <1>1, <1>2 DEF Prepare, Drv
<1>7. QED
  BY <1>2, <1>3, <1>5, <1>6 DEF Begins

\* A supervisor begins under the machine's lease.
LEMMA SuperviseBegins ==
    ASSUME TypeOK, MarkedLaneIsAttached, NEW i \in Instance, NEW w \in Worker, NEW s \in Space,
           Supervise(i, w, s)
    PROVE  Begins(i, s)
<1>1. /\ team \in [Space -> Team] /\ team[s] \in Team /\ (team[s].marked => team[s].resident)
      /\ drv \in [Instance -> [Space -> Drv]]
  BY DEF TypeOK, MarkedLaneIsAttached
<1>2. /\ Up(i) /\ ~node[i].lost /\ Authorized(i, doc.gen) /\ drv[i][s].at = "none"
      /\ pc[i][w] = "adopt" /\ StartGateFree(i, w)
      /\ UNCHANGED <<doc, node, job>>
  BY DEF Supervise
<1>3. team'[s] = [team[s] EXCEPT !.supGen = doc.gen, !.sup = "Active", !.laneGen = doc.gen]
  BY <1>1 DEF Supervise
<1>4. /\ team'[s].supGen = doc.gen /\ team'[s].laneGen = doc.gen
      /\ team'[s].cmdGen = team[s].cmdGen /\ team'[s].cmd = team[s].cmd
      /\ team'[s].marked => team'[s].resident
  BY <1>1, <1>3 DEF Team
<1>5. drv'[i][s].at = "idle" /\ drv'[i][s].gen = doc.gen
  BY <1>1 DEF Supervise
<1>6. QED
  BY <1>2, <1>4, <1>5 DEF Begins

\* Every step eases the rows of a Space, or starts a supervisor or an effect in it.
LEMMA RowMoves ==
    ASSUME TypeOK, MarkedLaneIsAttached, Next, NEW s \in Space
    PROVE  \/ Eases(s)
           \/ \E i \in Instance, k \in Kinds : Prepare(i, s, k)
           \/ \E i \in Instance, w \in Worker : Supervise(i, w, s)
<1> DEFINE T == \/ Eases(s)
                \/ \E i \in Instance, k \in Kinds : Prepare(i, s, k)
                \/ \E i \in Instance, w \in Worker : Supervise(i, w, s)
<1>1. /\ TypeOK /\ MarkedLaneIsAttached /\ team \in [Space -> Team] /\ team[s] \in Team
      /\ team[s].marked => team[s].resident
  BY DEF TypeOK, MarkedLaneIsAttached
<1>2. team'[s] = team[s] => Eases(s)
  BY <1>1 DEF Eases
<1>3. CASE UNCHANGED team
  BY <1>2, <1>3
<1>4. ASSUME NEW r \in Space, ExpireSupervisor(r) \/ Resolve(r) PROVE T
  <2>1. CASE r = s
    BY <1>1, <1>4, <2>1 DEF Eases, ExpireSupervisor, Resolve, Team
  <2>2. CASE r # s
    BY <1>1, <1>2, <1>4, <2>2 DEF ExpireSupervisor, Resolve
  <2>3. QED
    BY <2>1, <2>2
<1>5. ASSUME NEW i \in Instance, DrainIncomplete(i) \/ SkipSettlement(i) PROVE T
  BY <1>1, <1>5, MarkedEases DEF DrainIncomplete, SkipSettlement
<1>6. ASSUME NEW i \in Instance, NEW t \in Thread, LatchMark(i, t) PROVE T
  BY <1>1, <1>6, MarkedEases DEF LatchMark
<1>7. ASSUME NEW i \in Instance, NEW r \in Space, SettleSpace(i, r) PROVE T
  <2>1. team' = team \/ team' = [team EXCEPT ![r] = Detached(@)]
    BY <1>7 DEF SettleSpace
  <2>2. QED
    BY <1>1, <1>2, <2>1, DetachedEases
<1>8. ASSUME NEW i \in Instance, NEW r \in Space, Finish(i, r) \/ ThreadExit(i, r) PROVE T
  <2>1. \/ team' = team
        \/ /\ team[r].cmd = "prepared"
           /\ \E c \in {"settled", "unknown"} : team' = [team EXCEPT ![r].cmd = c]
        \/ team' = [team EXCEPT ![r].sup = "Released"]
    <3>1. CASE Finish(i, r)
      BY <1>1, <3>1, FinishForm DEF Drives
    <3>2. CASE ThreadExit(i, r)
      BY <3>2 DEF ThreadExit
    <3>3. QED
      BY <1>8, <3>1, <3>2
  <2>2. CASE r = s
    BY <1>1, <1>2, <2>1, <2>2 DEF Eases, Team
  <2>3. CASE r # s
    BY <1>1, <1>2, <2>1, <2>3
  <2>4. QED
    BY <2>2, <2>3
<1>9. ASSUME NEW i \in Instance, NEW w \in Worker, NEW r \in Space, RecoverSpace(i, w, r) PROVE T
  <2>1. team' = team \/ team' = [team EXCEPT ![r] = RecoveredTeam(r, job[i][w].pred)]
    BY <1>9 DEF RecoverSpace
  <2>2. CASE team'[s] = team[s]
    BY <1>2, <2>2
  <2>3. CASE team'[s] = RecoveredTeam(s, job[i][w].pred)
    BY <1>1, <2>3, RecoveredRow DEF Eases
  <2>4. QED
    BY <1>1, <2>1, <2>2, <2>3
<1>10. ASSUME NEW i \in Instance, NEW r \in Space, NEW k \in Kinds, Prepare(i, r, k) PROVE T
  <2>1. CASE r # s
    BY <1>1, <1>2, <1>10, <2>1 DEF Prepare
  <2>2. QED
    BY <1>10, <2>1
<1>11. ASSUME NEW i \in Instance, NEW w \in Worker, NEW r \in Space, Supervise(i, w, r) PROVE T
  <2>1. CASE r # s
    BY <1>1, <1>2, <1>11, <2>1 DEF Supervise
  <2>2. QED
    BY <1>11, <2>1
<1>12. QED
  BY <1>3, <1>4, <1>5, <1>6, <1>7, <1>8, <1>9, <1>10, <1>11, TeamIsWritten DEF TeamWriter

\* Either way something is begun in it.
LEMMA TeamMoves ==
    ASSUME IndInv, Next, NEW s \in Space
    PROVE  Eases(s) \/ \E i \in Instance : Begins(i, s)
BY RowMoves, PrepareBegins, SuperviseBegins DEF IndInv

\* What a Space no longer owes a generation it never owes again, unless something
\* is begun in it under that generation.
LEMMA ClearStays ==
    ASSUME IndInv, Next, NEW s \in Space, NEW g, Clear(s, g)
    PROVE  Clear(s, g)' \/ (g = doc.gen /\ \E i \in Instance : Begins(i, s))
<1>1. CASE Eases(s)
  <2>1. team[s].marked => team[s].resident
    BY DEF IndInv, MarkedLaneIsAttached
  <2>2. QED
    BY <1>1, <2>1 DEF Clear, Eases, Unsettled, Unreleased, InUse
<1>2. ASSUME NEW i \in Instance, Begins(i, s), g # doc.gen
      PROVE  Clear(s, g)'
  BY <1>2 DEF Clear, Begins, Unsettled, Unreleased, InUse
<1>3. QED
  BY <1>1, <1>2, TeamMoves

-----------------------------------------------------------------------------
(* What a step does to the machine lease document.                         *)

\* The document stays with its owner and generation, and a release is final.
Keeps ==
    /\ doc'.gen = doc.gen /\ doc'.owner = doc.owner
    /\ doc'.status = "Absent" <=> doc.status = "Absent"
    /\ doc.status = "Released" => doc'.status = "Released"

\* Worker w of process i takes the next generation of a free machine.
Grants(i, w) ==
    /\ FreeMachine /\ Up(i) /\ pc[i][w] = "acquire"
    /\ doc' = [gen |-> doc.gen + 1, owner |-> i, fresh |-> TRUE, status |-> "Active"]
    /\ node' = [node EXCEPT ![i].held = doc.gen + 1]
    /\ job' = [job EXCEPT ![i][w] = [@ EXCEPT !.pred = doc.gen + 1]]
    /\ pc' = [pc EXCEPT ![i][w] = "verify"]
    /\ UNCHANGED <<team, drv>>

\* The machine has an owner exactly when its document is there, and then it is
\* in its first generation or a later one.
LEMMA OwnedDoc ==
    ASSUME IndInv
    PROVE  /\ doc \in Doc /\ doc.gen \in Nat /\ MaxGeneration \in Nat
           /\ \A i \in Instance : Owns(i) => doc.status # "Absent" /\ doc.gen # 0
           /\ doc.status # "Absent" => doc.owner \in Instance
<1>1. doc \in Doc /\ Nobody \notin Instance /\ MaxGeneration \in Nat
  BY NodeDaemonAssumption DEF IndInv, TypeOK
<1>2. QED
  BY <1>1 DEF IndInv, OwnerIsKnown, Owns, Doc, Generation

\* Every step keeps the document's owner and generation, or grants the next one.
LEMMA DocMoves ==
    ASSUME IndInv, Next
    PROVE  Keeps \/ \E i \in Instance, w \in Worker : Grants(i, w)
<1>2. doc' = doc => Keeps
  BY DEF Keeps
<1>3. CASE UNCHANGED doc
  BY <1>2, <1>3
<1>4. CASE Expire
  BY <1>4, OwnedDoc DEF Expire, Keeps, Doc
<1>5. ASSUME NEW i \in Instance, doc' = Drained(i) PROVE Keeps
  BY <1>5, OwnedDoc DEF Drained, Keeps, Doc
<1>6. ASSUME doc' = ReleasedDoc, doc.status # "Absent" PROVE Keeps
  BY <1>6, OwnedDoc DEF ReleasedDoc, Keeps, Doc
<1>7. ASSUME NEW i \in Instance, DrainAuthority(i) PROVE Keeps
  BY <1>2, <1>5, <1>7 DEF DrainAuthority
<1>8. ASSUME NEW i \in Instance, Release(i) PROVE Keeps
  BY <1>2, <1>6, <1>8, OwnedDoc DEF Release
<1>9. ASSUME NEW i \in Instance, NEW t \in Thread, LatchDrain(i, t) PROVE Keeps
  BY <1>2, <1>5, <1>9 DEF LatchDrain
<1>10. ASSUME NEW i \in Instance, NEW w \in Worker, PublishRecovery(i, w) PROVE Keeps
  <2>1. RecoveryFits(i, w)
    BY DEF IndInv
  <2>2. \/ doc' = doc
        \/ doc.gen = job[i][w].pred /\ doc' = ReleasedDoc
    BY <1>10 DEF PublishRecovery
  <2>3. doc.gen = job[i][w].pred => doc.owner \in Instance
    BY <1>10, <2>1 DEF RecoveryFits, PublishRecovery
  <2>4. doc.owner \in Instance => doc.status # "Absent"
    BY OwnedDoc DEF Owns
  <2>5. QED
    BY <1>2, <1>6, <2>2, <2>3, <2>4
<1>11. ASSUME NEW i \in Instance, NEW w \in Worker, Verify(i, w) PROVE Keeps
  <2>1. RollbackIsOwn(i, w)
    BY DEF IndInv
  <2>2. \/ doc' = doc
        \/ doc.gen = job[i][w].pred /\ doc' = ReleasedDoc
    BY <1>11 DEF Verify, RolledBack
  <2>3. doc.gen = job[i][w].pred => Owns(i)
    BY <1>11, <2>1 DEF RollbackIsOwn, Verify
  <2>4. QED
    BY <1>2, <1>6, <2>2, <2>3, OwnedDoc
<1>12. ASSUME NEW i \in Instance, NEW w \in Worker, Acquire(i, w) PROVE Keeps \/ Grants(i, w)
  BY <1>2, <1>12 DEF Acquire, Grants
<1>13. QED
  BY <1>3, <1>4, <1>7, <1>8, <1>9, <1>10, <1>11, <1>12, DocIsWritten DEF DocWriter

\* But for a rollback, a generation is released only when no Space owes it anything
\* and no thread drives for it: by the owner's own shutdown, or by the recovery of
\* a dead owner.
LEMMA ReleaseIsClean ==
    ASSUME IndInv, Next, ~RollsBack, doc.status # "Released", doc'.status = "Released"
    PROVE  /\ \A s \in Space : Clear(s, doc.gen)
           /\ \A i \in Instance, s \in Space : drv[i][s].gen = doc.gen => ~Live(drv[i][s])
           /\ UNCHANGED <<team, drv>>
<1> DEFINE C == \A s \in Space : Clear(s, doc.gen)
           L == \A i \in Instance, s \in Space : drv[i][s].gen = doc.gen => ~Live(drv[i][s])
<1>1. doc \in Doc
  BY OwnedDoc
<1>2. \A i \in Instance, s \in Space :
        Live(drv[i][s]) /\ drv[i][s].gen = doc.gen => Up(i) /\ Owns(i)
  BY DEF IndInv, DriverFits
<1>3. ~UNCHANGED doc
  OBVIOUS
<1>4. ~Expire
  BY <1>1 DEF Expire, Doc
<1>5. \A i \in Instance : doc' # Drained(i)
  BY <1>1 DEF Drained, Doc
<1>6. \A i \in Instance : ~DrainAuthority(i) /\ \A t \in Thread : ~LatchDrain(i, t)
  BY <1>3, <1>5 DEF DrainAuthority, LatchDrain
<1>7. ASSUME NEW i \in Instance, NEW w \in Worker, Acquire(i, w) PROVE FALSE
  BY <1>3, <1>7 DEF Acquire
<1>8. ASSUME NEW i \in Instance, Release(i) PROVE C /\ L /\ UNCHANGED <<team, drv>>
  <2>1. Owns(i) /\ node[i].serve = "release" /\ UNCHANGED <<team, drv>>
    BY <1>3, <1>8 DEF Release
  <2>2. ShutdownFits(i)
    BY DEF IndInv
  <2>3. C /\ \A s \in Space : ~Live(drv[i][s])
    BY <2>1, <2>2 DEF ShutdownFits
  <2>4. QED
    BY <1>2, <2>1, <2>3 DEF Owns
<1>9. ASSUME NEW i \in Instance, NEW w \in Worker, PublishRecovery(i, w)
      PROVE  C /\ L /\ UNCHANGED <<team, drv>>
  <2>1. /\ pc[i][w] = "recover" /\ doc.gen = job[i][w].pred /\ ~job[i][w].failed
        /\ job[i][w].todo = {} /\ UNCHANGED <<team, drv>>
    BY <1>3, <1>9 DEF PublishRecovery, EverySpaceSettled
  <2>2. RecoveryFits(i, w)
    BY DEF IndInv
  <2>3. C /\ doc.owner \in Instance /\ node[doc.owner].proc = "gone"
    BY <2>1, <2>2 DEF RecoveryFits
  <2>4. QED
    BY <1>2, <2>1, <2>3 DEF Owns, Up
<1>10. \A i \in Instance, w \in Worker : ~Verify(i, w)
  BY <1>3 DEF RollsBack
<1>11. QED
  BY <1>3, <1>4, <1>6, <1>7, <1>8, <1>9, <1>10, DocIsWritten DEF DocWriter

-----------------------------------------------------------------------------
(* What a step does to a process and to its supervisor threads.            *)

\* A process ends once; what it remembers is dropped or is the document's
\* generation; and its serve loop moves only by its own steps.
Goes(i) ==
    LET m == node[i]  n == node'[i] IN
    /\ m.proc = "gone" => n.proc = "gone"
    /\ m.proc = "up" => n.proc = "up" \/ (n.proc = "gone" /\ (Crash(i) \/ Exit(i)))
    /\ n.proc = "up" => m.proc \in {"up", "clear"}
    /\ n.held \in {m.held, 0, doc'.gen}
    /\ \/ Crash(i) \/ ServeStep(i)
       \/ n.serve = m.serve /\ n.todo = m.todo /\ n.clean = m.clean /\ n.settled = m.settled

\* Every step takes every process that way.
LEMMA NodeMoves == ASSUME TypeOK, Next, NEW j \in Instance PROVE Goes(j)
<1>1. node \in [Instance -> Node] /\ node[j] \in Node /\ pc \in [Instance -> [Thread ->
                {"idle", "run", "recover", "acquire", "verify", "adopt",
                 "drain", "mark", "ok", "err"}]]
  BY DEF TypeOK
<1>2. node'[j] = node[j] => Goes(j)
  BY DEF Goes
<1>3. CASE UNCHANGED node
  BY <1>2, <1>3
<1>4. ASSUME NEW i \in Instance, i # j, NEW n, node' = [node EXCEPT ![i] = n]
      PROVE  Goes(j)
  BY <1>1, <1>2, <1>4
<1>5. ASSUME NEW i \in Instance, ProbeSocket(i) \/ RemoveSocket(i) \/ BindSocket(i) \/ BindFails(i)
      PROVE  Goes(j)
  <2>1. PICK p \in {"clear", "stale", "up", "gone"} :
          /\ node' = [node EXCEPT ![i].proc = p]
          /\ node[i].proc \notin {"up", "gone"} /\ (p = "up" => node[i].proc = "clear")
    BY <1>5 DEF ProbeSocket, RemoveSocket, BindSocket, BindFails
  <2>2. CASE i = j
    BY <1>1, <2>1, <2>2 DEF Goes, Node
  <2>3. QED
    BY <1>1, <1>2, <2>1, <2>2
<1>6. ASSUME NEW i \in Instance, RequestStop(i) \/ BeatDrops(i)
      PROVE  Goes(j)
  <2>1. \/ node' = [node EXCEPT ![i].stop = TRUE]
        \/ node' = [node EXCEPT ![i].held = 0]
    BY <1>6 DEF RequestStop, BeatDrops
  <2>2. CASE i = j /\ node' = [node EXCEPT ![i].stop = TRUE]
    <3>1. node'[j] = [node[j] EXCEPT !.stop = TRUE]
      BY <1>1, <2>2
    <3>2. QED
      BY <1>1, <3>1 DEF Goes, Node
  <2>3. CASE i = j /\ node' = [node EXCEPT ![i].held = 0]
    BY <1>1, <2>3 DEF Goes, Node
  <2>4. QED
    BY <1>1, <1>2, <2>1, <2>2, <2>3
<1>7. ASSUME NEW i \in Instance, Crash(i) \/ Exit(i) PROVE Goes(j)
  <2>1. /\ Up(i) /\ node' = [node EXCEPT ![i] = [NoProcess EXCEPT !.proc = "gone"]]
        /\ pc' = [pc EXCEPT ![i] = NoThread]
        /\ Crash(i) \/ ServeStep(i)
    BY <1>7 DEF Crash, Exit, Ended, ServeStep
  <2>2. CASE i = j
    <3>1. node'[j].proc = "gone" /\ node'[j].held = 0 /\ pc'[j] = NoThread /\ node[j].proc = "up"
      BY <1>1, <2>1, <2>2 DEF NoProcess, Up
    <3>2. QED
      BY <1>7, <2>1, <2>2, <3>1 DEF Goes
  <2>3. QED
    BY <1>1, <1>4, <2>1, <2>2
<1>8. ASSUME NEW i \in Instance, node' = [node EXCEPT ![i] = LatchedNode(i)] PROVE Goes(j)
  <2>1. CASE i = j
    <3>1. node'[j] = [node[j] EXCEPT !.lost = TRUE, !.stop = TRUE]
      BY <1>1, <1>8, <2>1 DEF LatchedNode
    <3>2. QED
      BY <1>1, <3>1 DEF Goes, Node
  <2>2. QED
    BY <1>4, <1>8, <2>1
<1>9. ASSUME NEW i \in Instance, NEW w \in Worker, Acquire(i, w) PROVE Goes(j)
  <2>1. \/ node' = [node EXCEPT ![i] = LatchedNode(i)]
        \/ node' = [node EXCEPT ![i].held = doc'.gen]
    BY <1>9 DEF Acquire, Latch
  <2>2. CASE i = j /\ node' = [node EXCEPT ![i].held = doc'.gen]
    BY <1>1, <2>2 DEF Goes, Node
  <2>3. QED
    BY <1>1, <1>2, <1>8, <2>1, <2>2
<1>10. ASSUME NEW i \in Instance, BeatLoses(i) \/ \E w \in Worker : Verify(i, w) PROVE Goes(j)
  BY <1>2, <1>8, <1>10 DEF BeatLoses, Verify, Latch
<1>11. ASSUME NEW i \in Instance, ServeStep(i) PROVE Goes(j)
  <2>1. CASE Exit(i)
    BY <1>7, <2>1
  <2>2. ASSUME ~Exit(i)
        PROVE  /\ i # j => node'[j] = node[j]
               /\ i = j => node'[j].proc = node[j].proc /\ node'[j].held = node[j].held
    <3>1. CASE Quiesce(i) \/ KillGroups(i) \/ EndSettlement(i) \/ JoinBeat(i) \/ Release(i)
      <4>1. PICK at : node' = [node EXCEPT ![i].serve = at]
        BY <3>1 DEF Quiesce, KillGroups, EndSettlement, JoinBeat, Release
      <4>2. QED
        BY <1>1, <4>1 DEF Node
    <3>2. CASE ShutAuthority(i)
      BY <1>1, <3>2 DEF ShutAuthority, Node
    <3>3. CASE LeaveServing(i)
      BY <1>1, <3>3 DEF LeaveServing, Node
    <3>4. CASE DrainConverged(i) \/ SkipSettlement(i)
      <4>1. PICK at, todo : node' = [node EXCEPT ![i] = [@ EXCEPT !.serve = at, !.todo = todo]]
        BY <3>4 DEF DrainConverged, SkipSettlement
      <4>2. QED
        BY <1>1, <4>1 DEF Node
    <3>5. CASE DrainIncomplete(i)
      BY <1>1, <3>5 DEF DrainIncomplete, Node
    <3>6. CASE JoinWorkers(i) \/ DrainAuthority(i)
      <4>1. PICK at, c : node' = [node EXCEPT ![i] = [@ EXCEPT !.serve = at, !.clean = c]]
        BY <3>6 DEF JoinWorkers, DrainAuthority
      <4>2. QED
        BY <1>1, <4>1 DEF Node
    <3>7. ASSUME NEW s \in Space, SettleSpace(i, s)
          PROVE  /\ i # j => node'[j] = node[j]
                 /\ i = j => node'[j].proc = node[j].proc /\ node'[j].held = node[j].held
      <4>1. PICK ok \in BOOLEAN, c \in BOOLEAN, d \in BOOLEAN : SettlesAs(i, s, ok, c, d)
        BY <3>7, SettleForm
      <4>2. node' = [node EXCEPT ![i] = [@ EXCEPT !.todo = node[i].todo \ {s}, !.clean = c,
                                                  !.settled = d]]
        BY <4>1 DEF SettlesAs
      <4>3. QED
        BY <1>1, <4>2 DEF Node
    <3>8. QED
      BY <1>11, <2>2, <3>1, <3>2, <3>3, <3>4, <3>5, <3>6, <3>7 DEF ServeStep
  <2>3. CASE ~Exit(i) /\ i = j
    BY <1>1, <1>11, <2>2, <2>3 DEF Goes, Node
  <2>4. QED
    BY <1>2, <2>1, <2>2, <2>3
<1>12. QED
  BY <1>3, <1>5, <1>6, <1>7, <1>9, <1>10, <1>11, NodesAreWritten DEF NodeWriter

\* A supervisor thread is live only if it was, for the same generation; an effect
\* ends only with its thread's return or its process; and a group has its thread,
\* or lost its process.
Continues(i, s) ==
    LET d == drv[i][s]  e == drv'[i][s] IN
    /\ e.group => Live(e) \/ node'[i].proc = "gone"
    /\ Live(e) => Live(d) /\ e.gen = d.gen /\ (Up(i) => Up(i)')
    /\ d.at = "effect" => \/ e.at = "effect" /\ e.gen = d.gen
                          \/ ~Up(i)' \/ Finish(i, s)

\* Every step continues a supervisor thread, or begins something with it.
LEMMA DriverMoves ==
    ASSUME IndInv, Next, NEW i \in Instance, NEW s \in Space
    PROVE  Continues(i, s) \/ Begins(i, s)
<1> DEFINE d == drv[i][s]
           e == drv'[i][s]
           T == Continues(i, s) \/ Begins(i, s)
<1>1. /\ TypeOK /\ MarkedLaneIsAttached /\ drv \in [Instance -> [Space -> Drv]] /\ d \in Drv
      /\ d.group => Live(d) \/ node[i].proc = "gone"
      /\ node \in [Instance -> Node] /\ team \in [Space -> Team] /\ team[s] \in Team
  BY DEF IndInv, TypeOK, DriverFits
<1>2. CASE Crash(i) \/ Exit(i)
  <2>1. drv' = [drv EXCEPT ![i] = [r \in Space |->
                   IF drv[i][r].group /\ ~GroupsDieWithDaemon
                     THEN [drv[i][r] EXCEPT !.at = "none", !.valid = FALSE] ELSE NoDriver]]
    BY <1>2 DEF Crash, Exit, Ended
  <2>2. e = IF d.group /\ ~GroupsDieWithDaemon
              THEN [d EXCEPT !.at = "none", !.valid = FALSE] ELSE NoDriver
    BY <1>1, <2>1
  <2>3. e.at = "none"
    <3>1. CASE d.group /\ ~GroupsDieWithDaemon
      BY <1>1, <2>2, <3>1 DEF Drv
    <3>2. CASE ~(d.group /\ ~GroupsDieWithDaemon)
      BY <2>2, <3>2 DEF NoDriver
    <3>3. QED
      BY <3>1, <3>2
  <2>4. node'[i].proc = "gone"
    BY <1>1, <1>2 DEF Crash, Exit, Ended, NoProcess
  <2>5. QED
    BY <2>3, <2>4 DEF Continues, Live, Up
<1>3. ASSUME ~Crash(i), ~Exit(i) PROVE T
  <2>1. (Up(i) => Up(i)') /\ (node[i].proc = "gone" => node'[i].proc = "gone")
    BY <1>1, <1>3, NodeMoves DEF Goes, Up
  <2>2. e = d => Continues(i, s)
    BY <1>1, <2>1 DEF Continues
  <2>3. CASE UNCHANGED drv
    BY <2>2, <2>3
  <2>4. ASSUME NEW j \in Instance, Crash(j) \/ Exit(j) PROVE T
    BY <1>1, <1>3, <2>2, <2>4 DEF Crash, Exit, Ended
  <2>5. ASSUME NEW j \in Instance, Quiesce(j) \/ \E t \in Thread : LatchMark(j, t) PROVE T
    <3>1. drv' = [drv EXCEPT ![j] = Quiesced(j)]
      BY <2>5 DEF Quiesce, LatchMark
    <3>2. CASE j = i
      <4>1. e = [d EXCEPT !.valid = FALSE]
        BY <1>1, <3>1, <3>2 DEF Quiesced
      <4>2. QED
        BY <1>1, <2>1, <4>1 DEF Continues, Live, Drv
    <3>3. QED
      BY <1>1, <2>2, <3>1, <3>2
  <2>6. ASSUME NEW j \in Instance, KillGroups(j) PROVE T
    <3>1. PICK immune \in SUBSET {r \in Space : drv[j][r].group} :
            drv' = [drv EXCEPT ![j] = [r \in Space |->
                     [drv[j][r] EXCEPT !.group = r \in immune]]]
      BY <2>6 DEF KillGroups
    <3>2. CASE j = i
      <4>1. e = [d EXCEPT !.group = s \in immune]
        BY <1>1, <3>1, <3>2
      <4>2. e.at = d.at /\ e.gen = d.gen /\ (e.group => d.group)
        BY <1>1, <3>1, <3>2, <4>1 DEF Drv
      <4>3. QED
        BY <1>1, <2>1, <4>2 DEF Continues, Live
    <3>3. QED
      BY <1>1, <2>2, <3>1, <3>2
  <2>7. ASSUME NEW j \in Instance, NEW r \in Space,
               Reap(j, r) \/ Finish(j, r) \/ LoseScope(j, r) \/ ThreadExit(j, r)
        PROVE  T
    <3>1. CASE <<j, r>> # <<i, s>>
      BY <1>1, <2>2, <2>7, <3>1 DEF Reap, Finish, LoseScope, ThreadExit
    <3>2. CASE j = i /\ r = s
      <4>1. CASE Reap(i, s)
        <5>1. e = NoDriver /\ d.at = "done"
          BY <1>1, <4>1 DEF Reap, Reapable
        <5>2. QED
          BY <5>1 DEF Continues, Live, NoDriver
      <4>2. CASE Finish(i, s)
        <5>1. e = [d EXCEPT !.at = "idle"] /\ d.at = "effect"
          BY <1>1, <4>2 DEF Finish
        <5>2. QED
          BY <1>1, <2>1, <4>2, <5>1 DEF Continues, Live, Drv
      <4>3. CASE LoseScope(i, s)
        <5>1. e = [d EXCEPT !.valid = FALSE]
          BY <1>1, <4>3 DEF LoseScope
        <5>2. QED
          BY <1>1, <2>1, <5>1 DEF Continues, Live, Drv
      <4>4. CASE ThreadExit(i, s)
        <5>1. e = [d EXCEPT !.at = "done", !.valid = FALSE, !.group = FALSE] /\ d.at = "idle"
          BY <1>1, <4>4 DEF ThreadExit
        <5>2. QED
          BY <1>1, <5>1 DEF Continues, Live, Drv
      <4>5. QED
        BY <2>7, <3>2, <4>1, <4>2, <4>3, <4>4
    <3>3. QED
      BY <3>1, <3>2
  <2>8. ASSUME NEW j \in Instance, NEW r \in Space, NEW k \in Kinds, Prepare(j, r, k) PROVE T
    <3>1. CASE <<j, r>> # <<i, s>>
      BY <1>1, <2>2, <2>8, <3>1 DEF Prepare
    <3>2. QED
      BY <2>8, <3>1, PrepareBegins
  <2>9. ASSUME NEW j \in Instance, NEW w \in Worker, NEW r \in Space, Supervise(j, w, r) PROVE T
    <3>1. CASE <<j, r>> # <<i, s>>
      BY <1>1, <2>2, <2>9, <3>1 DEF Supervise
    <3>2. QED
      BY <1>1, <2>9, <3>1, SuperviseBegins
  <2>10. QED
    BY <2>3, <2>4, <2>5, <2>6, <2>7, <2>8, <2>9, DriversAreWritten DEF DriverWriter
<1>4. QED
  BY <1>2, <1>3

-----------------------------------------------------------------------------
(* What a step does to a thread and to its bundle.                         *)

\* A thread at rest stays there while its process lives, but for a control worker
\* that accepts a start.
Turns(i, t) ==
    LET p == pc[i][t]  q == pc'[i][t] IN
    \/ q = p
    \/ (Crash(i) \/ Exit(i)) /\ pc'[i] = NoThread
    \/ t = "ctl" /\ q = "run" /\ ControlStarts /\ node[i].serve = "serve"
    \/ p \notin {"idle", "ok", "err"}

\* Every step takes every thread that way.
LEMMA ThreadMoves ==
    ASSUME TypeOK, Next, NEW i \in Instance, NEW t \in Thread PROVE Turns(i, t)
<1>1. /\ pc \in [Instance -> [Thread -> {"idle", "run", "recover", "acquire", "verify",
                                        "adopt", "drain", "mark", "ok", "err"}]]
      /\ Worker \subseteq Thread /\ "beat" \in Thread /\ "ctl" \in Worker /\ "beat" \notin Worker
      /\ node \in [Instance -> Node]
  BY DEF TypeOK, Thread, Worker
<1>2. pc'[i][t] = pc[i][t] => Turns(i, t)
  BY DEF Turns
<1>3. CASE UNCHANGED pc
  BY <1>2, <1>3
<1>4. ASSUME NEW j \in Instance, NEW u \in Thread, NEW q, pc' = [pc EXCEPT ![j][u] = q],
             <<j, u>> # <<i, t>>
      PROVE  Turns(i, t)
  BY <1>1, <1>2, <1>4
<1>5. ASSUME NEW q, pc' = [pc EXCEPT ![i][t] = q] PROVE pc'[i][t] = q
  BY <1>1, <1>5
<1>6. ASSUME NEW j \in Instance, Crash(j) \/ Exit(j) PROVE Turns(i, t)
  <2>1. pc' = [pc EXCEPT ![j] = NoThread]
    BY <1>6 DEF Crash, Exit, Ended
  <2>2. QED
    BY <1>1, <1>2, <1>6, <2>1 DEF Turns
<1>7. ASSUME NEW j \in Instance, AcceptStart(j) PROVE Turns(i, t)
  <2>1. /\ pc' = [pc EXCEPT ![j]["ctl"] = "run"] /\ ControlStarts /\ node[j].serve = "serve"
    BY <1>7 DEF AcceptStart
  <2>2. CASE j = i /\ t = "ctl"
    BY <1>5, <2>1, <2>2 DEF Turns
  <2>3. QED
    BY <1>1, <1>4, <2>1, <2>2
<1>8. ASSUME NEW j \in Instance, BeatLoses(j) \/ BeatEnds(j) PROVE Turns(i, t)
  <2>1. /\ pc[j]["beat"] = "run"
        /\ \E q : pc' = [pc EXCEPT ![j]["beat"] = q]
    BY <1>8 DEF BeatLoses, BeatEnds, Latch
  <2>2. CASE j = i /\ t = "beat"
    BY <2>1, <2>2 DEF Turns
  <2>3. PICK q : pc' = [pc EXCEPT ![j]["beat"] = q]
    BY <2>1
  <2>4. CASE <<j, "beat">> # <<i, t>>
    BY <1>1, <1>4, <2>3, <2>4
  <2>5. QED
    BY <2>2, <2>4
<1>9. ASSUME NEW j \in Instance, NEW u \in Thread, LatchDrain(j, u) \/ LatchMark(j, u)
       PROVE  Turns(i, t)
  <2>1. \/ pc[j][u] = "drain" /\ pc' = [pc EXCEPT ![j][u] = "mark"]
        \/ pc[j][u] = "mark" /\ pc' = [pc EXCEPT ![j][u] = EndOf(u)]
    BY <1>9 DEF LatchDrain, LatchMark
  <2>2. CASE j = i /\ u = t
    BY <2>1, <2>2 DEF Turns
  <2>3. PICK q : pc' = [pc EXCEPT ![j][u] = q]
    BY <2>1
  <2>4. CASE <<j, u>> # <<i, t>>
    BY <1>4, <2>3, <2>4
  <2>5. QED
    BY <2>2, <2>4
<1>10. ASSUME NEW j \in Instance, NEW w \in Worker,
              \/ BeginBundle(j, w) \/ PublishRecovery(j, w) \/ Acquire(j, w)
              \/ Verify(j, w) \/ LeaveAdopt(j, w) \/ EndWorker(j, w)
              \/ \E s \in Space : Supervise(j, w, s)
       PROVE  Turns(i, t)
  <2>1. \/ pc' = pc
        \/ \E q : pc' = [pc EXCEPT ![j][w] = q]
    BY <1>10 DEF BeginBundle, PublishRecovery, Acquire, Verify, LeaveAdopt, EndWorker,
         Supervise, Latch
  <2>2. CASE j = i /\ w = t
    <3>1. pc[i][t] \notin {"idle", "ok", "err"}
      BY <1>10, <2>2 DEF BeginBundle, PublishRecovery, Acquire, Verify, LeaveAdopt, EndWorker,
           Supervise
    <3>2. QED
      BY <3>1 DEF Turns
  <2>3. QED
    BY <1>1, <1>2, <1>4, <2>1, <2>2
<1>11. QED
  BY <1>3, <1>6, <1>7, <1>8, <1>9, <1>10, ThreadsAreWritten DEF ThreadWriter

\* A worker's bundle goes from control point to control point by its own steps.
Bundles(i, w) ==
    \/ pc'[i][w] = pc[i][w] /\ job'[i][w] = job[i][w]
    \/ BeginBundle(i, w) \/ PublishRecovery(i, w) \/ Acquire(i, w)
    \/ \E s \in Space : RecoverSpace(i, w, s)
    \/ /\ pc'[i][w] \notin {"recover", "acquire", "verify"}
       /\ job'[i][w].pred \in {job[i][w].pred, 0}

\* Every step takes every bundle that way.
LEMMA BundleMoves ==
    ASSUME TypeOK, Next, NEW i \in Instance, NEW w \in Worker PROVE Bundles(i, w)
<1>1. /\ pc \in [Instance -> [Thread -> {"idle", "run", "recover", "acquire", "verify",
                                        "adopt", "drain", "mark", "ok", "err"}]]
      /\ Worker \subseteq Thread /\ "beat" \in Thread /\ "ctl" \in Worker /\ "beat" \notin Worker
      /\ job \in [Instance -> [Worker -> Job]]
  BY DEF TypeOK, Thread, Worker
<1> DEFINE Own == \/ BeginBundle(i, w) \/ PublishRecovery(i, w) \/ Acquire(i, w)
                  \/ \E s \in Space : RecoverSpace(i, w, s)
           Ends == Crash(i) \/ Exit(i)
<1>2. CASE Own
  BY <1>2 DEF Bundles
<1>3. CASE Ends
  <2>1. pc' = [pc EXCEPT ![i] = NoThread] /\ job' = [job EXCEPT ![i] = [v \in Worker |-> NoJob]]
    BY <1>3 DEF Crash, Exit, Ended
  <2>2. pc'[i][w] \in {"idle", "run"} /\ job'[i][w].pred = 0
    BY <1>1, <2>1 DEF NoThread, NoJob
  <2>3. QED
    BY <2>2 DEF Bundles
<1>4. ASSUME ~Own, ~Ends PROVE job'[i][w] = job[i][w]
  <2>1. CASE UNCHANGED job
    BY <2>1
  <2>2. ASSUME NEW j \in Instance, Crash(j) \/ Exit(j) PROVE job'[i][w] = job[i][w]
    BY <1>1, <1>4, <2>2 DEF Crash, Exit, Ended
  <2>3. ASSUME NEW j \in Instance, NEW v \in Worker,
               \/ BeginBundle(j, v) \/ PublishRecovery(j, v) \/ Acquire(j, v)
               \/ \E s \in Space : RecoverSpace(j, v, s)
        PROVE  job'[i][w] = job[i][w]
    <3>1. <<j, v>> # <<i, w>>
      BY <1>4, <2>3
    <3>2. job' = job \/ \E b : job' = [job EXCEPT ![j][v] = b]
      BY <2>3 DEF BeginBundle, PublishRecovery, Acquire, RecoverSpace
    <3>3. QED
      BY <1>1, <3>1, <3>2
  <2>4. QED
    BY <2>1, <2>2, <2>3, JobsAreWritten DEF JobWriter
<1>5. ASSUME ~Own, ~Ends
      PROVE  pc'[i][w] = pc[i][w] \/ pc'[i][w] \notin {"recover", "acquire", "verify"}
  <2> DEFINE G == pc'[i][w] = pc[i][w] \/ pc'[i][w] \notin {"recover", "acquire", "verify"}
  <2>1. CASE UNCHANGED pc
    BY <2>1
  <2>2. ASSUME NEW j \in Instance, Crash(j) \/ Exit(j) PROVE G
    BY <1>1, <1>5, <2>2 DEF Crash, Exit, Ended
  <2>3. ASSUME NEW j \in Instance, AcceptStart(j) \/ BeatLoses(j) \/ BeatEnds(j) PROVE G
    <3>1. PICK u \in Thread, q \in {"run", "drain", "ok"} : pc' = [pc EXCEPT ![j][u] = q]
      BY <1>1, <2>3 DEF AcceptStart, BeatLoses, BeatEnds, Latch
    <3>2. QED
      BY <1>1, <3>1
  <2>4. ASSUME NEW j \in Instance, NEW u \in Thread, LatchDrain(j, u) \/ LatchMark(j, u) PROVE G
    BY <1>1, <2>4 DEF LatchDrain, LatchMark, EndOf
  <2>5. ASSUME NEW j \in Instance, NEW v \in Worker,
               BeginBundle(j, v) \/ PublishRecovery(j, v) \/ Acquire(j, v)
        PROVE  G
    <3>1. <<j, v>> # <<i, w>>
      BY <1>5, <2>5
    <3>2. \E q : pc' = [pc EXCEPT ![j][v] = q]
      BY <2>5 DEF BeginBundle, PublishRecovery, Acquire, Latch
    <3>3. QED
      BY <1>1, <3>1, <3>2
  <2>6. ASSUME NEW j \in Instance, NEW v \in Worker,
               \/ Verify(j, v) \/ LeaveAdopt(j, v) \/ EndWorker(j, v)
               \/ \E s \in Space : Supervise(j, v, s)
        PROVE  G
    <3>1. \/ pc' = pc
          \/ \E q \in {"adopt", "drain", "run", "idle", "ok", "err"} : pc' = [pc EXCEPT ![j][v] = q]
      BY <2>6 DEF Verify, LeaveAdopt, EndWorker, Supervise, Latch, EndOf
    <3>2. QED
      BY <1>1, <3>1
  <2>7. QED
    BY <2>1, <2>2, <2>3, <2>4, <2>5, <2>6, ThreadsAreWritten DEF ThreadWriter
<1>6. QED
  BY <1>2, <1>3, <1>4, <1>5 DEF Bundles

-----------------------------------------------------------------------------
(* The parts of the invariant, one by one.                                 *)

\* The document's owner stays known.
LEMMA OwnerStep == ASSUME IndInv, Next PROVE OwnerIsKnown'
<1>1. /\ TypeOK /\ OwnerIsKnown /\ doc.gen \in Nat /\ node \in [Instance -> Node]
      /\ Nobody \notin Instance
  BY OwnedDoc, NodeDaemonAssumption DEF IndInv, TypeOK
<1>2. \A i \in Instance : Goes(i)
  BY <1>1, NodeMoves
<1>3. CASE Keeps
  <2>1. /\ doc'.status = "Absent" <=> doc'.owner = Nobody
        /\ doc'.status = "Absent" <=> doc'.gen = 0
    BY <1>1, <1>3 DEF Keeps, OwnerIsKnown
  <2>2. ASSUME NEW i \in Instance, Owns(i)'
        PROVE  node'[i].proc \in {"up", "gone"} /\ (Up(i)' => node'[i].held \in {0, doc'.gen})
    <3>1. node[i].proc \in {"up", "gone"} /\ (Up(i) => node[i].held \in {0, doc.gen})
      BY <1>1, <1>3, <2>2 DEF Keeps, OwnerIsKnown, Owns
    <3>2. Goes(i) /\ doc'.gen = doc.gen
      BY <1>2, <1>3 DEF Keeps
    <3>3. QED
      BY <3>1, <3>2 DEF Goes, Up
  <2>3. QED
    BY <2>1, <2>2 DEF OwnerIsKnown
<1>4. ASSUME NEW j \in Instance, NEW w \in Worker, Grants(j, w) PROVE OwnerIsKnown'
  <2>1. /\ doc'.status = "Active" /\ doc'.owner = j /\ doc'.gen = doc.gen + 1
        /\ node'[j].proc = "up" /\ node'[j].held = doc'.gen
    BY <1>1, <1>4 DEF Grants, Up, Node
  <2>2. doc'.gen # 0 /\ j # Nobody
    BY <1>1, <2>1
  <2>3. QED
    BY <2>1, <2>2 DEF OwnerIsKnown, Owns
<1>5. QED
  BY <1>3, <1>4, DocMoves

\* The generations only go up.
LEMMA GenerationGrows == ASSUME IndInv, Next PROVE doc'.gen \in Nat /\ doc.gen <= doc'.gen
<1>1. doc.gen \in Nat
  BY OwnedDoc
<1>2. CASE Keeps
  BY <1>1, <1>2 DEF Keeps
<1>3. ASSUME NEW j \in Instance, NEW w \in Worker, Grants(j, w) PROVE doc'.gen = doc.gen + 1
  BY <1>3 DEF Grants
<1>4. QED
  BY <1>1, <1>2, <1>3, DocMoves

\* No row and no bundle gets ahead of the document.
LEMMA GenerationsStep == ASSUME IndInv, Next PROVE GenerationsAreBehind'
<1>1. /\ doc.gen \in Nat /\ doc'.gen \in Nat /\ doc.gen <= doc'.gen /\ TypeOK /\ MaxGeneration \in Nat
  BY OwnedDoc, GenerationGrows DEF IndInv
<1>2. ASSUME NEW s \in Space
      PROVE  team'[s].supGen <= doc'.gen /\ team'[s].cmdGen <= doc'.gen /\ team'[s].laneGen <= doc'.gen
  <2>1. /\ team[s].supGen \in Nat /\ team[s].cmdGen \in Nat /\ team[s].laneGen \in Nat
        /\ team[s].supGen <= doc.gen /\ team[s].cmdGen <= doc.gen /\ team[s].laneGen <= doc.gen
    BY <1>1 DEF IndInv, GenerationsAreBehind, TypeOK, Team, Generation
  <2>2. /\ team'[s].supGen \in {team[s].supGen, doc.gen}
        /\ team'[s].cmdGen \in {team[s].cmdGen, doc.gen}
        /\ team'[s].laneGen \in {team[s].laneGen, doc.gen}
    BY TeamMoves DEF Eases, Begins
  <2>3. QED
    BY <1>1, <2>1, <2>2
<1>3. ASSUME NEW i \in Instance, NEW w \in Worker PROVE job'[i][w].pred <= doc'.gen
  <2>1. /\ job \in [Instance -> [Worker -> Job]] /\ job[i][w] \in Job /\ job[i][w].pred \in Nat
        /\ job[i][w].pred <= doc.gen
    BY <1>1 DEF IndInv, GenerationsAreBehind, TypeOK, Job, Generation
  <2>2. job'[i][w].pred \in {job[i][w].pred, 0, doc'.gen}
    <3>1. CASE BeginBundle(i, w)
      <4>1. /\ \/ job'[i][w] = NoJob
               \/ job'[i][w] = [NoJob EXCEPT !.pred = doc.gen, !.todo = Space]
            /\ doc' = doc
        BY <2>1, <3>1 DEF BeginBundle
      <4>2. NoJob.pred = 0 /\ [NoJob EXCEPT !.pred = doc.gen, !.todo = Space].pred = doc.gen
        BY DEF NoJob
      <4>3. QED
        BY <4>1, <4>2
    <3>2. CASE PublishRecovery(i, w)
      <4>1. PICK ok \in BOOLEAN : job' = [job EXCEPT ![i][w] = [@ EXCEPT !.newly = ok]]
        BY <3>2 DEF PublishRecovery
      <4>2. job'[i][w] = [job[i][w] EXCEPT !.newly = ok]
        BY <2>1, <4>1
      <4>3. QED
        BY <2>1, <4>2 DEF Job
    <3>3. CASE Acquire(i, w)
      <4>1. job'[i][w] \in {job[i][w], [job[i][w] EXCEPT !.pred = doc'.gen]}
        BY <2>1, <3>3 DEF Acquire
      <4>2. QED
        BY <2>1, <4>1 DEF Job
    <3>4. ASSUME NEW s \in Space, RecoverSpace(i, w, s)
          PROVE  job'[i][w].pred = job[i][w].pred
      <4>1. PICK refused \in BOOLEAN, f \in BOOLEAN : RecoversAs(i, w, s, refused, f)
        BY <3>4, RecoverForm
      <4>2. job'[i][w] = [job[i][w] EXCEPT !.todo = job[i][w].todo \ {s}, !.failed = f]
        BY <2>1, <4>1 DEF RecoversAs
      <4>3. QED
        BY <2>1, <4>2 DEF Job
    <3>5. QED
      BY <1>1, <3>1, <3>2, <3>3, <3>4, BundleMoves DEF Bundles
  <2>3. QED
    BY <1>1, <2>1, <2>2
<1>4. QED
  BY <1>2, <1>3 DEF GenerationsAreBehind

\* Markers stay with attached lanes.
LEMMA MarkedStep == ASSUME TypeOK, MarkedLaneIsAttached, Next PROVE MarkedLaneIsAttached'
<1> SUFFICES ASSUME NEW s \in Space PROVE team'[s].marked => team'[s].resident
  BY DEF MarkedLaneIsAttached
<1>1. CASE Eases(s)
  BY <1>1 DEF Eases
<1>2. ASSUME NEW i \in Instance, NEW k \in Kinds, Prepare(i, s, k)
      PROVE  team'[s].marked => team'[s].resident
  BY <1>2 DEF Prepare, TypeOK, Team
<1>3. ASSUME NEW i \in Instance, NEW w \in Worker, Supervise(i, w, s)
      PROVE  team'[s].marked => team'[s].resident
  BY <1>3, SuperviseBegins DEF Begins
<1>4. QED
  BY <1>1, <1>2, <1>3, RowMoves

\* A supervisor thread is of a granted generation, and drives under the rows and the
\* lease of its own while that is the machine's.
LEMMA DriverFitStep ==
    ASSUME IndInv, Next, NEW i \in Instance, NEW s \in Space
    PROVE  DriverFits(i, s)'
<1>1. /\ DriverFits(i, s) /\ doc.gen \in Nat /\ doc'.gen \in Nat /\ doc.gen <= doc'.gen
      /\ drv[i][s] \in Drv /\ MaxGeneration \in Nat
  BY OwnedDoc, GenerationGrows DEF IndInv, TypeOK
<1>2. drv[i][s].gen \in Nat
  BY <1>1 DEF Drv, Generation
<1>3. CASE Continues(i, s)
  <2>1. drv'[i][s].group => Live(drv[i][s])' \/ node'[i].proc = "gone"
    BY <1>3 DEF Continues, Live
  <2>2. ASSUME Live(drv[i][s])'
        PROVE  /\ Live(drv[i][s]) /\ drv'[i][s].gen = drv[i][s].gen
               /\ Up(i)' /\ drv'[i][s].gen <= doc'.gen
    <3>1. Live(drv[i][s]) /\ drv'[i][s].gen = drv[i][s].gen /\ (Up(i) => Up(i)')
      BY <1>3, <2>2 DEF Continues, Live
    <3>2. Up(i) /\ drv[i][s].gen <= doc.gen
      BY <1>1, <3>1 DEF DriverFits
    <3>3. QED
      BY <1>1, <1>2, <3>1, <3>2
  <2>3. ASSUME Live(drv[i][s])', drv'[i][s].gen = doc'.gen
        PROVE  Owns(i)' /\ team'[s].supGen = drv'[i][s].gen /\ team'[s].laneGen = drv'[i][s].gen
    <3>1. Live(drv[i][s]) /\ drv[i][s].gen = doc'.gen /\ drv[i][s].gen <= doc.gen
      BY <1>1, <2>2, <2>3 DEF DriverFits
    <3>2. doc'.gen = doc.gen
      BY <1>1, <3>1
    <3>3. Keeps
      BY <1>1, <3>2, DocMoves DEF Grants
    <3>4. /\ Owns(i) /\ team[s].supGen = doc.gen /\ team[s].laneGen = doc.gen
      BY <1>1, <3>1, <3>2 DEF DriverFits
    <3>5. team'[s].supGen = doc.gen /\ team'[s].laneGen = doc.gen
      BY <3>4, TeamMoves DEF Eases, Begins
    <3>6. QED
      BY <2>3, <3>2, <3>3, <3>4, <3>5 DEF Keeps, Owns
  <2>4. QED
    BY <2>1, <2>2, <2>3 DEF DriverFits
<1>4. CASE Begins(i, s)
  <2>1. /\ Up(i)' /\ Owns(i)' /\ doc'.gen = drv'[i][s].gen
        /\ team'[s].supGen = drv'[i][s].gen /\ team'[s].laneGen = drv'[i][s].gen
        /\ drv'[i][s].at \in {"idle", "effect"}
    BY <1>4 DEF Begins, Authorized, Up, Owns
  <2>2. QED
    BY <1>1, <2>1 DEF DriverFits, Live
<1>5. QED
  BY <1>3, <1>4, DriverMoves

\* The threads of a generation stay with one process: what is begun is the owner's,
\* and so is every thread of the owner's generation.
LEMMA OneDriverStep == ASSUME IndInv, Next PROVE OneDriverPerGeneration'
<1> SUFFICES ASSUME NEW i \in Instance, NEW j \in Instance, NEW s \in Space, NEW r \in Space,
                    Live(drv[i][s])', Live(drv[j][r])', drv'[i][s].gen = drv'[j][r].gen
             PROVE  i = j
  BY DEF OneDriverPerGeneration
<1>1. ASSUME NEW k \in Instance, NEW q \in Space, Live(drv[k][q])'
      PROVE  \/ Live(drv[k][q]) /\ drv'[k][q].gen = drv[k][q].gen
             \/ Owns(k) /\ drv'[k][q].gen = doc.gen
  <2>1. CASE Continues(k, q)
    BY <1>1, <2>1 DEF Continues, Live
  <2>2. CASE Begins(k, q)
    BY <2>2 DEF Begins, Authorized
  <2>3. QED
    BY <2>1, <2>2, DriverMoves
<1>2. ASSUME NEW k \in Instance, NEW q \in Space, Live(drv[k][q]), drv[k][q].gen = doc.gen
      PROVE  Owns(k)
  BY <1>2 DEF IndInv, DriverFits
<1>3. CASE Owns(i) /\ Owns(j)
  BY <1>3 DEF Owns
<1>4. CASE Live(drv[i][s]) /\ Live(drv[j][r]) /\ drv[i][s].gen = drv[j][r].gen
  BY <1>4 DEF IndInv, OneDriverPerGeneration
<1>5. QED
  BY <1>1, <1>2, <1>3, <1>4

\* A recovery stays with a dead owner, and what it cleared stays clear.
LEMMA RecoveryStep ==
    ASSUME IndInv, Next, NEW i \in Instance, NEW w \in Worker PROVE RecoveryFits(i, w)'
<1> SUFFICES ASSUME pc'[i][w] = "recover", doc'.gen = job'[i][w].pred
             PROVE  /\ doc'.owner \in Instance /\ node'[doc'.owner].proc = "gone"
                    /\ doc'.status = "Released" => \A s \in Space : Clear(s, doc.gen)'
                    /\ ~job'[i][w].failed =>
                         \A s \in Space \ job'[i][w].todo : Clear(s, doc.gen)'
  BY DEF RecoveryFits
<1>a. job[i][w] \in Job /\ job[i][w].pred <= doc.gen /\ MaxGeneration \in Nat
  BY NodeDaemonAssumption DEF IndInv, TypeOK, GenerationsAreBehind
<1>b. job[i][w].pred \in Nat
  BY <1>a DEF Job, Generation
<1>1. /\ TypeOK /\ RecoveryFits(i, w) /\ doc \in Doc /\ doc.gen \in Nat
      /\ job \in [Instance -> [Worker -> Job]] /\ job[i][w] \in Job /\ job[i][w].pred \in Nat
      /\ job[i][w].pred <= doc.gen
      /\ pc \in [Instance -> [Thread -> {"idle", "run", "recover", "acquire", "verify", "adopt",
                                        "drain", "mark", "ok", "err"}]]
      /\ w \in Thread /\ team \in [Space -> Team]
  BY <1>a, <1>b, OwnedDoc DEF IndInv, TypeOK, Thread
<1>2. ASSUME pc[i][w] = "recover", job'[i][w] = job[i][w]
      PROVE  /\ doc'.owner \in Instance /\ node'[doc'.owner].proc = "gone"
             /\ doc'.status = "Released" => \A s \in Space : Clear(s, doc.gen)'
             /\ ~job'[i][w].failed => \A s \in Space \ job'[i][w].todo : Clear(s, doc.gen)'
  <2>1. ASSUME NEW j \in Instance, NEW v \in Worker, Grants(j, v) PROVE FALSE
    <3>1. doc'.gen = doc.gen + 1
      BY <2>1 DEF Grants
    <3>2. QED
      BY <1>1, <1>2, <3>1
  <2>2. Keeps
    BY <2>1, DocMoves
  <2>3. doc.gen = job[i][w].pred /\ doc'.gen = doc.gen /\ doc'.owner = doc.owner
    BY <1>2, <2>2 DEF Keeps
  <2>4. /\ doc.owner \in Instance /\ node[doc.owner].proc = "gone"
        /\ doc.status = "Released" => \A s \in Space : Clear(s, doc.gen)
        /\ ~job[i][w].failed => \A s \in Space \ job[i][w].todo : Clear(s, doc.gen)
    BY <1>1, <1>2, <2>3 DEF RecoveryFits
  <2>5. node'[doc'.owner].proc = "gone"
    BY <1>1, <2>3, <2>4, NodeMoves DEF Goes
  <2>6. \A j \in Instance, s \in Space : ~Begins(j, s)
    BY <2>4 DEF Begins, Authorized, Owns, Up
  <2>7. ASSUME NEW s \in Space, Clear(s, doc.gen) PROVE Clear(s, doc.gen)'
    <3>1. PICK g : g = doc.gen
      OBVIOUS
    <3>2. Clear(s, g)'
      BY <2>6, <2>7, <3>1, ClearStays
    <3>3. QED
      BY <2>3, <3>1, <3>2
  <2>8. ASSUME doc'.status = "Released", NEW s \in Space PROVE Clear(s, doc.gen)
    <3>1. ASSUME RollsBack PROVE FALSE
      <4>1. PICK j \in Instance, v \in Worker : Verify(j, v) /\ doc' # doc
        BY <3>1 DEF RollsBack
      <4>2. Up(j) /\ pc[j][v] = "verify" /\ doc.gen = job[j][v].pred
        BY <4>1 DEF Verify, RolledBack
      <4>3. Owns(j)
        BY <4>2 DEF IndInv, RollbackIsOwn
      <4>4. QED
        BY <2>4, <4>2, <4>3 DEF Owns, Up
    <3>2. QED
      BY <2>4, <2>8, <3>1, ReleaseIsClean
  <2>9. QED
    BY <1>2, <2>3, <2>4, <2>5, <2>7, <2>8
<1>3. CASE BeginBundle(i, w)
  <2>1. /\ UNCHANGED <<doc, node>> /\ Blocked(i) /\ ProvenDead
        /\ job'[i][w] = [NoJob EXCEPT !.pred = doc.gen, !.todo = Space]
    BY <1>1, <1>3 DEF BeginBundle
  <2>2. doc.owner \in Instance /\ node[doc.owner].proc = "gone"
    BY <2>1, OwnedDoc DEF Blocked, ProvenDead
  <2>3. job'[i][w].todo = Space
    BY <2>1 DEF NoJob
  <2>4. doc'.status # "Released"
    BY <2>1 DEF Blocked
  <2>5. QED
    BY <2>1, <2>2, <2>3, <2>4
<1>4. CASE PublishRecovery(i, w)
  BY <1>1, <1>4 DEF PublishRecovery
<1>5. CASE Acquire(i, w)
  BY <1>1, <1>5 DEF Acquire, Latch
<1>6. ASSUME NEW s \in Space, RecoverSpace(i, w, s)
      PROVE  /\ doc'.owner \in Instance /\ node'[doc'.owner].proc = "gone"
             /\ doc'.status = "Released" => \A r \in Space : Clear(r, doc.gen)'
             /\ ~job'[i][w].failed => \A r \in Space \ job'[i][w].todo : Clear(r, doc.gen)'
  <2>1. PICK refused \in BOOLEAN, f \in BOOLEAN : RecoversAs(i, w, s, refused, f)
    BY <1>6, RecoverForm
  <2>2. UNCHANGED <<doc, node>> /\ pc[i][w] = "recover"
    BY <1>6 DEF RecoverSpace
  <2>3. job'[i][w] = [job[i][w] EXCEPT !.todo = job[i][w].todo \ {s}, !.failed = f]
    BY <1>1, <2>1 DEF RecoversAs
  <2>4. job'[i][w].todo = job[i][w].todo \ {s} /\ job'[i][w].failed = f /\ job'[i][w].pred = job[i][w].pred
    BY <1>1, <2>3 DEF Job
  <2>5. /\ doc.owner \in Instance /\ node[doc.owner].proc = "gone" /\ doc.gen = job[i][w].pred
        /\ doc.status = "Released" => \A r \in Space : Clear(r, doc.gen)
        /\ ~job[i][w].failed => \A r \in Space \ job[i][w].todo : Clear(r, doc.gen)
    BY <1>1, <2>2, <2>4 DEF RecoveryFits
  <2>6. ASSUME doc.status = "Released", NEW r \in Space PROVE Clear(r, doc.gen)'
    <3>1. Clear(r, doc.gen) /\ team' = team
      BY <2>1, <2>5, <2>6 DEF RecoversAs
    <3>2. QED
      BY <2>2, <3>1 DEF Clear, Unsettled, Unreleased, InUse
  <2>7. ASSUME ~job'[i][w].failed, NEW r \in Space \ job'[i][w].todo PROVE Clear(r, doc.gen)'
    <3>1. ~job[i][w].failed /\ ~refused
      BY <2>1, <2>4, <2>7 DEF RecoversAs
    <3>2. ~Ambiguous(s, doc.gen)
      BY <2>1, <2>5, <3>1 DEF RecoversAs
    <3>3. CASE r = s /\ doc.status = "Released"
      BY <2>6, <3>3
    <3>4. CASE r = s /\ doc.status # "Released"
      <4>1. team'[s] = RecoveredTeam(s, doc.gen)
        BY <1>1, <2>1, <2>5, <3>1, <3>4 DEF RecoversAs
      <4>2. QED
        BY <1>1, <2>2, <3>4, <4>1, RecoveredRow DEF Clear, Unsettled, Unreleased, InUse
    <3>5. CASE r # s
      <4>1. Clear(r, doc.gen) /\ team'[r] = team[r]
        BY <1>1, <2>1, <2>4, <2>5, <3>1, <3>5 DEF RecoversAs
      <4>2. QED
        BY <2>2, <4>1 DEF Clear, Unsettled, Unreleased, InUse
    <3>6. QED
      BY <3>3, <3>4, <3>5
  <2>8. QED
    BY <2>2, <2>5, <2>6, <2>7
<1>7. QED
  BY <1>1, <1>2, <1>3, <1>4, <1>5, <1>6, BundleMoves DEF Bundles

\* A control point "verify" is reached only by an acquisition of that worker.
LEMMA VerifyIsOwn ==
    ASSUME TypeOK, Next, NEW i \in Instance, NEW w \in Worker, pc'[i][w] = "verify"
    PROVE  (pc'[i][w] = pc[i][w] /\ job'[i][w] = job[i][w]) \/ Acquire(i, w)
<1>1. pc \in [Instance -> [Thread -> {"idle", "run", "recover", "acquire", "verify", "adopt",
                                      "drain", "mark", "ok", "err"}]] /\ w \in Thread
  BY DEF TypeOK, Thread
<1>2. ~BeginBundle(i, w)
  BY <1>1 DEF BeginBundle
<1>3. ~PublishRecovery(i, w)
  BY <1>1 DEF PublishRecovery
<1>4. \A s \in Space : ~RecoverSpace(i, w, s)
  BY <1>1 DEF RecoverSpace
<1>5. QED
  BY <1>2, <1>3, <1>4, BundleMoves DEF Bundles

\* Such a bundle is of the document's generation, which is its process's own.
LEMMA AcquireVerifies ==
    ASSUME TypeOK, NEW i \in Instance, NEW w \in Worker, Acquire(i, w), pc'[i][w] = "verify"
    PROVE  /\ job'[i][w].pred = doc'.gen /\ job'[i][w].newly = job[i][w].newly
           /\ Grants(i, w) \/ (/\ doc' = doc /\ Authorized(i, doc.gen) /\ pc[i][w] = "acquire"
                               /\ \A v \in Worker : v # w => job'[i][v] = job[i][v]
                               /\ \A t \in Thread : t # w => pc'[i][t] = pc[i][t]
                               /\ UNCHANGED team)
<1>1. /\ pc \in [Instance -> [Thread -> {"idle", "run", "recover", "acquire", "verify", "adopt",
                                      "drain", "mark", "ok", "err"}]] /\ w \in Thread
      /\ job \in [Instance -> [Worker -> Job]] /\ job[i][w] \in Job
  BY DEF TypeOK, Thread
<1>2. ~Latch(i, w)
  BY <1>1 DEF Latch
<1>3. /\ FreeMachine \/ Authorized(i, doc.gen)
      /\ pc[i][w] = "acquire" /\ UNCHANGED team
      /\ job' = [job EXCEPT ![i][w] = [@ EXCEPT !.pred = doc'.gen]]
      /\ pc' = [pc EXCEPT ![i][w] = "verify"]
      /\ ~FreeMachine => doc' = doc
  BY <1>2 DEF Acquire
<1>4. job'[i][w] = [job[i][w] EXCEPT !.pred = doc'.gen]
  BY <1>1, <1>3
<1>5. job'[i][w].pred = doc'.gen /\ job'[i][w].newly = job[i][w].newly
  BY <1>1, <1>4 DEF Job
<1>6. CASE FreeMachine
  <2>1. Grants(i, w)
    BY <1>2, <1>6 DEF Acquire, Grants
  <2>2. QED
    BY <1>5, <2>1
<1>7. CASE ~FreeMachine
  BY <1>1, <1>3, <1>5, <1>7
<1>8. QED
  BY <1>6, <1>7

\* A bundle that may roll back the current generation stays the owner's.
LEMMA RollbackStep ==
    ASSUME IndInv, Next, NEW i \in Instance, NEW w \in Worker PROVE RollbackIsOwn(i, w)'
<1> SUFFICES ASSUME pc'[i][w] = "verify", doc'.gen = job'[i][w].pred PROVE Owns(i)'
  BY DEF RollbackIsOwn
<1>1. /\ TypeOK /\ RollbackIsOwn(i, w) /\ doc.gen \in Nat /\ job[i][w].pred \in Nat
      /\ job[i][w].pred <= doc.gen
  BY OwnedDoc DEF IndInv, GenerationsAreBehind, TypeOK, Job, Generation
<1>2. CASE pc'[i][w] = pc[i][w] /\ job'[i][w] = job[i][w]
  <2>1. ASSUME NEW j \in Instance, NEW v \in Worker, Grants(j, v) PROVE FALSE
    <3>1. doc'.gen = doc.gen + 1
      BY <2>1 DEF Grants
    <3>2. QED
      BY <1>1, <1>2, <3>1
  <2>2. Keeps
    BY <2>1, DocMoves
  <2>3. QED
    BY <1>1, <1>2, <2>2 DEF Keeps, Owns, RollbackIsOwn
<1>3. CASE Acquire(i, w)
  <2>1. Grants(i, w) \/ (doc' = doc /\ Authorized(i, doc.gen))
    BY <1>1, <1>3, AcquireVerifies
  <2>2. QED
    BY <2>1 DEF Grants, Authorized, Owns
<1>4. QED
  BY <1>1, <1>2, <1>3, VerifyIsOwn

-----------------------------------------------------------------------------
(* What a step does to a shutdown.                                         *)

\* The serve loop has joined its workers.
Stopped(i) == node[i].serve \notin {"serve", "join"}

\* Nothing of process i drives a Space.
Quiet(i) == \A s \in Space : ~Live(drv[i][s])

\* The serve loop of process i passes from one phase to the next.
Shuts(i) ==
    LET m == node[i]  n == node'[i] IN
    /\ UNCHANGED pc /\ n.settled = m.settled
    /\ \/ m.serve = "serve" /\ n.serve = "join"
       \/ /\ m.serve = "join" /\ n.serve = "quiesce"
          /\ pc[i]["ctl"] = "idle" /\ pc[i]["scan"] \in {"ok", "err"}
       \/ /\ n.clean => m.clean
          /\ \/ m.serve \in {"quiesce", "kill"} /\ n.serve \in {"kill", "forced"}
             \/ /\ m.serve = "forced" /\ n.serve \in {"settle", "skip", "drain"}
                /\ n.todo = Space /\ Quiet(i) /\ UNCHANGED doc
                /\ Owns(i) => n.serve = "settle"
             \/ m.serve = "forced" /\ n.serve = "beat" /\ ~n.clean
             \/ m.serve = "skip" /\ n.serve = "drain"
             \/ m.serve = "settle" /\ m.todo = {} /\ m.settled /\ n.serve = "drain"
             \/ m.serve = "settle" /\ ~m.settled /\ n.serve = "beat"
             \/ m.serve = "drain" /\ n.serve = "beat"
             \/ m.serve = "beat" /\ n.serve \in {"beat", "release"}
                  /\ (n.serve = "release" => n.clean)
             \/ n.serve = "exit" /\ m.serve \in {"beat", "release"}

\* Every step of the serve loop does that, settles a Space or ends the process.
LEMMA ServeMoves ==
    ASSUME IndInv, NEW i \in Instance, ServeStep(i)
    PROVE  Exit(i) \/ Shuts(i) \/ \E s \in Space : SettleSpace(i, s)
<1>1. node \in [Instance -> Node] /\ node[i] \in Node
  BY DEF IndInv, TypeOK
<1>2. CASE LeaveServing(i)
  <2>1. node'[i] = [node[i] EXCEPT !.stop = TRUE, !.serve = "join"]
    BY <1>1, <1>2 DEF LeaveServing
  <2>2. QED
    BY <1>1, <1>2, <2>1 DEF LeaveServing, Shuts, Node
<1>3. CASE JoinWorkers(i)
  <2>1. PICK c \in BOOLEAN : node'[i] = [node[i] EXCEPT !.serve = "quiesce", !.clean = c]
    BY <1>1, <1>3 DEF JoinWorkers
  <2>2. QED
    BY <1>1, <1>3, <2>1 DEF JoinWorkers, Shuts, Node
<1>4. CASE Quiesce(i) \/ KillGroups(i)
  <2>1. PICK p \in {"kill", "forced"} : node' = [node EXCEPT ![i].serve = p]
    BY <1>4 DEF Quiesce, KillGroups
  <2>2. QED
    BY <1>1, <1>4, <2>1 DEF Quiesce, KillGroups, Shuts, Node
<1>5. CASE DrainConverged(i)
  <2>1. PICK p \in {"settle", "skip", "drain"} :
          /\ node' = [node EXCEPT ![i] = [@ EXCEPT !.serve = p, !.todo = Space]]
          /\ Owns(i) => p = "settle"
    BY <1>5, OwnedDoc DEF DrainConverged
  <2>2. node'[i] = [node[i] EXCEPT !.serve = p, !.todo = Space]
    BY <1>1, <2>1
  <2>3. Quiet(i)
    BY <1>5 DEF DrainConverged, Quiet, Live, Finished
  <2>4. QED
    BY <1>1, <1>5, <2>1, <2>2, <2>3 DEF DrainConverged, Shuts, Node
<1>6. CASE DrainIncomplete(i)
  <2>1. node'[i] = [node[i] EXCEPT !.serve = "beat", !.clean = FALSE, !.drained = FALSE]
    BY <1>1, <1>6 DEF DrainIncomplete
  <2>2. QED
    BY <1>1, <1>6, <2>1 DEF DrainIncomplete, Shuts, Node
<1>7. CASE SkipSettlement(i)
  <2>1. node'[i] = [node[i] EXCEPT !.serve = "drain", !.todo = {}]
    BY <1>1, <1>7 DEF SkipSettlement
  <2>2. QED
    BY <1>1, <1>7, <2>1 DEF SkipSettlement, Shuts, Node
<1>8. CASE EndSettlement(i)
  BY <1>1, <1>8 DEF EndSettlement, Shuts, Node
<1>9. CASE DrainAuthority(i)
  <2>1. PICK stored \in Outcome : node' = [node EXCEPT ![i] =
              [@ EXCEPT !.serve = "beat",
                        !.clean = /\ node[i].clean /\ stored
                                  /\ ~(Owns(i) /\ doc.status = "Released")]]
    BY <1>9 DEF DrainAuthority
  <2>2. PICK c \in BOOLEAN : c = (/\ node[i].clean /\ stored
                                  /\ ~(Owns(i) /\ doc.status = "Released"))
    OBVIOUS
  <2>3. node'[i] = [node[i] EXCEPT !.serve = "beat", !.clean = c] /\ (c => node[i].clean)
    BY <1>1, <2>1, <2>2
  <2>4. QED
    BY <1>1, <1>9, <2>3 DEF DrainAuthority, Shuts, Node
<1>10. CASE ShutAuthority(i)
  BY <1>1, <1>10 DEF ShutAuthority, Shuts, Node
<1>11. CASE JoinBeat(i)
  BY <1>1, <1>11 DEF JoinBeat, MayRelease, Shuts, Node
<1>12. CASE Release(i)
  BY <1>1, <1>12 DEF Release, Shuts, Node
<1>13. QED
  BY <1>2, <1>3, <1>4, <1>5, <1>6, <1>7, <1>8, <1>9, <1>10, <1>11, <1>12 DEF ServeStep

\* The workers of a stopped process rest, and stay at rest while it lives.
LEMMA StoppedRests ==
    ASSUME IndInv, NEW i \in Instance, Stopped(i)
    PROVE  /\ \A w \in Worker : pc[i][w] \in {"idle", "ok", "err"}
           /\ Next => \/ Crash(i) \/ Exit(i)
                      \/ \A w \in Worker : pc'[i][w] = pc[i][w]
<1>1. TypeOK /\ pc[i]["ctl"] = "idle" /\ pc[i]["scan"] \in {"ok", "err"} /\ Worker \subseteq Thread
  BY DEF IndInv, ShutdownFits, Stopped, Thread
<1>2. \A w \in Worker : pc[i][w] \in {"idle", "ok", "err"}
  BY <1>1 DEF Worker
<1>3. ASSUME Next, ~Crash(i), ~Exit(i), NEW w \in Worker PROVE pc'[i][w] = pc[i][w]
  <2>1. Turns(i, w)
    BY <1>1, <1>3, ThreadMoves
  <2>2. QED
    BY <1>2, <1>3, <2>1 DEF Turns, Stopped
<1>4. QED
  BY <1>2, <1>3

\* A stopped process takes no generation: what it owns it owned, and it begins
\* nothing, nor does anyone in its stead.
LEMMA StoppedKeeps ==
    ASSUME IndInv, Next, NEW i \in Instance, Stopped(i)
    PROVE  /\ Owns(i)' => Owns(i) /\ Keeps
           /\ \A s \in Space : ~Live(drv[i][s]) => ~Begins(i, s)
           /\ Quiet(i) /\ Owns(i) => \A s \in Space, j \in Instance : ~Begins(j, s)
<1>1. \A w \in Worker : pc[i][w] \in {"idle", "ok", "err"}
  BY StoppedRests
<1>2. ASSUME Owns(i)' PROVE Owns(i) /\ Keeps
  <2>1. ASSUME NEW j \in Instance, NEW w \in Worker, Grants(j, w) PROVE FALSE
    <3>1. doc'.owner = j /\ pc[j][w] = "acquire"
      BY <2>1 DEF Grants
    <3>2. QED
      BY <1>1, <1>2, <3>1 DEF Owns
  <2>2. QED
    BY <1>2, <2>1, DocMoves DEF Keeps, Owns
<1>3. ASSUME NEW s \in Space, ~Live(drv[i][s]) PROVE ~Begins(i, s)
  BY <1>1, <1>3 DEF Begins
<1>4. ASSUME Quiet(i), Owns(i), NEW s \in Space, NEW j \in Instance PROVE ~Begins(j, s)
  <2>1. Begins(j, s) => j = i
    BY <1>4 DEF Begins, Authorized, Owns
  <2>2. QED
    BY <1>3, <1>4, <2>1 DEF Quiet
<1>5. QED
  BY <1>2, <1>3, <1>4

\* A stopped process that is quiet stays so, and what its generation is no longer
\* owed it is not owed again.
LEMMA StoppedStays ==
    ASSUME IndInv, Next, NEW i \in Instance, Stopped(i), Quiet(i)
    PROVE  /\ Quiet(i)'
           /\ Owns(i)' => \A s \in Space : Clear(s, doc.gen) => Clear(s, doc.gen)'
<1>1. Quiet(i)'
  <2>1. ASSUME NEW s \in Space PROVE ~Live(drv[i][s])'
    <3>1. ~Live(drv[i][s]) /\ ~Begins(i, s)
      BY StoppedKeeps DEF Quiet
    <3>2. Continues(i, s)
      BY <3>1, DriverMoves
    <3>3. QED
      BY <3>1, <3>2 DEF Continues, Live
  <2>2. QED
    BY <2>1 DEF Quiet
<1>2. ASSUME Owns(i)', NEW s \in Space, Clear(s, doc.gen) PROVE Clear(s, doc.gen)'
  <2>1. Owns(i) /\ doc'.gen = doc.gen /\ \A j \in Instance : ~Begins(j, s)
    BY <1>2, StoppedKeeps DEF Keeps
  <2>2. PICK g : g = doc.gen
    OBVIOUS
  <2>3. Clear(s, g)'
    BY <1>2, <2>1, <2>2, ClearStays
  <2>4. QED
    BY <2>1, <2>2, <2>3
<1>3. QED
  BY <1>1, <1>2

\* The settlement of a Space leaves it clear, or is on record as failed.
LEMMA SettleClears ==
    ASSUME IndInv, NEW i \in Instance, NEW s \in Space, SettleSpace(i, s)
    PROVE  /\ node'[i].serve = "settle" /\ node'[i].todo = node[i].todo \ {s}
           /\ UNCHANGED <<doc, pc, drv>>
           /\ node'[i].clean => node[i].clean /\ node'[i].settled
           /\ node'[i].settled => node[i].settled /\ Clear(s, doc.gen)'
<1>1. /\ node \in [Instance -> Node] /\ node[i] \in Node /\ team \in [Space -> Team]
      /\ team[s] \in Team /\ node[i].serve = "settle" /\ UNCHANGED <<doc, pc, drv>>
      /\ node[i].clean => node[i].settled
  BY DEF IndInv, TypeOK, SettleSpace, ShutdownFits
<1>2. PICK ok \in BOOLEAN, c \in BOOLEAN, d \in BOOLEAN : SettlesAs(i, s, ok, c, d)
  BY SettleForm
<1>3. node'[i] = [node[i] EXCEPT !.todo = node[i].todo \ {s}, !.clean = c, !.settled = d]
  BY <1>1, <1>2 DEF SettlesAs
<1>4. /\ node'[i].serve = "settle" /\ node'[i].todo = node[i].todo \ {s}
      /\ node'[i].clean = c /\ node'[i].settled = d
  BY <1>1, <1>3 DEF Node
<1>5. (c => node[i].clean /\ ok) /\ (d <=> node[i].settled /\ ok)
  BY <1>2 DEF SettlesAs
<1>6. ASSUME ok PROVE Clear(s, doc.gen)'
  <2>1. OwesNothing(s, doc.gen)
    BY <1>2, <1>6 DEF SettlesAs
  <2>2. CASE InUse(s, doc.gen)
    <3>1. team'[s] = Detached(team[s])
      BY <1>1, <1>2, <1>6, <2>2 DEF SettlesAs
    <3>2. /\ team'[s].supGen = team[s].supGen /\ team'[s].sup = team[s].sup
          /\ team'[s].cmdGen = team[s].cmdGen /\ team'[s].cmd = team[s].cmd
          /\ ~team'[s].resident /\ ~team'[s].marked
      BY <1>1, <3>1 DEF Detached, Team
    <3>3. QED
      BY <1>1, <2>1, <3>2 DEF OwesNothing, Clear, Unsettled, Unreleased, InUse
  <2>3. CASE ~InUse(s, doc.gen)
    <3>1. team' = team
      BY <1>2, <2>3 DEF SettlesAs
    <3>2. QED
      BY <1>1, <2>1, <2>3, <3>1 DEF OwesNothing, Clear, Unsettled, Unreleased, InUse
  <2>4. QED
    BY <2>2, <2>3
<1>7. QED
  BY <1>1, <1>4, <1>5, <1>6

\* A shutdown settles before it drains, and drains before it releases.
LEMMA ShutdownStep ==
    ASSUME IndInv, Next, NEW i \in Instance PROVE ShutdownFits(i)'
<1> DEFINE m == node[i]
           n == node'[i]
<1>1. /\ TypeOK /\ ShutdownFits(i) /\ Goes(i) /\ node \in [Instance -> Node]
  BY NodeMoves DEF IndInv, TypeOK
<1>2. CASE Crash(i) \/ Exit(i)
  <2>1. n = [NoProcess EXCEPT !.proc = "gone"]
    BY <1>1, <1>2 DEF Crash, Exit, Ended
  <2>2. n.serve = "serve" /\ n.settled
    BY <2>1 DEF NoProcess
  <2>3. QED
    BY <2>2 DEF ShutdownFits
<1>3. CASE ~Crash(i) /\ ~Exit(i) /\ ~Stopped(i)
  <2>1. m.settled
    BY <1>1, <1>3 DEF ShutdownFits, Stopped
  <2>2. CASE n.serve = m.serve /\ n.settled = m.settled
    BY <1>3, <2>1, <2>2 DEF ShutdownFits, Stopped
  <2>3. CASE Shuts(i)
    BY <1>3, <2>1, <2>3 DEF ShutdownFits, Stopped, Shuts
  <2>4. \A s \in Space : ~SettleSpace(i, s)
    BY <1>3 DEF SettleSpace, Stopped
  <2>5. QED
    BY <1>1, <1>3, <2>2, <2>3, <2>4, ServeMoves DEF Goes
<1>4. CASE ~Crash(i) /\ ~Exit(i) /\ Stopped(i)
  <2>1. pc'[i]["ctl"] = "idle" /\ pc'[i]["scan"] \in {"ok", "err"}
    BY <1>1, <1>4, StoppedRests DEF ShutdownFits, Stopped, Worker
  <2>2. Owns(i)' => Owns(i) /\ Keeps
    BY <1>4, StoppedKeeps
  <2>3. /\ m.serve \in {"settle", "skip", "drain"} => Quiet(i)
        /\ m.serve \in {"beat", "release"} /\ m.clean /\ Owns(i) => Quiet(i)
    BY <1>1 DEF ShutdownFits, Quiet
  <2>4. CASE n.serve = m.serve /\ n.todo = m.todo /\ n.clean = m.clean /\ n.settled = m.settled
    <3>1. /\ n.serve \in {"settle", "skip", "drain"} => Quiet(i)'
          /\ n.serve \in {"beat", "release"} /\ n.clean /\ Owns(i)' => Quiet(i)'
      BY <1>4, <2>2, <2>3, <2>4, StoppedStays
    <3>2. n.serve = "skip" => ~Owns(i)'
      BY <1>1, <2>2, <2>4 DEF ShutdownFits
    <3>3. (n.serve = "release" => n.clean) /\ (n.clean => n.settled)
      BY <1>1, <2>4 DEF ShutdownFits
    <3>4. ASSUME n.serve = "settle", n.settled, Owns(i)', NEW s \in Space \ n.todo
          PROVE  Clear(s, doc.gen)'
      <4>1. Clear(s, doc.gen) /\ Quiet(i)
        BY <1>1, <2>2, <2>3, <2>4, <3>4 DEF ShutdownFits
      <4>2. QED
        BY <1>4, <3>4, <4>1, StoppedStays
    <3>5. ASSUME Owns(i)', n.serve = "drain" \/ (n.serve \in {"beat", "release"} /\ n.clean),
                 NEW s \in Space
          PROVE  Clear(s, doc.gen)'
      <4>1. Clear(s, doc.gen) /\ Quiet(i)
        BY <1>1, <2>2, <2>3, <2>4, <3>5 DEF ShutdownFits
      <4>2. QED
        BY <1>4, <3>5, <4>1, StoppedStays
    <3>6. QED
      BY <1>4, <2>1, <2>4, <3>1, <3>2, <3>3, <3>4, <3>5 DEF ShutdownFits, Quiet, Stopped
  <2>5. ASSUME NEW s \in Space, SettleSpace(i, s) PROVE ShutdownFits(i)'
    <3>1. /\ n.serve = "settle" /\ m.serve = "settle" /\ n.todo = m.todo \ {s}
          /\ n.clean => n.settled
          /\ n.settled => m.settled /\ Clear(s, doc.gen)'
      BY <2>5, SettleClears DEF SettleSpace
    <3>2. Quiet(i) /\ Quiet(i)'
      BY <1>4, <2>3, <3>1, StoppedStays
    <3>3. ASSUME n.settled, Owns(i)', NEW r \in Space \ n.todo PROVE Clear(r, doc.gen)'
      <4>1. CASE r = s
        BY <3>1, <3>3, <4>1
      <4>2. CASE r # s
        <5>1. Clear(r, doc.gen)
          BY <1>1, <2>2, <3>1, <3>3, <4>2 DEF ShutdownFits
        <5>2. QED
          BY <1>4, <3>2, <3>3, <5>1, StoppedStays
      <4>3. QED
        BY <4>1, <4>2
    <3>4. QED
      BY <2>1, <3>1, <3>2, <3>3 DEF ShutdownFits, Quiet
  <2>6. CASE Shuts(i)
    <3>1. n.settled = m.settled /\ (n.clean => m.clean) /\ (n.clean => n.settled)
      BY <1>1, <1>4, <2>6 DEF Shuts, Stopped, ShutdownFits
    <3>2. CASE n.serve \in {"kill", "forced", "exit"}
      BY <2>1, <3>1, <3>2 DEF ShutdownFits
    <3>3. CASE m.serve = "forced" /\ n.serve \in {"settle", "skip", "drain"}
      <4>1. n.todo = Space /\ Quiet(i) /\ (Owns(i)' => n.serve = "settle")
        BY <1>4, <2>2, <2>6, <3>3 DEF Shuts
      <4>2. Quiet(i)'
        BY <1>4, <4>1, StoppedStays
      <4>3. QED
        BY <2>1, <3>1, <3>3, <4>1, <4>2 DEF ShutdownFits, Quiet
    <3>4. CASE n.serve = "beat" /\ ~n.clean
      BY <2>1, <3>1, <3>4 DEF ShutdownFits
    <3>5. ASSUME n.serve \in {"drain", "beat", "release"}, n.serve = "release" => n.clean,
                 n.serve = "drain" => Quiet(i), n.clean /\ Owns(i) => Quiet(i),
                 Owns(i) /\ (n.serve = "drain" \/ n.clean) => \A s \in Space : Clear(s, doc.gen)
          PROVE  ShutdownFits(i)'
      <4>1. (n.serve = "drain" => Quiet(i)') /\ (n.clean /\ Owns(i)' => Quiet(i)')
        BY <1>4, <2>2, <3>5, StoppedStays
      <4>2. ASSUME Owns(i)', n.serve = "drain" \/ n.clean, NEW s \in Space
            PROVE  Clear(s, doc.gen)'
        <5>1. Clear(s, doc.gen) /\ Quiet(i)
          BY <2>2, <3>5, <4>2
        <5>2. QED
          BY <1>4, <4>2, <5>1, StoppedStays
      <4>3. QED
        BY <2>1, <3>1, <3>5, <4>1, <4>2 DEF ShutdownFits, Quiet
    <3>6. CASE m.serve = "skip" /\ n.serve = "drain"
      BY <1>1, <2>3, <3>5, <3>6 DEF ShutdownFits
    <3>7. CASE m.serve = "settle" /\ m.todo = {} /\ m.settled /\ n.serve = "drain"
      BY <1>1, <2>3, <3>5, <3>7 DEF ShutdownFits
    <3>8. CASE m.serve = "drain" /\ n.serve = "beat"
      BY <1>1, <2>3, <3>5, <3>8 DEF ShutdownFits
    <3>9. CASE m.serve = "beat" /\ n.serve \in {"beat", "release"} /\ (n.serve = "release" => n.clean)
      BY <1>1, <2>3, <3>1, <3>5, <3>9 DEF ShutdownFits
    <3>10. CASE m.serve = "settle" /\ ~m.settled /\ n.serve = "beat"
      BY <3>1, <3>4, <3>10
    <3>11. QED
      BY <1>4, <2>6, <3>2, <3>3, <3>4, <3>6, <3>7, <3>8, <3>9, <3>10 DEF Shuts, Stopped
  <2>7. QED
    BY <1>1, <1>4, <2>4, <2>5, <2>6, ServeMoves DEF Goes
<1>5. QED
  BY <1>2, <1>3, <1>4

-----------------------------------------------------------------------------
(* The theorems.                                                           *)

\* The initial state satisfies every part of the invariant.
LEMMA IndInit == Init => IndInv
<1> SUFFICES ASSUME Init PROVE IndInv
  OBVIOUS
<1>1. /\ Nobody \notin Instance /\ MaxGeneration \in Nat
      /\ Kinds \subseteq {"message", "provider"} /\ Kinds # {}
  BY NodeDaemonAssumption
<1>2. 0 \in Generation /\ (CHOOSE k \in Kinds : TRUE) \in {"message", "provider"}
  <2>1. PICK k \in Kinds : TRUE
    BY <1>1
  <2>2. (CHOOSE j \in Kinds : TRUE) \in Kinds
    BY <2>1, Zenon
  <2>3. QED
    BY <1>1, <2>2 DEF Generation
<1>3. /\ doc = [gen |-> 0, owner |-> Nobody, fresh |-> FALSE, status |-> "Absent"]
      /\ sock = Nobody
      /\ \A i \in Instance : /\ node[i] = NoProcess /\ pc[i] = NoThread
                             /\ \A w \in Worker : job[i][w] = NoJob
                             /\ \A s \in Space : drv[i][s] = NoDriver
      /\ \A s \in Space :
           /\ team[s].supGen = 0 /\ team[s].cmdGen = 0 /\ team[s].laneGen = 0
           /\ team[s].cmd = "settled" /\ ~team[s].marked
  BY DEF Init
<1>4. TypeOK
  <2>1. doc \in Doc
    BY <1>2, <1>3 DEF Doc
  <2>2. NoProcess \in Node
    BY <1>2 DEF NoProcess, Node
  <2>3. node \in [Instance -> Node]
    BY <2>2 DEF Init
  <2>4. pc \in [Instance -> [Thread -> {"idle", "run", "recover", "acquire", "verify",
                                        "adopt", "drain", "mark", "ok", "err"}]]
    BY RecordTypes DEF Init
  <2>5. job \in [Instance -> [Worker -> Job]] /\ drv \in [Instance -> [Space -> Drv]]
    BY RecordTypes DEF Init
  <2>6. team \in [Space -> Team]
    BY <1>2 DEF Init, Team
  <2>7. QED
    BY <1>3, <2>1, <2>3, <2>4, <2>5, <2>6 DEF TypeOK
<1>5. OwnerIsKnown
  BY <1>1, <1>3 DEF OwnerIsKnown, Owns
<1>6. GenerationsAreBehind
  BY <1>3 DEF GenerationsAreBehind, NoJob
<1>7. ASSUME NEW i \in Instance PROVE ShutdownFits(i)
  <2>1. node[i].serve = "serve" /\ node[i].settled
    BY <1>3 DEF NoProcess
  <2>2. QED
    BY <2>1 DEF ShutdownFits
<1>8. \A i \in Instance, s \in Space : DriverFits(i, s)
  BY <1>3 DEF DriverFits, Live, NoDriver
<1>9. ASSUME NEW i \in Instance, NEW w \in Worker
      PROVE  RecoveryFits(i, w) /\ RollbackIsOwn(i, w)
  <2>1. pc[i][w] \in {"idle", "run"}
    BY <1>3 DEF NoThread, Thread
  <2>2. QED
    BY <2>1 DEF RecoveryFits, RollbackIsOwn
<1>10. OneDriverPerGeneration
  BY <1>3 DEF OneDriverPerGeneration, Live, NoDriver
<1>11. MarkedLaneIsAttached
  BY <1>3 DEF MarkedLaneIsAttached
<1>12. QED
  BY <1>4, <1>5, <1>6, <1>7, <1>8, <1>9, <1>10, <1>11 DEF IndInv

\* Every step preserves every part of the invariant.
LEMMA IndStep == IndInv /\ [Next]_vars => IndInv'
<1> SUFFICES ASSUME IndInv, [Next]_vars PROVE IndInv'
  OBVIOUS
<1>1. CASE Next
  <2>1. TypeOK'
    BY <1>1, TypeStep DEF IndInv
  <2>2. /\ OwnerIsKnown' /\ GenerationsAreBehind' /\ MarkedLaneIsAttached'
        /\ OneDriverPerGeneration'
    BY <1>1, OwnerStep, GenerationsStep, MarkedStep, OneDriverStep DEF IndInv
  <2>3. \A i \in Instance : ShutdownFits(i)'
    BY <1>1, ShutdownStep
  <2>4. \A i \in Instance, s \in Space : DriverFits(i, s)'
    BY <1>1, DriverFitStep
  <2>5. \A i \in Instance, w \in Worker : RecoveryFits(i, w)' /\ RollbackIsOwn(i, w)'
    BY <1>1, RecoveryStep, RollbackStep
  <2>6. QED
    BY <2>1, <2>2, <2>3, <2>4, <2>5 DEF IndInv
<1>2. CASE UNCHANGED vars
  <2>1. UNCHANGED <<doc, sock, node, pc, job, team, drv>>
    BY <1>2 DEF vars
  <2>2. TypeOK' /\ OwnerIsKnown' /\ GenerationsAreBehind' /\ MarkedLaneIsAttached'
    BY <2>1 DEF IndInv, TypeOK, OwnerIsKnown, GenerationsAreBehind, MarkedLaneIsAttached, Owns, Up
  <2>3. OneDriverPerGeneration'
    BY <2>1 DEF IndInv, OneDriverPerGeneration
  <2>4. ASSUME NEW i \in Instance PROVE ShutdownFits(i)'
    <3>1. ShutdownFits(i)
      BY DEF IndInv
    <3>2. QED
      BY <2>1, <3>1 DEF ShutdownFits, Owns, Clear, Unsettled, Unreleased, InUse
  <2>5. ASSUME NEW i \in Instance, NEW s \in Space PROVE DriverFits(i, s)'
    <3>1. DriverFits(i, s)
      BY DEF IndInv
    <3>2. QED
      BY <2>1, <3>1 DEF DriverFits, Owns, Up
  <2>6. ASSUME NEW i \in Instance, NEW w \in Worker
        PROVE  RecoveryFits(i, w)' /\ RollbackIsOwn(i, w)'
    <3>1. RecoveryFits(i, w) /\ RollbackIsOwn(i, w)
      BY DEF IndInv
    <3>2. RecoveryFits(i, w)'
      BY <2>1, <3>1 DEF RecoveryFits, Clear, Unsettled, Unreleased, InUse
    <3>3. RollbackIsOwn(i, w)'
      BY <2>1, <3>1 DEF RollbackIsOwn, Owns
    <3>4. QED
      BY <3>2, <3>3
  <2>7. QED
    BY <2>2, <2>3, <2>4, <2>5, <2>6 DEF IndInv
<1>3. QED
  BY <1>1, <1>2

\* The invariant holds throughout.
LEMMA Inductive == Spec => []IndInv
BY IndInit, IndStep, PTL DEF Spec

\* Every variable keeps its type, whatever dies and whatever is overtaken: no
\* generation passes the counter's limit (acquire_machine_authority, which refuses
\* at it).
THEOREM TypeCorrect == Spec => []TypeOK
<1>1. Init => TypeOK
  BY IndInit DEF IndInv
<1>2. QED
  BY <1>1, TypeStep, PTL DEF Spec

\* A settlement-incomplete marker (record_node_daemon_settlement_incomplete) is only
\* ever on a lane that is still attached, whatever dies and whatever is overtaken.
THEOREM MarkersAreTrue == Spec => []MarkedLaneIsAttached
<1>1. Init => TypeOK /\ MarkedLaneIsAttached
  BY IndInit DEF IndInv
<1>2. TypeOK /\ MarkedLaneIsAttached /\ [Next]_vars => (TypeOK /\ MarkedLaneIsAttached)'
  <2>1. ASSUME MarkedLaneIsAttached, UNCHANGED vars PROVE MarkedLaneIsAttached'
    BY <2>1 DEF MarkedLaneIsAttached, vars
  <2>2. QED
    BY <2>1, TypeStep, MarkedStep
<1>3. QED
  BY <1>1, <1>2, PTL DEF Spec

\* The threads that drive for one generation of the machine, in whichever Spaces,
\* are of one process, also when the generation was rolled back under them
\* (start_supervising, rollback_unused_bundle_leases): no two processes ever have
\* effects under way in its name.
THEOREM EachGenerationHasOneDriver == Spec => []OneDriverPerGeneration
<1>1. IndInv => OneDriverPerGeneration
  BY DEF IndInv
<1>2. QED
  BY <1>1, Inductive, PTL

-----------------------------------------------------------------------------
(* What becomes of a command, and of the work of a generation.             *)

\* A prepared command stays, with its generation, until the Operator resolves it,
\* the thread that prepared it returns, or a recovery of that generation, which is
\* still the machine's, reconciles it.
LEMMA CommandStays ==
    ASSUME TypeOK, Next, NEW s \in Space, team[s].cmd = "prepared"
    PROVE  \/ team'[s].cmd = "prepared" /\ team'[s].cmdGen = team[s].cmdGen
           \/ Resolve(s)
           \/ \E j \in Instance : Finish(j, s) /\ Drives(j, s)
           \/ \E j \in Instance, w \in Worker :
                pc[j][w] = "recover" /\ doc.gen = job[j][w].pred /\ team[s].cmdGen = doc.gen
<1> DEFINE K == team'[s].cmd = "prepared" /\ team'[s].cmdGen = team[s].cmdGen
           T == \/ K
                \/ Resolve(s)
                \/ \E j \in Instance : Finish(j, s) /\ Drives(j, s)
                \/ \E j \in Instance, w \in Worker :
                     pc[j][w] = "recover" /\ doc.gen = job[j][w].pred /\ team[s].cmdGen = doc.gen
<1>1. team \in [Space -> Team] /\ team[s] \in Team
  BY DEF TypeOK
<1>2. team'[s] = team[s] => K
  OBVIOUS
<1>3. CASE UNCHANGED team
  BY <1>2, <1>3
<1>4. ASSUME NEW r \in Space, ExpireSupervisor(r) \/ Resolve(r) PROVE T
  <2>1. CASE r # s
    BY <1>1, <1>2, <1>4, <2>1 DEF ExpireSupervisor, Resolve
  <2>2. CASE r = s /\ ExpireSupervisor(s)
    BY <1>1, <2>2 DEF ExpireSupervisor, Team
  <2>3. QED
    BY <1>4, <2>1, <2>2
<1>5. ASSUME NEW i \in Instance, team' = Marked(i) PROVE K
  <2>1. team'[s] = team[s] \/ team'[s] = [team[s] EXCEPT !.marked = TRUE]
    BY <1>5 DEF Marked
  <2>2. QED
    BY <1>1, <1>2, <2>1 DEF Team
<1>6. ASSUME NEW i \in Instance,
             DrainIncomplete(i) \/ SkipSettlement(i) \/ \E t \in Thread : LatchMark(i, t)
      PROVE  K
  BY <1>5, <1>6 DEF DrainIncomplete, SkipSettlement, LatchMark
<1>7. ASSUME NEW i \in Instance, NEW r \in Space, SettleSpace(i, r) PROVE K
  <2>1. team' = team \/ team' = [team EXCEPT ![r] = Detached(team[r])]
    BY <1>7 DEF SettleSpace
  <2>2. team'[s] = team[s] \/ team'[s] = Detached(team[s])
    BY <1>1, <2>1
  <2>3. QED
    BY <1>1, <1>2, <2>2 DEF Detached, Team
<1>8. ASSUME NEW i \in Instance, NEW r \in Space, Finish(i, r) PROVE T
  <2>1. CASE r # s
    BY <1>1, <1>2, <1>8, <2>1 DEF Finish
  <2>2. CASE r = s /\ ~Drives(i, s)
    BY <1>2, <1>8, <2>2 DEF Finish
  <2>3. QED
    BY <1>8, <2>1, <2>2
<1>9. ASSUME NEW i \in Instance, NEW r \in Space, ThreadExit(i, r) PROVE K
  <2>1. team' = team \/ team' = [team EXCEPT ![r].sup = "Released"]
    BY <1>9 DEF ThreadExit
  <2>2. team'[s] = team[s] \/ team'[s] = [team[s] EXCEPT !.sup = "Released"]
    BY <1>1, <2>1
  <2>3. QED
    BY <1>1, <1>2, <2>2 DEF Team
<1>10. ASSUME NEW i \in Instance, NEW r \in Space, NEW k \in Kinds, Prepare(i, r, k) PROVE K
  <2>1. r # s
    BY <1>10 DEF Prepare
  <2>2. QED
    BY <1>1, <1>2, <1>10, <2>1 DEF Prepare
<1>11. ASSUME NEW i \in Instance, NEW w \in Worker, NEW r \in Space, Supervise(i, w, r) PROVE K
  <2>1. team'[s] = team[s] \/ team'[s] =
          [team[s] EXCEPT !.supGen = doc.gen, !.sup = "Active", !.laneGen = doc.gen]
    BY <1>1, <1>11 DEF Supervise
  <2>2. QED
    BY <1>1, <1>2, <2>1 DEF Team
<1>12. ASSUME NEW i \in Instance, NEW w \in Worker, NEW r \in Space, RecoverSpace(i, w, r) PROVE T
  <2>1. PICK refused \in BOOLEAN, f \in BOOLEAN : RecoversAs(i, w, r, refused, f)
    BY <1>12, RecoverForm
  <2>2. CASE team'[s] = team[s]
    BY <1>2, <2>2
  <2>3. CASE r = s /\ ~refused /\ team'[s] = RecoveredTeam(s, job[i][w].pred)
    <3>1. pc[i][w] = "recover" /\ doc.gen = job[i][w].pred
      BY <1>12, <2>1, <2>3 DEF RecoverSpace, RecoversAs
    <3>2. team'[s].cmdGen = team[s].cmdGen
      BY <2>3, RecoveredRow
    <3>3. team'[s].cmd = IF Unsettled(s, doc.gen) THEN "settled" ELSE team[s].cmd
      BY <2>3, <3>1, RecoveredRow
    <3>4. CASE Unsettled(s, doc.gen)
      BY <3>1, <3>4 DEF Unsettled
    <3>5. QED
      BY <3>2, <3>3, <3>4
  <2>4. QED
    BY <1>1, <2>1, <2>2, <2>3 DEF RecoversAs
<1>13. QED
  BY <1>3, <1>4, <1>6, <1>7, <1>8, <1>9, <1>10, <1>11, <1>12, TeamIsWritten DEF TeamWriter

\* While an effect is under way (prepare_runtime_command) nothing but its own return,
\* the Operator or the end of its process takes the command from it: no stop, reap,
\* latch, settlement, hand-over or recovery does, and no other thread replaces it.
THEOREM EffectsKeepTheirCommands == Spec => EffectKeepsItsCommand
<1> DEFINE Kept(i, s) ==
             drv[i][s].at = "effect" /\ Drives(i, s) =>
                \/ Finish(i, s) \/ Resolve(s) \/ ~Up(i)'
                \/ drv'[i][s].at = "effect" /\ Drives(i, s)'
<1>1. ASSUME IndInv, Next, NEW i \in Instance, NEW s \in Space PROVE Kept(i, s)
  <2> SUFFICES ASSUME drv[i][s].at = "effect", Drives(i, s),
                      ~Finish(i, s), ~Resolve(s), Up(i)'
               PROVE  drv'[i][s].at = "effect" /\ Drives(i, s)'
    OBVIOUS
  <2>1. TypeOK /\ Live(drv[i][s]) /\ team[s].cmd = "prepared" /\ team[s].cmdGen = drv[i][s].gen
    BY <1>1 DEF IndInv, Live, Drives
  <2>2. drv'[i][s].at = "effect" /\ drv'[i][s].gen = drv[i][s].gen
    <3>1. ~Begins(i, s)
      BY DEF Begins
    <3>2. Continues(i, s)
      BY <1>1, <3>1, DriverMoves
    <3>3. QED
      BY <3>2 DEF Continues
  <2>3. ASSUME NEW j \in Instance, Finish(j, s), Drives(j, s) PROVE FALSE
    <3>1. Live(drv[j][s]) /\ drv[j][s].gen = drv[i][s].gen
      BY <2>1, <2>3 DEF Finish, Drives, Live
    <3>2. j = i
      BY <1>1, <2>1, <3>1 DEF IndInv, OneDriverPerGeneration
    <3>3. QED
      BY <2>3, <3>2
  <2>4. ASSUME NEW j \in Instance, NEW w \in Worker, pc[j][w] = "recover",
               doc.gen = job[j][w].pred, team[s].cmdGen = doc.gen
        PROVE  FALSE
    <3>1. node[doc.owner].proc = "gone"
      BY <1>1, <2>4 DEF IndInv, RecoveryFits
    <3>2. Owns(i) /\ Up(i)
      BY <1>1, <2>1, <2>4 DEF IndInv, DriverFits
    <3>3. QED
      BY <3>1, <3>2 DEF Owns, Up
  <2>5. team'[s].cmd = "prepared" /\ team'[s].cmdGen = team[s].cmdGen
    BY <1>1, <2>1, <2>3, <2>4, CommandStays
  <2>6. QED
    BY <2>1, <2>2, <2>5 DEF Drives
<1>2. IndInv /\ [Next]_vars => [\A i \in Instance, s \in Space : Kept(i, s)]_vars
  BY <1>1
<1>3. QED
  BY <1>2, Inductive, PTL DEF Spec, EffectKeepsItsCommand

\* A Space without work of a generation gets some only while that is the machine's
\* current one, under an authority that is open.
LEMMA PendingStays ==
    ASSUME IndInv, Next, NEW s \in Space, NEW g, ~Pending(s, g)
    PROVE  ~Pending(s, g)' \/ (g = doc.gen /\ Authorized(doc.owner, g) /\ UNCHANGED doc)
<1>1. ASSUME NEW i \in Instance, Begins(i, s)
      PROVE  Authorized(doc.owner, doc.gen) /\ UNCHANGED doc /\ drv'[i][s].gen = doc.gen
  BY <1>1 DEF Begins, Authorized, Owns
<1>2. Clear(s, g)' \/ (g = doc.gen /\ Authorized(doc.owner, g) /\ UNCHANGED doc)
  <2>1. Clear(s, g)
    BY DEF Pending
  <2>2. QED
    BY <1>1, <2>1, ClearStays
<1>3. ASSUME NEW i \in Instance, Up(i)', drv'[i][s].gen = g,
             Live(drv[i][s])' \/ drv'[i][s].group
      PROVE  g = doc.gen /\ Authorized(doc.owner, g) /\ UNCHANGED doc
  <2>1. Live(drv[i][s])'
    BY <1>3, DriverFitStep DEF DriverFits, Up
  <2>2. ASSUME Continues(i, s) PROVE FALSE
    <3>1. Live(drv[i][s]) /\ drv[i][s].gen = g
      BY <1>3, <2>1, <2>2 DEF Continues, Live
    <3>2. Up(i)
      BY <3>1 DEF IndInv, DriverFits
    <3>3. QED
      BY <3>1, <3>2 DEF Pending
  <2>3. Begins(i, s)
    BY <2>2, DriverMoves
  <2>4. QED
    BY <1>1, <1>3, <2>3
<1>4. QED
  BY <1>2, <1>3 DEF Pending

\* A release that is no rollback leaves no work of its generation.
LEMMA ReleaseLeavesNothing ==
    ASSUME IndInv, Next, ~RollsBack, doc.status # "Released", doc'.status = "Released",
           NEW s \in Space
    PROVE  ~Pending(s, doc.gen)
<1>1. Clear(s, doc.gen) /\ \A i \in Instance : drv[i][s].gen = doc.gen => ~Live(drv[i][s])
  BY ReleaseIsClean
<1>2. ASSUME NEW i \in Instance, Up(i), drv[i][s].group PROVE Live(drv[i][s])
  BY <1>2 DEF IndInv, DriverFits, Up
<1>3. QED
  BY <1>1, <1>2 DEF Pending

\* Only the rollback of a bundle (rollback_unused_bundle_leases) lets a generation
\* go while a Space has work of it: a shutdown (release_node_authorities) and a
\* recovery (recover_predecessor_generation_across_spaces) never do, and nothing is
\* begun under a generation that was let go (prepare_runtime_command).
THEOREM OnlyRollbacksLeaveWork == Spec => OnlyRollbackLeavesWork
<1>1. ASSUME IndInv, Next, ~RollsBack PROVE LeftBehind' \subseteq LeftBehind
  <2> SUFFICES ASSUME NEW s \in Space, NEW g \in 1..doc'.gen,
                      FinishedGeneration(g)', Pending(s, g)'
               PROVE  g \in 1..doc.gen /\ FinishedGeneration(g) /\ Pending(s, g)
    BY DEF LeftBehind
  <2>1. doc.gen \in Nat /\ doc'.gen \in Nat /\ g \in Nat /\ g # 0
    BY <1>1, OwnedDoc, GenerationGrows
  <2>2. ASSUME ~(g = doc.gen /\ Authorized(doc.owner, g) /\ UNCHANGED doc) PROVE Pending(s, g)
    BY <1>1, <2>2, PendingStays
  <2>3. CASE Keeps
    <3>1. doc'.gen = doc.gen /\ (g < doc.gen \/ (g = doc.gen /\ doc'.status = "Released"))
      BY <2>3 DEF Keeps, FinishedGeneration
    <3>2. CASE g < doc.gen
      BY <2>1, <2>2, <3>2 DEF FinishedGeneration
    <3>3. CASE g = doc.gen /\ doc.status = "Released"
      BY <2>1, <2>2, <3>3 DEF FinishedGeneration, Authorized
    <3>4. CASE g = doc.gen /\ doc.status # "Released" /\ doc'.status = "Released"
      <4>1. Pending(s, g)
        BY <2>2, <3>4
      <4>2. QED
        BY <1>1, <3>4, <4>1, ReleaseLeavesNothing
    <3>5. QED
      BY <3>1, <3>2, <3>3, <3>4
  <2>4. ASSUME NEW j \in Instance, NEW w \in Worker, Grants(j, w)
        PROVE  g \in 1..doc.gen /\ FinishedGeneration(g) /\ Pending(s, g)
    <3>1. doc'.gen = doc.gen + 1 /\ doc'.status = "Active" /\ FreeMachine
      BY <2>4 DEF Grants
    <3>2. g \in 1..doc.gen
      BY <2>1, <3>1 DEF FinishedGeneration
    <3>3. doc.status = "Released"
      BY <1>1, <2>1, <3>1, <3>2 DEF FreeMachine, IndInv, OwnerIsKnown
    <3>4. Pending(s, g)
      BY <2>2, <3>3 DEF Authorized
    <3>5. QED
      BY <2>1, <3>2, <3>3, <3>4 DEF FinishedGeneration
  <2>5. QED
    BY <1>1, <2>3, <2>4, DocMoves
<1>2. IndInv /\ [Next]_vars => [LeftBehind' \subseteq LeftBehind \/ RollsBack]_vars
  BY <1>1
<1>3. QED
  BY <1>2, Inductive, PTL DEF Spec, OnlyRollbackLeavesWork

-----------------------------------------------------------------------------
(* The refinement of MachineAuthority.                                     *)

\* MachineAuthority's holder, whether it may begin work, and the work there is, as
\* the mapping has them.
Holder == IF Held THEN doc.owner ELSE Nobody
Open == doc.status = "Active" /\ doc.fresh
PendingWork == {p \in Space \X (1..doc.gen) : Pending(p[1], p[2])}

\* What a step does to them.
AuthorityStays ==
    /\ doc'.gen = doc.gen /\ Holder' = Holder /\ (Open' <=> Open) /\ (OnTrial' => OnTrial)
    /\ PendingWork' \subseteq PendingWork \cup (IF Open THEN Space \X {doc.gen} ELSE {})
AuthorityCloses ==
    /\ doc'.gen = doc.gen /\ Holder' = Holder /\ Open /\ ~Open' /\ (OnTrial' => OnTrial)
    /\ PendingWork' = PendingWork
AuthorityGoes ==
    /\ doc'.gen = doc.gen /\ Holder # Nobody /\ Holder' = Nobody /\ ~Open' /\ ~OnTrial'
    /\ PendingWork' = PendingWork
    /\ OnTrial \/ \A s \in Space : <<s, doc.gen>> \notin PendingWork
AuthorityComes ==
    /\ doc'.gen = doc.gen + 1 /\ Holder = Nobody /\ Holder' \in Instance /\ Open'
    /\ PendingWork' = PendingWork

\* A step that writes the document writes neither the rows nor the threads.
LEMMA DocIsWrittenAlone == ASSUME Next PROVE UNCHANGED doc \/ UNCHANGED <<team, drv>>
<1>1. ASSUME NEW i \in Instance, NEW w \in Worker,
             PublishRecovery(i, w) \/ Acquire(i, w) \/ Verify(i, w)
      PROVE  UNCHANGED <<team, drv>>
  BY <1>1 DEF PublishRecovery, Acquire, Verify
<1>2. ASSUME NEW i \in Instance,
             DrainAuthority(i) \/ Release(i) \/ \E t \in Thread : LatchDrain(i, t)
      PROVE  UNCHANGED <<team, drv>>
  BY <1>2 DEF DrainAuthority, Release, LatchDrain
<1>3. CASE Expire
  BY <1>3 DEF Expire
<1>4. QED
  BY <1>1, <1>2, <1>3, DocIsWritten DEF DocWriter

\* Where the document is written there is the same work before and after: what was
\* pending is, and under a new generation nothing was begun yet.
LEMMA WorkStays ==
    ASSUME IndInv, Next, doc' # doc PROVE PendingWork' = PendingWork
<1>1. doc.gen \in Nat /\ (doc'.gen = doc.gen \/ doc'.gen = doc.gen + 1)
  BY OwnedDoc, DocMoves DEF Keeps, Grants
<1>2. UNCHANGED <<team, drv>>
  BY DocIsWrittenAlone
<1>3. ASSUME NEW i \in Instance, Up(i) PROVE Up(i)'
  <2>1. ~Crash(i) /\ ~Exit(i)
    BY DEF Crash, Exit
  <2>2. Goes(i)
    BY NodeMoves DEF IndInv
  <2>3. QED
    BY <1>3, <2>1, <2>2 DEF Goes, Up
<1>4. ASSUME NEW s \in Space, NEW g, Pending(s, g) PROVE Pending(s, g)'
  <2>1. Clear(s, g)' <=> Clear(s, g)
    BY <1>2 DEF Clear, Unsettled, Unreleased, InUse
  <2>2. CASE ~Clear(s, g)
    BY <2>1, <2>2 DEF Pending
  <2>3. ASSUME NEW i \in Instance, Up(i), drv[i][s].gen = g,
               Live(drv[i][s]) \/ drv[i][s].group
        PROVE  Pending(s, g)'
    <3>1. Up(i)' /\ drv'[i][s].gen = g /\ (Live(drv[i][s])' \/ drv'[i][s].group)
      BY <1>2, <1>3, <2>3 DEF Live
    <3>2. QED
      BY <3>1 DEF Pending
  <2>4. QED
    BY <1>4, <2>2, <2>3 DEF Pending
<1>5. ASSUME NEW s \in Space PROVE ~Pending(s, doc.gen + 1)
  <2>1. team[s] \in Team /\ team[s].supGen <= doc.gen /\ team[s].cmdGen <= doc.gen
        /\ team[s].laneGen <= doc.gen
    BY DEF IndInv, TypeOK, GenerationsAreBehind
  <2>2. /\ team[s].supGen # doc.gen + 1 /\ team[s].cmdGen # doc.gen + 1
        /\ team[s].laneGen # doc.gen + 1
    BY <1>1, <2>1 DEF Team, Generation
  <2>3. Clear(s, doc.gen + 1)
    BY <2>2 DEF Clear, Unsettled, Unreleased, InUse
  <2>4. ASSUME NEW i \in Instance, Up(i), Live(drv[i][s]) \/ drv[i][s].group
        PROVE  drv[i][s].gen # doc.gen + 1
    <3>1. drv[i][s].gen <= doc.gen
      BY <2>4 DEF IndInv, DriverFits, Up
    <3>2. drv[i][s].gen \in Nat
      BY NodeDaemonAssumption DEF IndInv, TypeOK, Drv, Generation
    <3>3. QED
      BY <1>1, <3>1, <3>2
  <2>5. QED
    BY <2>3, <2>4 DEF Pending
<1>6. ASSUME NEW s \in Space, NEW g, Pending(s, g)' PROVE Pending(s, g)
  BY <1>6, PendingStays
<1>7. ASSUME NEW s \in Space, NEW g \in 1..doc'.gen, Pending(s, g)' PROVE g \in 1..doc.gen
  <2>1. Pending(s, g)
    BY <1>6, <1>7
  <2>2. g # doc.gen + 1
    BY <1>5, <2>1
  <2>3. QED
    BY <1>1, <2>2
<1>8. PendingWork' \subseteq PendingWork
  <2> SUFFICES ASSUME NEW s \in Space, NEW g \in 1..doc'.gen, Pending(s, g)'
               PROVE  g \in 1..doc.gen /\ Pending(s, g)
    BY DEF PendingWork
  <2>1. QED
    BY <1>6, <1>7
<1>9. PendingWork \subseteq PendingWork'
  <2> SUFFICES ASSUME NEW s \in Space, NEW g \in 1..doc.gen, Pending(s, g)
               PROVE  g \in 1..doc'.gen /\ Pending(s, g)'
    BY DEF PendingWork
  <2>1. QED
    BY <1>1, <1>4
<1>10. QED
  BY <1>8, <1>9

\* Work is begun for the current generation, under an authority that is open.
LEMMA WorkIsBegunUnderOpenAuthority ==
    ASSUME IndInv, Next, UNCHANGED doc
    PROVE  PendingWork' \subseteq PendingWork \cup (IF Open THEN Space \X {doc.gen} ELSE {})
<1> SUFFICES ASSUME NEW s \in Space, NEW g \in 1..doc.gen, Pending(s, g)', ~Pending(s, g)
             PROVE  Open /\ g = doc.gen
  BY DEF PendingWork
<1>1. QED
  BY PendingStays DEF Authorized, Open

\* An authority that ended, by expiry or drain, stays so for its generation.
LEMMA AuthorityEnds == ASSUME IndInv, Next, ~Open, doc'.gen = doc.gen PROVE ~Open'
<1>1. doc \in Doc /\ doc.gen \in Nat
  BY OwnedDoc
<1>2. doc' = doc => ~Open'
  BY DEF Open
<1>3. doc' = ReleasedDoc => ~Open'
  BY <1>1 DEF Open, ReleasedDoc, Doc
<1>4. ASSUME NEW i \in Instance, doc' = Drained(i) PROVE ~Open'
  BY <1>1, <1>2, <1>4 DEF Open, Drained, Doc
<1>5. CASE Expire
  BY <1>1, <1>5 DEF Open, Expire, Doc
<1>6. ASSUME NEW i \in Instance,
             DrainAuthority(i) \/ Release(i) \/ \E t \in Thread : LatchDrain(i, t)
      PROVE  ~Open'
  <2>1. doc' = Drained(i) \/ doc' = doc \/ doc' = ReleasedDoc
    BY <1>6 DEF DrainAuthority, Release, LatchDrain
  <2>2. QED
    BY <1>2, <1>3, <1>4, <2>1
<1>7. ASSUME NEW i \in Instance, NEW w \in Worker,
             PublishRecovery(i, w) \/ Verify(i, w) \/ Acquire(i, w)
      PROVE  ~Open'
  <2>1. doc' = doc \/ doc' = ReleasedDoc \/ doc'.gen = doc.gen + 1
    BY <1>7 DEF PublishRecovery, Verify, RolledBack, Acquire
  <2>2. QED
    BY <1>1, <1>2, <1>3, <2>1
<1>8. QED
  BY <1>2, <1>5, <1>6, <1>7, DocIsWritten DEF DocWriter

\* Who holds the machine on trial was so before: a bundle becomes one that may roll
\* back only with the recovery that frees the machine.
LEMMA TrialEnds == ASSUME IndInv, Next, doc'.gen = doc.gen, OnTrial' PROVE OnTrial
<1>1. /\ TypeOK /\ doc \in Doc /\ doc.gen \in Nat
      /\ pc \in [Instance -> [Thread -> {"idle", "run", "recover", "acquire", "verify", "adopt",
                                      "drain", "mark", "ok", "err"}]] /\ Worker \subseteq Thread
      /\ job \in [Instance -> [Worker -> Job]]
  BY OwnedDoc DEF IndInv, TypeOK, Thread
<1>2. \A i \in Instance, w \in Worker : ~Grants(i, w)
  BY <1>1 DEF Grants
<1>3. Keeps
  BY <1>2, DocMoves
<1>4. Held' /\ Held /\ doc'.owner = doc.owner
  BY <1>1, <1>3 DEF OnTrial, Held, Keeps, Doc
<1>5. PICK i \in Instance : i = doc.owner
  BY <1>4, OwnedDoc DEF Held
<1>6. PICK w \in Worker : /\ job'[i][w].newly
                          /\ \/ pc'[i][w] = "acquire"
                             \/ pc'[i][w] = "verify" /\ job'[i][w].pred = doc'.gen
  BY <1>4, <1>5 DEF OnTrial
<1>7. Up(i)
  <2>1. Up(i)' /\ Goes(i)
    BY <1>1, <1>4, <1>5, NodeMoves DEF OnTrial
  <2>2. node[i].proc \in {"up", "gone"}
    BY <1>5 DEF IndInv, OwnerIsKnown, Owns
  <2>3. QED
    BY <2>1, <2>2 DEF Goes, Up
<1>8. /\ job[i][w].newly
      /\ \/ pc[i][w] = "acquire"
         \/ pc[i][w] = "verify" /\ job[i][w].pred = doc.gen
  <2>1. CASE pc'[i][w] = pc[i][w] /\ job'[i][w] = job[i][w]
    BY <1>6, <2>1
  <2>2. CASE BeginBundle(i, w)
    <3>1. pc'[i][w] = "recover" \/ (pc'[i][w] = "acquire" /\ job'[i][w] = NoJob)
      BY <1>1, <2>2 DEF BeginBundle
    <3>2. ~NoJob.newly
      BY DEF NoJob
    <3>3. QED
      BY <1>6, <3>1, <3>2
  <2>3. CASE PublishRecovery(i, w)
    <3>1. PICK ok \in BOOLEAN : /\ job' = [job EXCEPT ![i][w] = [@ EXCEPT !.newly = ok]]
                                /\ ok => doc' = ReleasedDoc
      BY <2>3 DEF PublishRecovery
    <3>2. job'[i][w] = [job[i][w] EXCEPT !.newly = ok] /\ job[i][w] \in Job
      BY <1>1, <3>1
    <3>3. job'[i][w].newly = ok
      BY <3>2 DEF Job
    <3>4. doc' # ReleasedDoc
      BY <1>1, <1>4 DEF Held, ReleasedDoc, Doc
    <3>5. QED
      BY <1>6, <3>1, <3>3, <3>4
  <2>4. CASE Acquire(i, w)
    <3>1. pc'[i][w] \in {"verify", "drain"} /\ pc[i][w] = "acquire"
      BY <1>1, <2>4 DEF Acquire, Latch
    <3>2. pc'[i][w] = "verify"
      BY <1>6, <3>1
    <3>3. job'[i][w].newly = job[i][w].newly
      BY <1>1, <2>4, <3>2, AcquireVerifies
    <3>4. QED
      BY <1>6, <3>1, <3>3
  <2>5. ASSUME NEW s \in Space, RecoverSpace(i, w, s) PROVE FALSE
    <3>1. pc'[i][w] = "recover"
      BY <2>5 DEF RecoverSpace
    <3>2. QED
      BY <1>6, <3>1
  <2>6. QED
    BY <1>1, <1>6, <2>1, <2>2, <2>3, <2>4, <2>5, BundleMoves DEF Bundles
<1>9. QED
  BY <1>4, <1>5, <1>7, <1>8 DEF OnTrial

\* What is rolled back is held on trial.
LEMMA RollbackIsOnTrial == ASSUME IndInv, RollsBack, Held PROVE OnTrial
<1>1. PICK i \in Instance, w \in Worker : Verify(i, w) /\ doc' # doc
  BY DEF RollsBack
<1>2. Up(i) /\ pc[i][w] = "verify" /\ job[i][w].newly /\ doc.gen = job[i][w].pred
  BY <1>1 DEF Verify, RolledBack
<1>3. Owns(i)
  BY <1>2 DEF IndInv, RollbackIsOwn
<1>4. QED
  BY <1>2, <1>3 DEF OnTrial, Owns

\* Every step of the daemons is one of the authority's, or changes nothing in it
\* but that work is begun, while it is open, or ends.
LEMMA AuthorityMoves ==
    ASSUME IndInv, Next
    PROVE  AuthorityStays \/ AuthorityCloses \/ AuthorityGoes \/ AuthorityComes
<1>1. /\ doc \in Doc /\ doc.gen \in Nat /\ Nobody \notin Instance
      /\ doc.status # "Absent" => doc.owner \in Instance
  BY OwnedDoc, NodeDaemonAssumption
<1>2. CASE UNCHANGED doc
  <2>1. doc'.gen = doc.gen /\ Holder' = Holder /\ (Open' <=> Open)
    BY <1>2 DEF Holder, Held, Open
  <2>2. QED
    BY <1>2, <2>1, WorkIsBegunUnderOpenAuthority, TrialEnds DEF AuthorityStays
<1>3. CASE ~UNCHANGED doc
  <2>1. PendingWork' = PendingWork
    BY <1>3, WorkStays
  <2>2. ASSUME NEW i \in Instance, NEW w \in Worker, Grants(i, w) PROVE AuthorityComes
    BY <1>1, <2>1, <2>2 DEF Grants, FreeMachine, AuthorityComes, Holder, Held, Open
  <2>3. CASE Keeps
    <3>1. doc'.gen = doc.gen /\ doc'.owner = doc.owner
      BY <2>3 DEF Keeps
    <3>2. doc' \in Doc
      BY TypeStep DEF IndInv, TypeOK
    <3>3. CASE doc.status # "Released" /\ doc'.status = "Released"
      <4>1. Held /\ ~Held' /\ ~Open' /\ doc.owner # Nobody
        BY <1>1, <2>3, <3>3 DEF Keeps, Held, Open, Doc
      <4>2. ~OnTrial'
        BY <4>1 DEF OnTrial
      <4>3. OnTrial \/ \A s \in Space : <<s, doc.gen>> \notin PendingWork
        <5>1. CASE RollsBack
          BY <4>1, <5>1, RollbackIsOnTrial
        <5>2. CASE ~RollsBack
          BY <3>3, <5>2, ReleaseLeavesNothing DEF PendingWork
        <5>3. QED
          BY <5>1, <5>2
      <4>4. QED
        BY <2>1, <3>1, <4>1, <4>2, <4>3 DEF AuthorityGoes, Holder
    <3>4. CASE ~(doc.status # "Released" /\ doc'.status = "Released")
      <4>1. Held' <=> Held
        BY <1>1, <2>3, <3>2, <3>4 DEF Keeps, Held, Doc
      <4>2. Holder' = Holder
        BY <3>1, <4>1 DEF Holder
      <4>3. (~Open => ~Open') /\ (OnTrial' => OnTrial)
        BY <3>1, AuthorityEnds, TrialEnds
      <4>4. QED
        BY <2>1, <3>1, <4>2, <4>3 DEF AuthorityStays, AuthorityCloses
    <3>5. QED
      BY <3>3, <3>4
  <2>4. QED
    BY <2>2, <2>3, DocMoves
<1>4. QED
  BY <1>2, <1>3

\* The daemons of a machine are one authority, whatever dies and whatever is
\* overtaken: its generations are granted one by one, what has expired or been
\* drained begins nothing more, and it passes on with nothing of a generation left,
\* but for a holder that recovered its predecessor and rolls its own bundle back
\* (acquire_machine_lease, daemon_control_generation_authorized,
\* rollback_unused_bundle_leases).
THEOREM NodeDaemonImplementsMachineAuthority == Spec => MachineAuthorityHolds
<1>1. Init => Authority!Init
  <2> SUFFICES ASSUME Init PROVE Authority!Init
    OBVIOUS
  <2>1. doc.gen = 0 /\ doc.status = "Absent"
    BY DEF Init
  <2>2. ~Held /\ ~Open /\ ~OnTrial
    BY <2>1 DEF Held, Open, OnTrial
  <2>3. PendingWork = {}
    BY <2>1 DEF PendingWork
  <2>4. QED
    BY <2>1, <2>2, <2>3 DEF Authority!Init, Open, PendingWork
<1>2. IndInv /\ [Next]_vars => [Authority!Next]_(Authority!vars)
  <2> SUFFICES ASSUME IndInv, [Next]_vars PROVE [Authority!Next]_(Authority!vars)
    OBVIOUS
  <2>1. CASE UNCHANGED vars
    <3>1. UNCHANGED <<doc, node, pc, job, team, drv>>
      BY <2>1 DEF vars
    <3>2. UNCHANGED <<Holder, Open, OnTrial>>
      BY <3>1 DEF Holder, Held, Open, OnTrial, Up
    <3>3. UNCHANGED PendingWork
      BY <3>1 DEF PendingWork, Pending, Clear, Unsettled, Unreleased, InUse, Live, Up
    <3>4. QED
      BY <3>1, <3>2, <3>3 DEF Authority!vars, Holder, Open, PendingWork
  <2>2. CASE AuthorityStays
    <3>1. CASE Open
      <4>1. Authority!Work
        BY <2>2, <3>1 DEF AuthorityStays, Authority!Work, Authority!Confirm, Holder, Open, PendingWork
      <4>2. QED
        BY <4>1 DEF Authority!Next
    <3>2. CASE ~Open
      <4>1. Authority!Settle
        BY <2>2, <3>2 DEF AuthorityStays, Authority!Settle, Authority!Confirm, Holder, Open, PendingWork
      <4>2. QED
        BY <4>1 DEF Authority!Next
    <3>3. QED
      BY <3>1, <3>2
  <2>3. CASE AuthorityCloses
    <3>1. Authority!Close
      BY <2>3 DEF AuthorityCloses, Authority!Close, Authority!Confirm, Holder, Open, PendingWork
    <3>2. QED
      BY <3>1 DEF Authority!Next
  <2>4. CASE AuthorityGoes
    <3>1. Authority!Leave
      BY <2>4 DEF AuthorityGoes, Authority!Leave, Holder, Open, PendingWork
    <3>2. Authority!Release \/ Authority!Forfeit
      BY <2>4, <3>1 DEF AuthorityGoes, Authority!Release, Authority!Forfeit, PendingWork
    <3>3. QED
      BY <3>2 DEF Authority!Next
  <2>5. CASE AuthorityComes
    <3>1. OnTrial' \in BOOLEAN
      BY DEF OnTrial
    <3>2. Authority!Grant(Holder')
      BY <2>5, <3>1 DEF AuthorityComes, Authority!Grant, Holder, Open, PendingWork
    <3>3. QED
      BY <2>5, <3>2 DEF Authority!Next, AuthorityComes
  <2>6. QED
    BY <2>1, <2>2, <2>3, <2>4, <2>5, AuthorityMoves
<1>3. QED
  BY <1>1, <1>2, Inductive, PTL DEF Spec, MachineAuthorityHolds, Authority!Spec
=============================================================================
