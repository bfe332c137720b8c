----------------------------- MODULE LeaseRules -----------------------------
(***************************************************************************)
(* The pure decisions of the machine lease verbs: what each verb of        *)
(* firm-store/src/store_machine_lease.rs accepts and what document it      *)
(* would publish, given the document on disk and the clock sampled under   *)
(* the lease lock.  A daemon's id is a constant of its node                *)
(* ("node-daemon:<node_id>"), so an owner is told apart by its process     *)
(* instance alone.                                                         *)
(***************************************************************************)
EXTENDS Naturals

CONSTANTS
    Instance,            \* daemon process instances (pid : start ms : daemon)
    Nobody,              \* the owner of a machine that has no document yet
    LegacyGeneration,    \* highest generation any Space row ever issued
    GenerationCeiling,   \* the width of the generation counter (u64::MAX)
    LeaseTTL,            \* ttl of acquire and renew
    DrainTTL             \* ttl of drain

ASSUME LeaseRulesAssumption ==
    /\ Nobody \notin Instance
    /\ LegacyGeneration \in Nat
    /\ GenerationCeiling \in Nat
    /\ LeaseTTL \in Nat
    /\ DrainTTL \in Nat

Status == {"Absent", "Active", "Draining", "Released"}

\* The fields of NodeDaemonLease the decisions read.
Lease == [gen     : Nat,
          owner   : Instance \cup {Nobody},
          status  : Status,
          expires : Nat]

\* No document yet.  The cutover starts above every generation a Space ever
\* issued, so the absent document carries the highest of them.
NoLease == [gen |-> LegacyGeneration, owner |-> Nobody,
            status |-> "Absent", expires |-> 0]

\* ttl_ms.max(1): no ttl makes a lease that is born expired.
Expiry(now, ttl) == now + (IF ttl = 0 THEN 1 ELSE ttl)

\* Every verb past the first names the exact generation it believes it owns.
Exact(lease, gen, owner) ==
    /\ lease.status # "Absent"
    /\ lease.gen = gen
    /\ lease.owner = owner

-----------------------------------------------------------------------------

\* acquire_machine_lease: only an explicit Released (or an absent document)
\* lets a new generation in, and the counter never wraps.
MayAcquire(lease) ==
    /\ lease.status \in {"Absent", "Released"}
    /\ lease.gen < GenerationCeiling

\* Mutant of Acquired: the generation is not advanced.
ReusedGeneration(lease, p, now) ==
    [gen |-> lease.gen, owner |-> p, status |-> "Active",
     expires |-> Expiry(now, LeaseTTL)]

Acquired(lease, p, now) ==
    [gen |-> lease.gen + 1, owner |-> p, status |-> "Active",
     expires |-> Expiry(now, LeaseTTL)]

\* A second acquire of the instance that already holds the machine.
AlreadyHeld(lease, p, now) ==
    lease.owner = p /\ lease.status = "Active" /\ lease.expires > now

\* renew_machine_lease: an expired lease is not renewed by anyone.
MayRenew(lease, now) == lease.status = "Active" /\ lease.expires > now

Renewed(lease, now) == [lease EXCEPT !.expires = Expiry(now, LeaseTTL)]

\* Mutant of MayDrain: the status is not asked for.
DrainAnyStatus(lease) == lease.gen > 0

\* drain_machine_lease: expiry is not asked for.
MayDrain(lease) == lease.status = "Active"

Drained(lease, now) ==
    [lease EXCEPT !.status = "Draining", !.expires = Expiry(now, DrainTTL)]

\* Mutant of Released: the expiry is put before the clock.
ReleasedInThePast(lease, now) ==
    [lease EXCEPT !.status = "Released", !.expires = now - 1]

\* release_machine_lease: from any status, the proof being the caller's.
Released(lease, now) == [lease EXCEPT !.status = "Released", !.expires = now]

\* Mutant of ForwardOnly: only the generation is compared.
ForwardGeneration(cur, next) == cur.status = "Absent" \/ next.gen >= cur.gen

\* require_forward_only: no write lowers the generation, and none shortens
\* the expiry of a generation that keeps its status.
ForwardOnly(cur, next) ==
    cur.status = "Absent" \/
    /\ next.gen >= cur.gen
    /\ (next.gen = cur.gen /\ next.status = cur.status)
         => next.expires >= cur.expires

=============================================================================
