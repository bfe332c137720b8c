-------------------------- MODULE MachineAuthority --------------------------
(***************************************************************************)
(* What a machine's NodeDaemons promise together, without leases, threads, *)
(* bundles or recoveries.  The machine passes from one holder to the next  *)
(* only through nobody, a generation at a time.  Work is begun only for    *)
(* the current generation, while the holder's authority is open, which     *)
(* never opens again once it ended.  A holder goes, whether it stops or is *)
(* recovered when it is dead, only when no Space has work of its           *)
(* generation left; the one exception is a holder that took over from a    *)
(* dead one and gives the machine up before it was confirmed.              *)
(***************************************************************************)
EXTENDS Naturals

CONSTANTS
    Instance,   \* daemon processes
    Nobody,     \* no process
    Space       \* Execution Spaces

VARIABLES
    gen,        \* generations granted so far
    holder,     \* who has the current one, until it is released
    open,       \* the holder may begin work
    trial,      \* the holder may still give the machine up
    busy        \* <<Space, generation>> pairs with work under way, or owed

vars == <<gen, holder, open, trial, busy>>

Init == gen = 0 /\ holder = Nobody /\ ~open /\ ~trial /\ busy = {}

\* A free machine is taken, in the next generation.
Grant(i) ==
    /\ holder = Nobody
    /\ gen' = gen + 1 /\ holder' = i /\ open' /\ trial' \in BOOLEAN /\ UNCHANGED busy

\* The holder is confirmed, or is not yet: a trial that ended does not begin again.
Confirm == trial' => trial

\* Work of this generation begins, and any ends, while the authority is open.
Work ==
    /\ open /\ busy' \subseteq busy \cup (Space \X {gen})
    /\ Confirm /\ UNCHANGED <<gen, holder, open>>

\* Afterwards it only ends, or is settled by others.
Settle == busy' \subseteq busy /\ Confirm /\ UNCHANGED <<gen, holder, open>>

\* The authority expires, or is drained.
Close == open /\ ~open' /\ Confirm /\ UNCHANGED <<gen, holder, busy>>

Leave == holder # Nobody /\ holder' = Nobody /\ ~open' /\ ~trial' /\ UNCHANGED <<gen, busy>>

\* The machine is free again, with nothing of this generation left behind.
Release == Leave /\ \A s \in Space : <<s, gen>> \notin busy

\* A holder on trial gives the machine up, whatever was begun meanwhile.
Forfeit == Leave /\ trial

Next == (\E i \in Instance : Grant(i)) \/ Work \/ Settle \/ Close \/ Release \/ Forfeit

Spec == Init /\ [][Next]_vars

=============================================================================
