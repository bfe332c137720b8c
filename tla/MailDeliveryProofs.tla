------------------------- MODULE MailDeliveryProofs -------------------------
(***************************************************************************)
(* MailDelivery hands one delivery over at most once, and its receipts are *)
(* true, for every number of deliveries, generations and attempts.         *)
(*                                                                         *)
(* The proof is by the lifecycle of a row (Moves): each Store call takes   *)
(* the row one version further, so what the runner read before the call is *)
(* behind the row afterwards.                                              *)
(***************************************************************************)
EXTENDS MailDelivery, TLAPS, WellFoundedInduction

\* A non-empty set of natural numbers has a least element.
LEMMA LeastNatural ==
    ASSUME NEW T \in SUBSET Nat, T # {}
    PROVE  \E m \in T : \A n \in T : m <= n
<1> DEFINE R == {p \in Nat \X Nat : p[1] < p[2]}
<1>1. IsWellFoundedOn(R, Nat)
  BY NatLessThanWellFounded DEF OpToRel
<1>2. \E m \in T : \A n \in T : <<n, m>> \notin R
  <2> HIDE DEF R
  <2> QED
    BY <1>1, WFMin
<1>3. PICK m \in T : \A n \in T : <<n, m>> \notin R
  BY <1>2
<1>4. ASSUME NEW n \in T PROVE m <= n
  <2>1. ~(n < m)
    BY <1>3
  <2> QED
    BY <2>1
<1> QED
  BY <1>4

\* The batch of a runner has a first row: First chooses one of its rows.
LEMMA FirstIsMember ==
    ASSUME NEW T \in SUBSET Read, T # {}
    PROVE  First(T) \in T
<1> DEFINE M == {t.mail : t \in T}
<1>1. M \in SUBSET Nat /\ M # {}
  BY MailAssumption DEF Read, Mail, MailAssumption
<1>2. PICK m \in M : \A n \in M : m <= n
  <2> HIDE DEF M
  <2> QED
    BY <1>1, LeastNatural
<1>3. PICK t \in T : t.mail = m
  OBVIOUS
<1>4. \A u \in T : t.mail <= u.mail
  BY <1>2, <1>3
<1> QED
  BY <1>4 DEF First

-----------------------------------------------------------------------------
(* The lifecycle of a row.                                                 *)

\* The row of d goes to status s, one version further.
Goto(d, s, a, c) ==
    row' = [row EXCEPT ![d] = [status |-> s, attempt |-> a,
                               version |-> row[d].version + 1, claim |-> c]]

\* The transitions of CanonicalMessageDelivery.
Moves(d) ==
    \/ row[d].status = "None" /\ Goto(d, "Queued", 1, 0)
    \/ /\ row[d].status = "Queued" /\ row[d].attempt <= MaxAttempt
       /\ Goto(d, "Claimed", row[d].attempt, daemon.gen)
    \/ /\ row[d].status = "Claimed"
       /\ Goto(d, "ProviderReceived", row[d].attempt, row[d].claim)
    \/ /\ row[d].status = "ProviderReceived"
       /\ Goto(d, "Acknowledged", row[d].attempt, row[d].claim)
    \/ row[d].status = "Claimed" /\ Goto(d, "Queued", row[d].attempt + 1, 0)

\* What the type of a row says about its fields.
LEMMA RowFields ==
    ASSUME NEW r \in Row
    PROVE  /\ r = [status |-> r.status, attempt |-> r.attempt,
                   version |-> r.version, claim |-> r.claim]
           /\ r.status \in {"None", "Queued", "Claimed", "ProviderReceived",
                            "Acknowledged"}
           /\ r.attempt \in Nat /\ r.version \in Nat /\ r.claim \in Nat
           /\ r.status = "None" <=> r.version = 0
           /\ r.status = "None" => r.attempt = 1 /\ r.claim = 0
           /\ r.status # "None" => r.version \in Version
           /\ r.status \notin {"None", "Queued"} =>
                 r.attempt \in 1..MaxAttempt /\ r.claim \in 1..MaxDaemon
           /\ r.status = "Queued" => r.attempt \in 1..MaxAttempt+1 /\ r.claim = 0
  BY MailAssumption DEF Row, Version, MailAssumption

\* Writing a field of a row leaves the others.
LEMMA FieldUpdates ==
    ASSUME NEW r, NEW s0, NEW a0, NEW v0, NEW c0, NEW s, NEW a, NEW v, NEW c,
           r = [status |-> s0, attempt |-> a0, version |-> v0, claim |-> c0]
    PROVE  /\ [r EXCEPT !.status = s]
                = [status |-> s, attempt |-> a0, version |-> v0, claim |-> c0]
           /\ [r EXCEPT !.attempt = a]
                = [status |-> s0, attempt |-> a, version |-> v0, claim |-> c0]
           /\ [r EXCEPT !.version = v]
                = [status |-> s0, attempt |-> a0, version |-> v, claim |-> c0]
           /\ [r EXCEPT !.claim = c]
                = [status |-> s0, attempt |-> a0, version |-> v0, claim |-> c]
  OBVIOUS

\* What each Store call writes to a row, as one record.
LEMMA RowUpdates ==
    ASSUME row \in [Mail -> Row], NEW d \in Mail
    PROVE  /\ row[d].status = "None" =>
                [row EXCEPT ![d].status = "Queued", ![d].version = 1]
                  = [row EXCEPT ![d] = [status |-> "Queued", attempt |-> 1,
                                        version |-> row[d].version + 1, claim |-> 0]]
           /\ Claimed(d)
                = [row EXCEPT ![d] = [status |-> "Claimed", attempt |-> row[d].attempt,
                                      version |-> row[d].version + 1,
                                      claim |-> daemon.gen]]
           /\ Requeued(d)
                = [row EXCEPT ![d] = [status |-> "Queued",
                                      attempt |-> row[d].attempt + 1,
                                      version |-> row[d].version + 1, claim |-> 0]]
           /\ \A s \in {"ProviderReceived", "Acknowledged"} :
                [row EXCEPT ![d].status = s, ![d].version = @ + 1]
                  = [row EXCEPT ![d] = [status |-> s, attempt |-> row[d].attempt,
                                        version |-> row[d].version + 1,
                                        claim |-> row[d].claim]]
<1>1. row[d] \in Row
  OBVIOUS
<1> DEFINE r == row[d]
           s0 == row[d].status
           a == row[d].attempt
           v == row[d].version
           c == row[d].claim
<1>2. r = [status |-> s0, attempt |-> a, version |-> v, claim |-> c]
  BY <1>1, RowFields
<1>3. row[d].status = "None" => v = 0 /\ a = 1 /\ c = 0
  BY <1>1, RowFields
<1>4. ASSUME NEW s, NEW w
      PROVE  [row EXCEPT ![d].status = s, ![d].version = w]
               = [row EXCEPT ![d] = [status |-> s, attempt |-> a, version |-> w,
                                     claim |-> c]]
  <2> DEFINE r1 == [r EXCEPT !.status = s]
             r2 == [r1 EXCEPT !.version = w]
  <2>1. [row EXCEPT ![d].status = s, ![d].version = w] = [row EXCEPT ![d] = r2]
    OBVIOUS
  <2> HIDE DEF r, s0, a, v, c
  <2>2. r1 = [status |-> s, attempt |-> a, version |-> v, claim |-> c]
    BY <1>2, FieldUpdates
  <2> HIDE DEF r1
  <2>3. r2 = [status |-> s, attempt |-> a, version |-> w, claim |-> c]
    BY <2>2, FieldUpdates
  <2> QED
    BY <2>1, <2>3, Zenon
<1>5. Claimed(d) = [row EXCEPT ![d] = [status |-> "Claimed", attempt |-> a,
                                       version |-> v + 1, claim |-> daemon.gen]]
  <2> DEFINE r1 == [r EXCEPT !.status = "Claimed"]
             r2 == [r1 EXCEPT !.claim = daemon.gen]
             r3 == [r2 EXCEPT !.version = v + 1]
  <2>1. Claimed(d) = [row EXCEPT ![d] = r3]
    BY DEF Claimed
  <2> HIDE DEF r, s0, a, v, c
  <2>2. r1 = [status |-> "Claimed", attempt |-> a, version |-> v, claim |-> c]
    BY <1>2, FieldUpdates
  <2> HIDE DEF r1
  <2>3. r2 = [status |-> "Claimed", attempt |-> a, version |-> v,
              claim |-> daemon.gen]
    BY <2>2, FieldUpdates
  <2> HIDE DEF r2
  <2>4. r3 = [status |-> "Claimed", attempt |-> a, version |-> v + 1,
              claim |-> daemon.gen]
    BY <2>3, FieldUpdates
  <2> QED
    BY <2>1, <2>4, Zenon
<1>6. Requeued(d) = [row EXCEPT ![d] = [status |-> "Queued", attempt |-> a + 1,
                                        version |-> v + 1, claim |-> 0]]
  <2> DEFINE r1 == [r EXCEPT !.status = "Queued"]
             r2 == [r1 EXCEPT !.attempt = a + 1]
             r3 == [r2 EXCEPT !.version = v + 1]
             r4 == [r3 EXCEPT !.claim = 0]
  <2>1. Requeued(d) = [row EXCEPT ![d] = r4]
    BY DEF Requeued
  <2> HIDE DEF r, s0, a, v, c
  <2>2. r1 = [status |-> "Queued", attempt |-> a, version |-> v, claim |-> c]
    BY <1>2, FieldUpdates
  <2> HIDE DEF r1
  <2>3. r2 = [status |-> "Queued", attempt |-> a + 1, version |-> v, claim |-> c]
    BY <2>2, FieldUpdates
  <2> HIDE DEF r2
  <2>4. r3 = [status |-> "Queued", attempt |-> a + 1, version |-> v + 1, claim |-> c]
    BY <2>3, FieldUpdates
  <2> HIDE DEF r3
  <2>5. r4 = [status |-> "Queued", attempt |-> a + 1, version |-> v + 1, claim |-> 0]
    BY <2>4, FieldUpdates
  <2> QED
    BY <2>1, <2>5, Zenon
<1>7. row[d].status = "None" =>
        [row EXCEPT ![d].status = "Queued", ![d].version = 1]
          = [row EXCEPT ![d] = [status |-> "Queued", attempt |-> 1,
                                version |-> v + 1, claim |-> 0]]
  <2>1. row[d].status = "None" => v + 1 = 1 /\ a = 1 /\ c = 0
    BY <1>3
  <2> QED
    BY <1>4, <2>1, Zenon
<1> QED
  BY <1>4, <1>5, <1>6, <1>7, Zenon

\* A move keeps the type of the rows and the meaning of their versions, and
\* takes one row one version further.
LEMMA MoveKeepsRows ==
    ASSUME TypeOK, VersionIsDetermined, NEW d \in Mail, Moves(d)
    PROVE  /\ row' \in [Mail -> Row]
           /\ VersionIsDetermined'
           /\ \A e \in Mail \ {d} : row'[e] = row[e]
           /\ row'[d].version = row[d].version + 1
<1> USE DEF TypeOK
<1>1. row[d] \in Row /\ daemon.gen \in 1..MaxDaemon
  OBVIOUS
<1>2. MaxAttempt \in Nat
  BY MailAssumption DEF MailAssumption
<1>3. ASSUME NEW s, NEW a, NEW c, Goto(d, s, a, c),
             [status |-> s, attempt |-> a, version |-> row[d].version + 1,
              claim |-> c] \in Row,
             s = "Queued" => row[d].version + 1 = 2 * a - 1,
             s = "Claimed" => row[d].version + 1 = 2 * a,
             s = "ProviderReceived" => row[d].version + 1 = 2 * a + 1,
             s = "Acknowledged" => row[d].version + 1 = 2 * a + 2
      PROVE  /\ row' \in [Mail -> Row]
             /\ VersionIsDetermined'
             /\ \A e \in Mail \ {d} : row'[e] = row[e]
             /\ row'[d].version = row[d].version + 1
  <2>1. \A e \in Mail \ {d} : row'[e] = row[e]
    BY <1>3 DEF Goto
  <2>2. row'[d] = [status |-> s, attempt |-> a, version |-> row[d].version + 1,
                   claim |-> c]
    BY <1>3 DEF Goto
  <2>3. row' \in [Mail -> Row]
    BY <1>3 DEF Goto
  <2>4. VersionIsDetermined'
    BY <1>3, <2>1, <2>2 DEF VersionIsDetermined
  <2> QED
    BY <2>1, <2>2, <2>3, <2>4
<1>4. CASE row[d].status = "None" /\ Goto(d, "Queued", 1, 0)
  <2>1. row[d].version = 0
    BY <1>1, <1>4, RowFields
  <2>2. [status |-> "Queued", attempt |-> 1, version |-> row[d].version + 1,
         claim |-> 0] \in Row
    BY <1>2, <2>1 DEF Row, Version
  <2> QED
    BY <1>3, <1>4, <2>1, <2>2
<1>5. CASE /\ row[d].status = "Queued" /\ row[d].attempt <= MaxAttempt
           /\ Goto(d, "Claimed", row[d].attempt, daemon.gen)
  <2>1. row[d].version = 2 * row[d].attempt - 1 /\ row[d].attempt \in 1..MaxAttempt
    BY <1>1, <1>2, <1>5, RowFields DEF VersionIsDetermined
  <2>2. [status |-> "Claimed", attempt |-> row[d].attempt,
         version |-> row[d].version + 1, claim |-> daemon.gen] \in Row
    BY <1>1, <1>2, <2>1 DEF Row, Version
  <2> QED
    BY <1>3, <1>5, <2>1, <2>2
<1>6. CASE /\ row[d].status = "Claimed"
           /\ Goto(d, "ProviderReceived", row[d].attempt, row[d].claim)
  <2>1. /\ row[d].version = 2 * row[d].attempt /\ row[d].attempt \in 1..MaxAttempt
        /\ row[d].claim \in 1..MaxDaemon
    BY <1>1, <1>2, <1>6, RowFields DEF VersionIsDetermined
  <2>2. [status |-> "ProviderReceived", attempt |-> row[d].attempt,
         version |-> row[d].version + 1, claim |-> row[d].claim] \in Row
    BY <1>2, <2>1 DEF Row, Version
  <2> QED
    BY <1>3, <1>6, <2>1, <2>2
<1>7. CASE /\ row[d].status = "ProviderReceived"
           /\ Goto(d, "Acknowledged", row[d].attempt, row[d].claim)
  <2>1. /\ row[d].version = 2 * row[d].attempt + 1 /\ row[d].attempt \in 1..MaxAttempt
        /\ row[d].claim \in 1..MaxDaemon
    BY <1>1, <1>2, <1>7, RowFields DEF VersionIsDetermined
  <2>2. [status |-> "Acknowledged", attempt |-> row[d].attempt,
         version |-> row[d].version + 1, claim |-> row[d].claim] \in Row
    BY <1>2, <2>1 DEF Row, Version
  <2> QED
    BY <1>3, <1>7, <2>1, <2>2
<1>8. CASE row[d].status = "Claimed" /\ Goto(d, "Queued", row[d].attempt + 1, 0)
  <2>1. row[d].version = 2 * row[d].attempt /\ row[d].attempt \in 1..MaxAttempt
    BY <1>1, <1>2, <1>8, RowFields DEF VersionIsDetermined
  <2>2. [status |-> "Queued", attempt |-> row[d].attempt + 1,
         version |-> row[d].version + 1, claim |-> 0] \in Row
    BY <1>2, <2>1 DEF Row, Version
  <2> QED
    BY <1>3, <1>8, <2>1, <2>2
<1> QED
  BY <1>4, <1>5, <1>6, <1>7, <1>8 DEF Moves

\* The Store calls that touch nothing but a row move it along its lifecycle.
LEMMA RowActions ==
    ASSUME TypeOK, NEW d \in Mail
    PROVE  /\ Author(d) => Moves(d)
           /\ DispatchClaim(d) => Moves(d)
           /\ OperatorRequeues(d) => Moves(d)
           /\ OperatorAcknowledges(d) => Moves(d)
<1>1. row \in [Mail -> Row]
  BY DEF TypeOK
<1>2. Author(d) => Moves(d)
  BY <1>1, RowUpdates DEF Author, Moves, Goto
<1>3. DispatchClaim(d) => Moves(d)
  BY <1>1, RowUpdates DEF DispatchClaim, Moves, Goto
<1>4. OperatorRequeues(d) => Moves(d)
  BY <1>1, RowUpdates DEF OperatorRequeues, Moves, Goto
<1>5. OperatorAcknowledges(d) => Moves(d)
  BY <1>1, RowUpdates DEF OperatorAcknowledges, Moves, Goto
<1> QED
  BY <1>2, <1>3, <1>4, <1>5

\* Only a receipt and an acknowledgement give a row the status that says so, and
\* only an acknowledgement leaves ProviderReceived.
LEMMA MoveKeepsReceipts ==
    ASSUME TypeOK, NEW d \in Mail, Moves(d),
           row'[d].status \in {"ProviderReceived", "Acknowledged"}
    PROVE  \/ row[d].status = "Claimed" /\ row'[d].status = "ProviderReceived"
           \/ row[d].status = "ProviderReceived" /\ row'[d].status = "Acknowledged"
  BY DEF Moves, Goto, TypeOK

\* The rows as a runner reads them.
LEMMA AsReadIsRead ==
    ASSUME TypeOK, NEW D \in SUBSET Mail, \A d \in D : row[d].status # "None"
    PROVE  /\ AsRead(D) \in SUBSET Read
           /\ \A t, u \in AsRead(D) : t.mail = u.mail => t = u
           /\ \A t \in AsRead(D) : t.mail \in D /\ t.version = row[t.mail].version
<1>1. \A d \in D : row[d].version \in Version
  BY RowFields DEF TypeOK
<1> QED
  BY <1>1 DEF AsRead, Read

\* A runner that has claimed a row knows it is not an unwritten one.
LEMMA ClaimedIsWritten ==
    ASSUME TypeOK, ClaimedIsPastFirst, NEW d \in ClaimedOnce
    PROVE  d \in Mail /\ row[d].status # "None"
<1>1. d \in Mail
  BY DEF ClaimedOnce
<1>2. row[d].version >= 2
  BY DEF ClaimedIsPastFirst
<1>3. row[d] \in Row
  BY <1>1 DEF TypeOK
<1> QED
  BY <1>1, <1>2, <1>3, RowFields

-----------------------------------------------------------------------------
(* The invariant is inductive.                                             *)

\* Nothing is written, claimed or handed over in the first state.
LEMMA InitIndInv == Init => IndInv
<1> SUFFICES ASSUME Init PROVE IndInv
  OBVIOUS
<1>1. TypeOK
  BY MailAssumption DEF Init, TypeOK, Row, MailAssumption
<1>2. VersionIsDetermined /\ ReadsAreBehind /\ ClaimedIsPastFirst /\ BatchIsClaimed
  BY DEF Init, VersionIsDetermined, ReadsAreBehind, ClaimedIsPastFirst, BatchIsClaimed,
         ClaimedOnce, At
<1>3. BatchFollowsHandover /\ RequeuesItsOwn /\ HandedOverAtMostOnce
      /\ ReceiptMeansHandedOver
  BY DEF Init, BatchFollowsHandover, RequeuesItsOwn, HandedOverAtMostOnce,
         ReceiptMeansHandedOver, At
<1> QED
  BY <1>1, <1>2, <1>3 DEF IndInv

\* A row that moves under a runner, by someone else's Store call, leaves what the
\* runner read behind.
LEMMA OthersMoveRows ==
    ASSUME IndInv, NEW d \in Mail, Moves(d),
           UNCHANGED <<daemon, session, supervisor, claimKeys, nackKeys, runner, handed>>,
           row'[d].status # "ProviderReceived"
    PROVE  IndInv'
<1> USE DEF IndInv
<1>1. /\ row' \in [Mail -> Row]
      /\ VersionIsDetermined'
      /\ \A e \in Mail \ {d} : row'[e] = row[e]
      /\ row'[d].version = row[d].version + 1
  BY MoveKeepsRows
<1>2. \A e \in Mail : row[e].version \in Nat
  BY RowFields DEF TypeOK
<1>3. \A e \in Mail : row'[e].version \in Nat /\ row[e].version <= row'[e].version
  BY <1>1, <1>2
<1>4. TypeOK'
  BY <1>1 DEF TypeOK
<1>5. \A t \in runner.todo : t.mail \in Mail /\ t.version \in Nat
  BY MailAssumption DEF TypeOK, Read, Version, MailAssumption
<1>6. ReadsAreBehind'
  BY <1>2, <1>3, <1>5 DEF ReadsAreBehind, At
<1>7. ClaimedIsPastFirst'
  <2>1. ClaimedOnce' = ClaimedOnce /\ ClaimedOnce \subseteq Mail
    BY DEF ClaimedOnce
  <2> QED
    BY <1>2, <1>3, <2>1 DEF ClaimedIsPastFirst
<1>8. BatchIsClaimed' /\ BatchFollowsHandover' /\ HandedOverAtMostOnce'
  BY DEF BatchIsClaimed, BatchFollowsHandover, HandedOverAtMostOnce, ClaimedOnce, At
<1>9. RequeuesItsOwn'
  <2> SUFFICES ASSUME At("requeuing"), NEW t \in runner.todo,
                      row'[t.mail].version = t.version
               PROVE  row'[t.mail].status = "Claimed" /\ row'[t.mail].claim = daemon.gen
    BY DEF RequeuesItsOwn, At
  <2>1. t.version <= row[t.mail].version
    BY DEF ReadsAreBehind
  <2>2. t.mail # d
    BY <1>1, <1>2, <1>5, <2>1
  <2> QED
    BY <1>1, <1>5, <2>2 DEF RequeuesItsOwn
<1>10. ReceiptMeansHandedOver'
  BY <1>1, MoveKeepsReceipts DEF ReceiptMeansHandedOver
<1> QED
  BY <1>1, <1>4, <1>6, <1>7, <1>8, <1>9, <1>10

\* A step of the runner that writes no row and hands nothing over: what it has
\* read and what it holds decide.
LEMMA RunnerStep ==
    ASSUME IndInv, UNCHANGED <<row, claimKeys, handed>>, TypeOK', ReadsAreBehind',
           runner'.at \in {"claiming", "polling"} =>
               \A t \in runner'.todo : t.mail \in ClaimedOnce => t.version >= 2,
           runner'.batch \subseteq ClaimedOnce, BatchFollowsHandover', RequeuesItsOwn'
    PROVE  IndInv'
<1> USE DEF IndInv
<1>1. ClaimedOnce' = ClaimedOnce
  BY DEF ClaimedOnce
<1>2. VersionIsDetermined' /\ HandedOverAtMostOnce' /\ ReceiptMeansHandedOver'
  BY DEF VersionIsDetermined, HandedOverAtMostOnce, ReceiptMeansHandedOver
<1>3. ClaimedIsPastFirst'
  BY <1>1 DEF ClaimedIsPastFirst
<1>4. BatchIsClaimed'
  BY <1>1 DEF BatchIsClaimed
<1> QED
  BY <1>2, <1>3, <1>4

\* A step that leaves the runner alone, or only lets go of what it holds.
LEMMA RunnerLetsGo ==
    ASSUME IndInv, UNCHANGED <<row, claimKeys, handed>>, TypeOK',
           runner'.at \in {"off", "idle", "running", "ready", "prepared", "failing",
                          "replying"},
           runner'.at \in {"ready", "prepared", "replying"} =>
               runner.at \in {"claiming", "polling", "ready", "prepared", "replying"},
           runner'.todo \subseteq runner.todo, runner'.batch \subseteq runner.batch,
           runner'.at # "off" => daemon'.status # "Released"
    PROVE  IndInv'
<1> USE DEF IndInv
<1>1. ReadsAreBehind'
  BY DEF ReadsAreBehind, At
<1>2. runner'.batch \subseteq ClaimedOnce
  BY DEF BatchIsClaimed
<1>3. BatchFollowsHandover' /\ RequeuesItsOwn'
  BY DEF BatchFollowsHandover, RequeuesItsOwn, At
<1> QED
  BY <1>1, <1>2, <1>3, RunnerStep

\* A step that changes only what authority there is.
LEMMA AuthorityStep ==
    ASSUME IndInv, UNCHANGED <<row, claimKeys, handed, runner>>, TypeOK',
           At("off") \/ (daemon'.gen = daemon.gen /\ daemon'.status # "Released")
    PROVE  IndInv'
<1> USE DEF IndInv
<1>1. ReadsAreBehind' /\ BatchFollowsHandover'
  BY DEF ReadsAreBehind, BatchFollowsHandover, At
<1>2. /\ runner'.batch \subseteq ClaimedOnce
      /\ runner'.at \in {"claiming", "polling"} =>
               \A t \in runner'.todo : t.mail \in ClaimedOnce => t.version >= 2
  BY DEF BatchIsClaimed, ClaimedIsPastFirst
<1>3. RequeuesItsOwn'
  BY DEF RequeuesItsOwn, At
<1> QED
  BY <1>1, <1>2, <1>3, RunnerStep

\* The generations, the supervisor's lease and the start of a runner.
LEMMA AuthoritySteps ==
    ASSUME IndInv,
           Drain \/ Release \/ Succeed \/ StartSupervisor \/ StartMember \/ LeaseLapses
    PROVE  IndInv'
<1> USE DEF IndInv
<1>1. MaxDaemon \in Nat \ {0} /\ MaxSupervisor \in Nat \ {0}
  BY MailAssumption DEF MailAssumption
<1>2. CASE Drain
  <2>1. TypeOK'
    BY <1>2 DEF Drain, TypeOK
  <2> QED
    BY <1>2, <2>1, AuthorityStep DEF Drain, TypeOK
<1>3. CASE Release
  <2>1. TypeOK'
    BY <1>3 DEF Release, TypeOK
  <2>2. At("off") /\ UNCHANGED <<row, claimKeys, handed, runner>>
    BY <1>3 DEF Release
  <2> QED
    BY <2>1, <2>2, AuthorityStep
<1>4. CASE Succeed
  <2>1. TypeOK'
    BY <1>1, <1>4 DEF Succeed, TypeOK
  <2>2. At("off")
    BY <1>4 DEF Succeed, RequeuesItsOwn
  <2> QED
    BY <1>4, <2>1, <2>2, AuthorityStep DEF Succeed
<1>5. CASE LeaseLapses
  <2>1. TypeOK'
    BY <1>5 DEF LeaseLapses, TypeOK
  <2>2. /\ At("off") \/ (daemon'.gen = daemon.gen /\ daemon'.status # "Released")
        /\ UNCHANGED <<row, claimKeys, handed, runner>>
    BY <1>5 DEF RequeuesItsOwn, LeaseLapses
  <2> QED
    BY <2>1, <2>2, AuthorityStep
<1>6. CASE StartSupervisor
  <2>1. runner' = [runner EXCEPT !.at = "idle"]
    BY <1>6 DEF StartSupervisor, Goes
  <2>2. TypeOK'
    BY <1>1, <1>6, <2>1 DEF StartSupervisor, TypeOK
  <2> QED
    BY <1>6, <2>1, <2>2, RunnerLetsGo DEF StartSupervisor, TypeOK
<1>7. CASE StartMember
  <2>1. runner' = [runner EXCEPT !.at = "idle"]
    BY <1>7 DEF StartMember, Goes
  <2>2. TypeOK'
    BY <1>7, <2>1 DEF StartMember, TypeOK
  <2> QED
    BY <1>7, <2>1, <2>2, RunnerLetsGo DEF StartMember, CurrentDaemon, TypeOK
<1> QED
  BY <1>2, <1>3, <1>4, <1>5, <1>6, <1>7

\* The runner goes on to its next place, or lets go of what it holds.
LEMMA LettingGo ==
    ASSUME IndInv,
           RunnerEnds \/ ClaimsDone \/ PollDone \/ Prepare \/ MarksDone \/ EndCycle
             \/ Fail \/ RequeueDone
    PROVE  IndInv'
<1> USE DEF IndInv
<1>1. ~At("off") => daemon.status # "Released"
  BY DEF RequeuesItsOwn
<1>2. CASE RunnerEnds
  <2>1. TypeOK'
    BY <1>2 DEF RunnerEnds, TypeOK
  <2> QED
    BY <1>2, <2>1, RunnerLetsGo DEF RunnerEnds
<1>3. CASE ClaimsDone
  <2>1. runner' = [runner EXCEPT !.at = "ready"]
    BY <1>3 DEF ClaimsDone, Goes
  <2>2. TypeOK'
    BY <1>3, <2>1 DEF ClaimsDone, TypeOK
  <2> QED
    BY <1>1, <1>3, <2>1, <2>2, RunnerLetsGo DEF ClaimsDone, At, TypeOK
<1>4. CASE PollDone
  <2>1. PICK kept \in SUBSET runner.batch :
          runner' = [at |-> IF kept = {} THEN "running" ELSE "replying",
                     todo |-> {}, batch |-> kept]
    BY <1>4 DEF PollDone
  <2>2. TypeOK'
    BY <1>4, <2>1 DEF PollDone, TypeOK
  <2> QED
    BY <1>1, <1>4, <2>1, <2>2, RunnerLetsGo DEF PollDone, At
<1>5. CASE Prepare
  <2>1. runner' = [runner EXCEPT !.at = "prepared"]
    BY <1>5 DEF Prepare, Goes
  <2>2. TypeOK'
    BY <1>5, <2>1 DEF Prepare, TypeOK
  <2> QED
    BY <1>1, <1>5, <2>1, <2>2, RunnerLetsGo DEF Prepare, At, TypeOK
<1>6. CASE MarksDone
  <2>1. TypeOK'
    BY <1>6 DEF MarksDone, TypeOK
  <2> QED
    BY <1>1, <1>6, <2>1, RunnerLetsGo DEF MarksDone, At
<1>7. CASE EndCycle
  <2>1. runner' = [runner EXCEPT !.at = "idle"]
    BY <1>7 DEF EndCycle, Goes
  <2>2. TypeOK'
    BY <1>7, <2>1 DEF EndCycle, TypeOK
  <2> QED
    BY <1>1, <1>7, <2>1, <2>2, RunnerLetsGo DEF EndCycle, At, TypeOK
<1>8. CASE Fail
  <2>1. TypeOK'
    BY <1>8 DEF Fail, TypeOK
  <2> QED
    BY <1>1, <1>8, <2>1, RunnerLetsGo DEF Fail, At
<1>9. CASE RequeueDone
  <2>1. PICK p \in {"off", "idle"} : runner' = [runner EXCEPT !.at = p]
    BY <1>9 DEF RequeueDone, Goes
  <2>2. TypeOK'
    BY <1>9, <2>1 DEF RequeueDone, TypeOK
  <2> QED
    BY <1>1, <1>9, <2>1, <2>2, RunnerLetsGo DEF RequeueDone, At, TypeOK
<1> QED
  BY <1>2, <1>3, <1>4, <1>5, <1>6, <1>7, <1>8, <1>9

\* The runner reads the rows it is about to claim, to mark or to put back.
LEMMA Reading ==
    ASSUME IndInv,
           (\E trigger \in BOOLEAN : BeginClaims(trigger)) \/ BeginPoll \/ AcceptInput
             \/ BeginRequeue
    PROVE  IndInv'
<1> USE DEF IndInv
<1>1. ~At("off") => daemon.status # "Released"
  BY DEF RequeuesItsOwn
<1>2. \A d \in ClaimedOnce : d \in Mail /\ row[d].status # "None" /\ row[d].version >= 2
  BY ClaimedIsWritten DEF ClaimedIsPastFirst
<1>3. ASSUME NEW place \in {"claiming", "polling"},
             runner' = [at |-> place, todo |-> AsRead(InStatus("Queued")), batch |-> {}],
             ~At("off"),
             UNCHANGED <<daemon, session, supervisor, row, claimKeys, nackKeys, handed>>
      PROVE  IndInv'
  <2> DEFINE D == InStatus("Queued")
  <2>1. /\ AsRead(D) \in SUBSET Read
        /\ \A t, u \in AsRead(D) : t.mail = u.mail => t = u
        /\ \A t \in AsRead(D) : t.mail \in D /\ t.version = row[t.mail].version
    BY AsReadIsRead DEF InStatus
  <2>2. TypeOK'
    BY <1>3, <2>1 DEF TypeOK
  <2>3. \A t \in AsRead(D) : t.mail \in Mail /\ t.version \in Nat
    BY <2>1, MailAssumption DEF Read, Version, MailAssumption
  <2>4. ReadsAreBehind'
    BY <1>3, <2>1, <2>3 DEF ReadsAreBehind, At
  <2>5. \A t \in runner'.todo : t.mail \in ClaimedOnce => t.version >= 2
    BY <1>2, <1>3, <2>1
  <2>6. BatchFollowsHandover' /\ RequeuesItsOwn'
    BY <1>1, <1>3 DEF BatchFollowsHandover, RequeuesItsOwn, At
  <2>7. runner'.batch \subseteq ClaimedOnce /\ UNCHANGED <<row, claimKeys, handed>>
    BY <1>3
  <2> QED
    BY <2>2, <2>4, <2>5, <2>6, <2>7, RunnerStep
<1>4. ASSUME NEW trigger \in BOOLEAN, BeginClaims(trigger) PROVE IndInv'
  BY <1>3, <1>4 DEF BeginClaims, At
<1>5. CASE BeginPoll
  BY <1>3, <1>5 DEF BeginPoll, At
<1>6. CASE AcceptInput
  <2> DEFINE D == runner.batch
  <2>1. D \in SUBSET Mail /\ D \subseteq ClaimedOnce
    BY DEF TypeOK, BatchIsClaimed
  <2>2. /\ AsRead(D) \in SUBSET Read
        /\ \A t, u \in AsRead(D) : t.mail = u.mail => t = u
        /\ \A t \in AsRead(D) : t.mail \in D /\ t.version = row[t.mail].version
    BY <1>2, <2>1, AsReadIsRead
  <2>3. /\ runner'.at = "marking" /\ runner'.todo = AsRead(D)
        /\ runner'.batch = runner.batch
        /\ UNCHANGED <<daemon, session, supervisor, row, claimKeys, nackKeys, handed>>
    BY <1>6 DEF AcceptInput, TypeOK
  <2>4. TypeOK'
    BY <1>6, <2>2 DEF AcceptInput, TypeOK
  <2>5. \A t \in AsRead(D) : t.mail \in Mail /\ t.version \in Nat
    BY <2>2, MailAssumption DEF Read, Version, MailAssumption
  <2>6. ReadsAreBehind'
    BY <2>2, <2>3, <2>5 DEF ReadsAreBehind, At
  <2>7. BatchFollowsHandover'
    BY <1>6, <2>2, <2>3 DEF BatchFollowsHandover, AcceptInput, At
  <2>8. RequeuesItsOwn'
    BY <1>1, <1>6, <2>3 DEF RequeuesItsOwn, AcceptInput, At
  <2> QED
    BY <2>1, <2>3, <2>4, <2>6, <2>7, <2>8, RunnerStep
<1>7. CASE BeginRequeue
  <2> DEFINE D == OwnClaims
  <2>1. D \in SUBSET Mail /\ \A d \in D : row[d].status # "None"
    BY DEF OwnClaims, InStatus
  <2>2. /\ AsRead(D) \in SUBSET Read
        /\ \A t, u \in AsRead(D) : t.mail = u.mail => t = u
        /\ \A t \in AsRead(D) : t.mail \in D /\ t.version = row[t.mail].version
    <3> HIDE DEF D
    <3> QED
      BY <2>1, AsReadIsRead
  <2>3. /\ runner'.at = "requeuing" /\ runner'.todo = AsRead(D)
        /\ runner'.batch = runner.batch
        /\ UNCHANGED <<daemon, session, supervisor, row, claimKeys, nackKeys, handed>>
    BY <1>7 DEF BeginRequeue, TypeOK
  <2>4. TypeOK'
    BY <1>7, <2>2 DEF BeginRequeue, TypeOK
  <2>5. \A t \in AsRead(D) : t.mail \in Mail /\ t.version \in Nat
    BY <2>2, MailAssumption DEF Read, Version, MailAssumption
  <2>6. ReadsAreBehind'
    BY <2>2, <2>3, <2>5 DEF ReadsAreBehind, At
  <2>7. BatchFollowsHandover' /\ runner'.batch \subseteq ClaimedOnce
    BY <2>3 DEF BatchFollowsHandover, BatchIsClaimed, At
  <2>8. RequeuesItsOwn'
    BY <1>1, <1>7, <2>2, <2>3 DEF RequeuesItsOwn, BeginRequeue, At, OwnClaims, InStatus
  <2> QED
    BY <2>3, <2>4, <2>6, <2>7, <2>8, RunnerStep
<1> QED
  BY <1>4, <1>5, <1>6, <1>7

\* A claim that is admitted is the first one of its delivery, so nothing of the
\* delivery was handed over yet.
LEMMA Claiming == ASSUME IndInv, ClaimNext PROVE IndInv'
<1> USE DEF IndInv
<1> DEFINE t == First(runner.todo)
           d == t.mail
<1>1. t \in runner.todo /\ d \in Mail /\ t.version \in Nat
  <2>1. runner.todo \in SUBSET Read /\ runner.todo # {}
    BY DEF ClaimNext, TypeOK
  <2>2. t \in runner.todo
    BY <2>1, FirstIsMember
  <2> QED
    BY <2>1, <2>2, MailAssumption DEF Read, Version, MailAssumption
<1>2. /\ ClaimAdmits(t) /\ row' = Claimed(d)
      /\ claimKeys' = claimKeys \cup {<<daemon.gen, d>>}
      /\ runner' = [runner EXCEPT !.todo = @ \ {t}, !.batch = @ \cup {d}]
      /\ runner.at \in {"claiming", "polling"}
      /\ UNCHANGED <<daemon, session, supervisor, nackKeys, handed>>
  BY DEF ClaimNext
<1>3. /\ runner'.at = runner.at /\ runner'.todo = runner.todo \ {t}
      /\ runner'.batch = runner.batch \cup {d}
  BY <1>2 DEF TypeOK
<1> HIDE DEF t
<1>4. t.version = 1 /\ Moves(d)
  <2>1. t.version = 1 /\ row[d].status = "Queued" /\ row[d].attempt <= MaxAttempt
    BY <1>1, <1>2 DEF ClaimAdmits
  <2>2. row \in [Mail -> Row]
    BY DEF TypeOK
  <2> QED
    BY <1>1, <1>2, <2>1, <2>2, RowUpdates DEF Moves, Goto
<1>5. /\ row' \in [Mail -> Row]
      /\ VersionIsDetermined'
      /\ \A e \in Mail \ {d} : row'[e] = row[e]
      /\ row'[d].version = row[d].version + 1
  BY <1>1, <1>4, MoveKeepsRows
<1>6. \A e \in Mail : row[e].version \in Nat
  BY RowFields DEF TypeOK
<1>7. \A e \in Mail : row'[e].version \in Nat /\ row[e].version <= row'[e].version
  BY <1>5, <1>6
<1>8. d \notin ClaimedOnce
  BY <1>1, <1>2, <1>4 DEF ClaimedIsPastFirst
<1>9. ClaimedOnce' = ClaimedOnce \cup {d}
  <2>1. daemon.gen \in 1..MaxDaemon
    BY DEF TypeOK
  <2> QED
    BY <1>1, <1>2, <2>1 DEF ClaimedOnce
<1>10. TypeOK'
  <2>1. daemon.gen \in 1..MaxDaemon
    BY DEF TypeOK
  <2>2. claimKeys' \subseteq (1..MaxDaemon) \X Mail
    BY <1>1, <1>2, <2>1 DEF TypeOK
  <2> QED
    BY <1>1, <1>2, <1>5, <2>2 DEF TypeOK
<1>11. \A u \in runner.todo : u.mail \in Mail /\ u.version \in Nat
  BY MailAssumption DEF TypeOK, Read, Version, MailAssumption
<1>12. ReadsAreBehind'
  BY <1>2, <1>3, <1>6, <1>7, <1>11 DEF ReadsAreBehind, At
<1>13. ClaimedIsPastFirst'
  <2>1. row'[d].version >= 2
    BY <1>1, <1>4, <1>5, <1>6 DEF ReadsAreBehind
  <2>2. \A e \in ClaimedOnce' : row'[e].version >= 2
    <3>1. ClaimedOnce \subseteq Mail
      BY DEF ClaimedOnce
    <3> QED
      BY <1>6, <1>7, <1>9, <2>1, <3>1 DEF ClaimedIsPastFirst
  <2>3. \A u \in runner'.todo : u.mail # d
    BY <1>1, <1>3 DEF ReadsAreBehind
  <2> QED
    BY <1>2, <1>3, <1>9, <2>2, <2>3 DEF ClaimedIsPastFirst
<1>14. BatchIsClaimed'
  BY <1>2, <1>3, <1>9 DEF BatchIsClaimed
<1>15. BatchFollowsHandover'
  <2>1. handed[d] = 0
    BY <1>1, <1>8 DEF BatchIsClaimed, TypeOK
  <2> QED
    BY <1>2, <1>3, <2>1 DEF BatchFollowsHandover, At
<1>16. RequeuesItsOwn'
  BY <1>2, <1>3 DEF RequeuesItsOwn, At
<1>17. HandedOverAtMostOnce' /\ ReceiptMeansHandedOver'
  <2>1. row[d].status = "Queued"
    BY <1>2 DEF ClaimAdmits
  <2> QED
    BY <1>1, <1>2, <1>4, <1>5, <2>1, MoveKeepsReceipts
    DEF HandedOverAtMostOnce, ReceiptMeansHandedOver
<1> QED
  BY <1>5, <1>10, <1>12, <1>13, <1>14, <1>15, <1>16, <1>17

\* The provider gets a batch of which nothing was handed over before.
LEMMA HandingOver == ASSUME IndInv, Drive \/ Reply PROVE IndInv'
<1> USE DEF IndInv
<1> DEFINE D == runner.batch
<1>1. /\ D \in SUBSET Mail /\ D \subseteq ClaimedOnce
      /\ \A d \in D : handed[d] = 0
  BY DEF TypeOK, BatchIsClaimed, BatchFollowsHandover, Drive, Reply, At
<1>2. handed' = [d \in Mail |-> IF d \in D THEN handed[d] + 1 ELSE handed[d]]
  BY DEF Drive, Reply, Hands
<1>3. /\ handed' \in [Mail -> Nat]
      /\ \A d \in D : handed'[d] = 1
      /\ \A d \in Mail \ D : handed'[d] = handed[d]
  BY <1>1, <1>2 DEF TypeOK
<1>4. /\ UNCHANGED <<daemon, session, supervisor, row, claimKeys, nackKeys>>
      /\ runner'.batch = D /\ ~At("off")
      /\ \/ runner'.at = "accepted" /\ runner'.todo = runner.todo
         \/ runner'.at = "marking" /\ runner'.todo = AsRead(D)
  BY DEF Drive, Reply, Goes, At, TypeOK
<1>5. ClaimedOnce' = ClaimedOnce
  BY <1>4 DEF ClaimedOnce
<1>6. /\ AsRead(D) \in SUBSET Read
      /\ \A t, u \in AsRead(D) : t.mail = u.mail => t = u
      /\ \A t \in AsRead(D) : t.mail \in D /\ t.version = row[t.mail].version
  <2>1. \A d \in D : row[d].status # "None"
    BY <1>1, ClaimedIsWritten
  <2> QED
    BY <1>1, <2>1, AsReadIsRead
<1>7. TypeOK'
  BY <1>3, <1>4, <1>6 DEF TypeOK, Drive, Reply, Goes
<1>8. VersionIsDetermined' /\ RequeuesItsOwn'
  BY <1>4 DEF VersionIsDetermined, RequeuesItsOwn, At
<1>9. ReadsAreBehind'
  <2>1. \A t \in AsRead(D) : t.mail \in Mail /\ t.version \in Nat
    BY <1>6, MailAssumption DEF Read, Version, MailAssumption
  <2> QED
    BY <1>4, <1>6, <2>1 DEF ReadsAreBehind, At
<1>10. ClaimedIsPastFirst'
  BY <1>4, <1>5 DEF ClaimedIsPastFirst
<1>11. BatchIsClaimed'
  BY <1>1, <1>3, <1>4, <1>5 DEF BatchIsClaimed
<1>12. BatchFollowsHandover'
  BY <1>3, <1>4, <1>6 DEF BatchFollowsHandover, At
<1>13. HandedOverAtMostOnce'
  BY <1>1, <1>3 DEF HandedOverAtMostOnce
<1>14. ReceiptMeansHandedOver'
  BY <1>1, <1>3, <1>4 DEF ReceiptMeansHandedOver
<1> QED
  BY <1>7, <1>8, <1>9, <1>10, <1>11, <1>12, <1>13, <1>14

\* A row that the runner itself moves, after it has handed it over or to put it
\* back, and that it then leaves out of what it still has to do, if anything.
LEMMA RunnerMovesRow ==
    ASSUME IndInv, NEW d \in Mail, Moves(d), TypeOK',
           UNCHANGED <<daemon, claimKeys, handed>>,
           runner.at \in {"marking", "acknowledging", "requeuing"},
           \/ runner'.at = runner.at
           \/ runner'.at \in {"marking", "acknowledging"} /\ runner.at # "requeuing",
           runner'.todo \subseteq runner.todo, runner'.batch = runner.batch,
           runner'.at = "acknowledging" => runner'.todo # {},
           row'[d].status = "ProviderReceived" => handed[d] >= 1
    PROVE  IndInv'
<1> USE DEF IndInv
<1>1. /\ VersionIsDetermined'
      /\ \A e \in Mail \ {d} : row'[e] = row[e]
      /\ row'[d].version = row[d].version + 1
  BY MoveKeepsRows
<1>2. \A e \in Mail : row[e].version \in Nat
  BY RowFields DEF TypeOK
<1>3. \A e \in Mail : row'[e].version \in Nat /\ row[e].version <= row'[e].version
  BY <1>1, <1>2
<1>4. \A t \in runner.todo : t.mail \in Mail /\ t.version \in Nat
  BY MailAssumption DEF TypeOK, Read, Version, MailAssumption
<1>5. ReadsAreBehind'
  BY <1>2, <1>3, <1>4 DEF ReadsAreBehind, At
<1>6. ClaimedIsPastFirst' /\ BatchIsClaimed'
  <2>1. ClaimedOnce' = ClaimedOnce /\ ClaimedOnce \subseteq Mail
    BY DEF ClaimedOnce
  <2> QED
    BY <1>2, <1>3, <2>1 DEF ClaimedIsPastFirst, BatchIsClaimed
<1>7. BatchFollowsHandover' /\ HandedOverAtMostOnce'
  BY DEF BatchFollowsHandover, HandedOverAtMostOnce, At
<1>8. RequeuesItsOwn'
  <2>1. ASSUME runner'.at = "requeuing", NEW t \in runner'.todo,
               row'[t.mail].version = t.version
        PROVE  row'[t.mail].status = "Claimed" /\ row'[t.mail].claim = daemon.gen
    <3>1. t \in runner.todo /\ t.version <= row[t.mail].version /\ At("requeuing")
      BY <2>1 DEF ReadsAreBehind, At
    <3>2. t.mail # d
      BY <1>1, <1>2, <1>4, <2>1, <3>1
    <3> QED
      BY <1>1, <1>4, <2>1, <3>1, <3>2 DEF RequeuesItsOwn
  <2> QED
    BY <2>1 DEF RequeuesItsOwn, At
<1>9. ReceiptMeansHandedOver'
  BY <1>1, MoveKeepsReceipts DEF ReceiptMeansHandedOver
<1> QED
  BY <1>1, <1>5, <1>6, <1>7, <1>8, <1>9

\* The first row of what a runner still has to do.
LEMMA FirstOfTodo ==
    ASSUME TypeOK, runner.todo # {}
    PROVE  First(runner.todo) \in runner.todo /\ First(runner.todo).mail \in Mail
<1>1. runner.todo \in SUBSET Read
  BY DEF TypeOK
<1>2. First(runner.todo) \in runner.todo
  BY <1>1, FirstIsMember
<1> QED
  BY <1>1, <1>2 DEF Read

\* The receipts and acknowledgements of what was handed over, and the rows that
\* are put back.
LEMMA Settling == ASSUME IndInv, RecordReceipt \/ Acknowledge \/ RequeueNext PROVE IndInv'
<1> USE DEF IndInv
<1> DEFINE t == First(runner.todo)
           d == t.mail
<1>1. t \in runner.todo /\ d \in Mail /\ row \in [Mail -> Row]
  <2>1. runner.todo # {}
    BY DEF RecordReceipt, Acknowledge, RequeueNext, ReadsAreBehind
  <2> QED
    BY <2>1, FirstOfTodo DEF TypeOK
<1>2. CASE RecordReceipt
  <2>1. /\ row[d].status = "Claimed" /\ runner' = [runner EXCEPT !.at = "acknowledging"]
        /\ row' = [row EXCEPT ![d].status = "ProviderReceived", ![d].version = @ + 1]
        /\ runner.at = "marking" /\ runner.todo # {}
        /\ UNCHANGED <<daemon, session, supervisor, claimKeys, nackKeys, handed>>
    BY <1>2 DEF RecordReceipt, ReceiptAdmits, Goes, At
  <2> HIDE DEF t
  <2>2. Moves(d)
    BY <1>1, <2>1, RowUpdates DEF Moves, Goto
  <2>3. TypeOK'
    BY <1>1, <2>1, <2>2, MoveKeepsRows DEF TypeOK
  <2>4. handed[d] >= 1
    BY <1>1, <2>1 DEF BatchFollowsHandover
  <2>5. /\ runner'.at = "acknowledging" /\ runner'.todo = runner.todo
        /\ runner'.batch = runner.batch
    BY <2>1 DEF TypeOK
  <2> QED
    BY <1>1, <2>1, <2>2, <2>3, <2>4, <2>5, RunnerMovesRow
<1>3. CASE Acknowledge
  <2>1. /\ row[d].status = "ProviderReceived"
        /\ row' = [row EXCEPT ![d].status = "Acknowledged", ![d].version = @ + 1]
        /\ runner' = [runner EXCEPT !.at = "marking", !.todo = @ \ {t}]
        /\ runner.at = "acknowledging"
        /\ UNCHANGED <<daemon, session, supervisor, claimKeys, nackKeys, handed>>
    BY <1>3 DEF Acknowledge, At
  <2> HIDE DEF t
  <2>2. Moves(d)
    BY <1>1, <2>1, RowUpdates DEF Moves, Goto
  <2>3. TypeOK'
    BY <1>1, <2>1, <2>2, MoveKeepsRows DEF TypeOK
  <2>4. handed[d] >= 1
    BY <1>1, <2>1 DEF BatchFollowsHandover
  <2>5. /\ runner'.at = "marking" /\ runner'.todo = runner.todo \ {t}
        /\ runner'.batch = runner.batch
    BY <2>1 DEF TypeOK
  <2> QED
    BY <1>1, <2>1, <2>2, <2>3, <2>4, <2>5, RunnerMovesRow
<1>4. CASE RequeueNext
  <2>1. /\ \/ UNCHANGED <<row, nackKeys>>
           \/ /\ row[d].status = "Claimed" /\ row' = Requeued(d)
              /\ nackKeys' = nackKeys \cup {<<daemon.gen, d>>}
        /\ runner' = [runner EXCEPT !.todo = @ \ {t}]
        /\ runner.at = "requeuing"
        /\ UNCHANGED <<daemon, session, supervisor, claimKeys, handed>>
    BY <1>4 DEF RequeueNext, At
  <2> HIDE DEF t
  <2>2. /\ runner'.at = "requeuing" /\ runner'.todo = runner.todo \ {t}
        /\ runner'.batch = runner.batch
    BY <2>1 DEF TypeOK
  <2>3. CASE UNCHANGED <<row, nackKeys>>
    <3>1. TypeOK'
      BY <2>1, <2>3 DEF TypeOK
    <3>2. ReadsAreBehind'
      BY <2>1, <2>2, <2>3 DEF ReadsAreBehind, At
    <3>3. runner'.batch \subseteq ClaimedOnce
      BY <2>2 DEF BatchIsClaimed
    <3>4. BatchFollowsHandover' /\ RequeuesItsOwn'
      BY <2>1, <2>2, <2>3 DEF BatchFollowsHandover, RequeuesItsOwn, At
    <3> QED
      BY <2>1, <2>2, <2>3, <3>1, <3>2, <3>3, <3>4, RunnerStep
  <2>4. CASE /\ row[d].status = "Claimed" /\ row' = Requeued(d)
             /\ nackKeys' = nackKeys \cup {<<daemon.gen, d>>}
    <3>1. Moves(d)
      BY <1>1, <2>4, RowUpdates DEF Moves, Goto
    <3>2. TypeOK'
      <4>1. nackKeys' \subseteq (1..MaxDaemon) \X Mail
        BY <1>1, <2>4 DEF TypeOK
      <4> QED
        BY <1>1, <2>1, <3>1, <4>1, MoveKeepsRows DEF TypeOK
    <3>3. row'[d].status # "ProviderReceived"
      BY <1>1, <2>4 DEF Requeued
    <3> QED
      BY <1>1, <2>1, <2>2, <3>1, <3>2, <3>3, RunnerMovesRow
  <2> QED
    BY <2>1, <2>3, <2>4
<1> QED
  BY <1>2, <1>3, <1>4

\* IndInv is inductive.
LEMMA IndInvHolds == Spec => []IndInv
<1>1. IndInv /\ [Next]_vars => IndInv'
  <2> SUFFICES ASSUME IndInv, [Next]_vars PROVE IndInv'
    OBVIOUS
  <2>1. CASE Drain \/ Release \/ Succeed \/ StartSupervisor \/ StartMember \/ LeaseLapses
    BY <2>1, AuthoritySteps
  <2>2. CASE RunnerEnds \/ ClaimsDone \/ PollDone \/ Prepare \/ MarksDone \/ EndCycle
               \/ Fail \/ RequeueDone
    BY <2>2, LettingGo
  <2>3. CASE (\E trigger \in BOOLEAN : BeginClaims(trigger)) \/ BeginPoll \/ AcceptInput
               \/ BeginRequeue
    BY <2>3, Reading
  <2>4. CASE ClaimNext
    BY <2>4, Claiming
  <2>5. CASE Drive \/ Reply
    BY <2>5, HandingOver
  <2>6. CASE RecordReceipt \/ Acknowledge \/ RequeueNext
    BY <2>6, Settling
  <2>7. ASSUME NEW d \in Mail, Author(d) \/ DispatchClaim(d) \/ OperatorRequeues(d)
                                \/ OperatorAcknowledges(d)
        PROVE  IndInv'
    <3>1. Moves(d)
      BY <2>7, RowActions DEF IndInv
    <3>2. row'[d].status # "ProviderReceived"
      <4>1. row \in [Mail -> Row]
        BY DEF IndInv, TypeOK
      <4>2. CASE Author(d)
        BY <4>1, <4>2 DEF Author
      <4>3. CASE DispatchClaim(d)
        BY <4>1, <4>3 DEF DispatchClaim, Claimed
      <4>4. CASE OperatorRequeues(d)
        BY <4>1, <4>4 DEF OperatorRequeues, Requeued
      <4>5. CASE OperatorAcknowledges(d)
        BY <4>1, <4>5 DEF OperatorAcknowledges
      <4> QED
        BY <2>7, <4>2, <4>3, <4>4, <4>5
    <3>3. UNCHANGED <<daemon, session, supervisor, claimKeys, nackKeys, runner, handed>>
      BY <2>7 DEF Author, DispatchClaim, OperatorRequeues, OperatorAcknowledges
    <3> QED
      BY <3>1, <3>2, <3>3, OthersMoveRows
  <2>8. CASE UNCHANGED vars
    BY <2>8
    DEF vars, IndInv, TypeOK, VersionIsDetermined, ReadsAreBehind, ClaimedIsPastFirst,
        BatchIsClaimed, BatchFollowsHandover, RequeuesItsOwn, HandedOverAtMostOnce,
        ReceiptMeansHandedOver, ClaimedOnce, At
  <2> QED
    BY <2>1, <2>2, <2>3, <2>4, <2>5, <2>6, <2>7, <2>8 DEF Next
<1> QED
  BY <1>1, InitIndInv, PTL DEF Spec

-----------------------------------------------------------------------------
(* The results.                                                            *)

\* Every row, key, batch and count has its type, whatever the member's runner,
\* the daemon generations and the operator do: in particular no delivery's
\* version or attempt outgrows what its transitions allow
\* (CanonicalMessageDelivery).
THEOREM TypeCorrect == Spec => []TypeOK
  BY IndInvHolds, PTL DEF IndInv

\* The provider is handed one delivery at most once, for any number of
\* deliveries, attempts and generations, although a lost acceptance is settled as
\* NotApplied and its mail put back (fail_team_messages_for): the claim of a
\* later attempt is refused (claim_message_for_provider).
THEOREM MailIsHandedOverOnce == Spec => []HandedOverAtMostOnce
  BY IndInvHolds, PTL DEF IndInv

\* A row that says ProviderReceived or Acknowledged is about a Message that the
\* provider was handed (mark_message_delivered, record_message_provider_receipt).
THEOREM ReceiptsAreTrue == Spec => []ReceiptMeansHandedOver
  BY IndInvHolds, PTL DEF IndInv

\* A claim of an earlier generation is moved by nobody but the operator: no step
\* that moves it is a step of a runner (fail_team_messages_for,
\* record_message_provider_receipt).
THEOREM OldClaimsNeedTheOperator == Spec => OldClaimNeedsOperator
<1> DEFINE Untouched ==
             \A d \in Mail :
                 row[d].status = "Claimed" /\ row[d].claim < daemon.gen /\ row'[d] # row[d]
                   => runner' = runner
<1>1. IndInv /\ [Next]_vars => [Untouched]_vars
  <2> SUFFICES ASSUME IndInv, Next, NEW d \in Mail, row[d].status = "Claimed",
                      row[d].claim < daemon.gen, row'[d] # row[d]
               PROVE  runner' = runner
    BY Zenon
  <2> USE DEF IndInv
  <2>1. CASE ClaimNext
    <3>1. LET t == First(runner.todo)
          IN  row[t.mail].status = "Queued" /\ row' = Claimed(t.mail)
      BY <2>1 DEF ClaimNext, ClaimAdmits
    <3> QED
      BY <3>1 DEF Claimed, TypeOK
  <2>2. CASE RecordReceipt
    <3>1. PICK e : /\ row[e].status = "Claimed" /\ row[e].claim = daemon.gen
                   /\ row' = [row EXCEPT ![e].status = "ProviderReceived",
                                         ![e].version = @ + 1]
      BY <2>2 DEF RecordReceipt, ReceiptAdmits
    <3>2. daemon.gen \in Nat
      BY MailAssumption DEF TypeOK, MailAssumption
    <3> QED
      BY <3>1, <3>2 DEF TypeOK
  <2>3. CASE Acknowledge
    <3>1. PICK e : /\ row[e].status = "ProviderReceived"
                   /\ row' = [row EXCEPT ![e].status = "Acknowledged",
                                         ![e].version = @ + 1]
      BY <2>3 DEF Acknowledge
    <3> QED
      BY <3>1 DEF TypeOK
  <2>4. CASE RequeueNext
    <3> DEFINE t == First(runner.todo)
    <3>1. t \in runner.todo /\ runner.at = "requeuing"
      BY <2>4, FirstOfTodo DEF RequeueNext, At
    <3>2. row' = row \/ (row[t.mail].version = t.version /\ row' = Requeued(t.mail))
      BY <2>4 DEF RequeueNext
    <3>3. row[t.mail].version = t.version => row[t.mail].claim = daemon.gen
      BY <3>1 DEF RequeuesItsOwn, At
    <3> HIDE DEF t
    <3>4. daemon.gen \in Nat
      BY MailAssumption DEF TypeOK, MailAssumption
    <3> QED
      BY <3>2, <3>3, <3>4 DEF Requeued, TypeOK
  <2>5. CASE row' = row
    BY <2>5
  <2>6. CASE runner' = runner
    BY <2>6
  <2> QED
    BY <2>1, <2>2, <2>3, <2>4, <2>5, <2>6
    DEF Next, Drain, Release, Succeed, StartSupervisor, StartMember, LeaseLapses,
        RunnerEnds, BeginClaims, BeginPoll, ClaimsDone, PollDone, Prepare, Drive, Reply,
        AcceptInput, MarksDone, EndCycle, Fail, BeginRequeue, RequeueDone, Author,
        DispatchClaim, OperatorRequeues, OperatorAcknowledges
<1>2. Spec => [][Untouched]_vars
  <2> HIDE DEF Untouched
  <2> QED
    BY <1>1, IndInvHolds, PTL DEF Spec
<1> QED
  BY <1>2 DEF OldClaimNeedsOperator

=============================================================================
