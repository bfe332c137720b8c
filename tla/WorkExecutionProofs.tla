------------------------- MODULE WorkExecutionProofs ------------------------
(***************************************************************************)
(* WorkExecution keeps its Works, bindings and Results consistent, for     *)
(* every set of Works and members and every bound.                         *)
(*                                                                         *)
(* A step moves at most one Work by one revision (Moves) and takes each    *)
(* binding along its life (Evolves).  What that alone preserves is proved  *)
(* once; the actions then show what they do beyond it.                     *)
(***************************************************************************)
EXTENDS WorkExecution, TLAPS, SequenceTheorems, FiniteSetTheorems

-----------------------------------------------------------------------------
(* How a step changes a binding and a Work.                                *)

\* What a binding froze stays, it is not revived, no claim outlives it, only
\* what was claimed is received, and a receipt of an ended binding stays.
Evolves(b, c) ==
    /\ c.revision = b.revision /\ c.reauthorized = b.reauthorized /\ c.member = b.member
    /\ c.status = "Active" => b.status = "Active"
    /\ c.delivery = "Claimed" => c.status = "Active"
    /\ c.delivery = "ProviderReceived" => b.delivery \in Effect
    /\ b.delivery = "ProviderReceived" /\ b.status # "Active" =>
         c.delivery = b.delivery /\ c.status = b.status

\* The bindings of w that were there, after the step.
BindingsEvolve(w) ==
    \A i \in DOMAIN bindings[w] :
        i \in DOMAIN bindings'[w] /\ Evolves(bindings[w][i], bindings'[w][i])

\* One more revision of a Work that is not closed: a refresh of its links, or a
\* move that its journal summarises.
Moves(w) ==
    /\ work[w].phase # "Closed" /\ work'[w].phase # "None"
    /\ work'[w].version = work[w].version + 1
    /\ \/ work'[w].moved = work[w].version + 1
       \/ /\ work'[w].moved = work[w].moved
          /\ work'[w].reauthorized = work[w].reauthorized
          /\ work'[w].responsibility = work[w].responsibility
    /\ work'[w].resolution = "Accepted" => work'[w].phase = "Closed"

\* What TypeOK says of one Work's numbers.
LEMMA Numbers ==
    ASSUME TypeOK, NEW w \in Work
    PROVE  /\ work[w] \in WorkRow /\ work[w].version \in Nat
           /\ work[w].responsibility \in 0..work[w].version
           /\ work[w].reauthorized \in 0..work[w].version
           /\ work[w].moved \in 0..work[w].version
           /\ bindings[w] \in Seq(Binding)
           /\ Len(bindings[w]) \in Nat /\ DOMAIN bindings[w] = 1..Len(bindings[w])
           /\ \A i \in DOMAIN bindings[w] :
                 /\ bindings[w][i] \in Binding
                 /\ bindings[w][i].revision \in Nat
                 /\ bindings[w][i].status = "Active" => i = Len(bindings[w])
           /\ \A r \in results[w] : r \in Result /\ r.revision \in Nat
<1>1. work[w] \in WorkRow /\ work[w].version \in Nat
  BY DEF TypeOK, WorkRow, Revision
<1>2. /\ work[w].responsibility \in 0..work[w].version
      /\ work[w].reauthorized \in 0..work[w].version
      /\ work[w].moved \in 0..work[w].version
  BY DEF TypeOK
<1>3. bindings[w] \in Seq(Binding)
  BY DEF TypeOK
<1>4. Len(bindings[w]) \in Nat /\ DOMAIN bindings[w] = 1..Len(bindings[w])
  BY <1>3, LenProperties
<1>5. \A i \in DOMAIN bindings[w] : bindings[w][i] \in Binding
  BY <1>3, <1>4, ElementOfSeq
<1>6. \A i \in DOMAIN bindings[w] :
        /\ bindings[w][i].revision \in Nat
        /\ bindings[w][i].status = "Active" => i = Len(bindings[w])
  BY <1>5 DEF TypeOK, Binding, Revision
<1>7. \A r \in results[w] : r \in Result /\ r.revision \in Nat
  BY DEF TypeOK, Result, Revision
<1> QED
  BY <1>1, <1>2, <1>3, <1>4, <1>5, <1>6, <1>7

\* Bindings that evolve, of Works that move, stay behind and replay nothing.
LEMMA BindingsKeep ==
    ASSUME IndInv, NEW w \in Work, BindingsEvolve(w),
           DOMAIN bindings'[w] = DOMAIN bindings[w],
           work'[w] = work[w] \/ Moves(w)
    PROVE  /\ \A i \in DOMAIN bindings'[w] :
                /\ bindings'[w][i].revision <= work'[w].version
                /\ bindings'[w][i].revision = work'[w].version =>
                     /\ work'[w].phase = "Open" /\ ~work'[w].blocked
                     /\ work'[w].owner = bindings'[w][i].member
                /\ bindings'[w][i].delivery = "Claimed" =>
                     bindings'[w][i].status = "Active"
           /\ \A i, j \in DOMAIN bindings'[w] :
                i < j /\ bindings'[w][i].delivery = "ProviderReceived" =>
                  bindings'[w][j].reauthorized > bindings'[w][i].revision
           /\ work'[w].phase = "None" => DOMAIN bindings[w] = {}
           /\ work'[w].resolution = "Accepted" => work'[w].phase = "Closed"
<1> USE DEF IndInv
<1>1. /\ work[w].version \in Nat
      /\ Len(bindings[w]) \in Nat /\ DOMAIN bindings[w] = 1..Len(bindings[w])
      /\ \A i \in DOMAIN bindings[w] :
           /\ bindings[w][i].revision \in Nat
           /\ bindings[w][i].status = "Active" => i = Len(bindings[w])
  BY Numbers
<1>2. \A i \in DOMAIN bindings[w] : Evolves(bindings[w][i], bindings'[w][i])
  BY DEF BindingsEvolve
<1>3. \A i \in DOMAIN bindings'[w] :
        /\ bindings'[w][i].revision <= work'[w].version
        /\ bindings'[w][i].revision = work'[w].version =>
             /\ work'[w].phase = "Open" /\ ~work'[w].blocked
             /\ work'[w].owner = bindings'[w][i].member
        /\ bindings'[w][i].delivery = "Claimed" => bindings'[w][i].status = "Active"
  <2>1. TAKE i \in DOMAIN bindings'[w]
  <2>2. /\ bindings[w][i].revision <= work[w].version
        /\ bindings[w][i].revision = work[w].version =>
             /\ work[w].phase = "Open" /\ ~work[w].blocked
             /\ work[w].owner = bindings[w][i].member
    BY DEF BindingIsBehind, Normal
  <2>3. /\ bindings'[w][i].revision = bindings[w][i].revision
        /\ bindings'[w][i].member = bindings[w][i].member
        /\ bindings'[w][i].delivery = "Claimed" => bindings'[w][i].status = "Active"
    BY <1>2 DEF Evolves
  <2>4. CASE work'[w] = work[w]
    BY <2>2, <2>3, <2>4
  <2>5. CASE Moves(w)
    BY <1>1, <2>2, <2>3, <2>5 DEF Moves
  <2> QED
    BY <2>4, <2>5
<1>4. ASSUME NEW i \in DOMAIN bindings[w], NEW j \in DOMAIN bindings[w], i < j,
             bindings'[w][i].delivery = "ProviderReceived"
      PROVE  bindings'[w][j].reauthorized > bindings'[w][i].revision
  <2>1. /\ bindings'[w][i].revision = bindings[w][i].revision
        /\ bindings'[w][j].reauthorized = bindings[w][j].reauthorized
        /\ bindings[w][i].delivery \in {"Claimed", "ProviderReceived"}
    BY <1>2, <1>4 DEF Evolves, Effect
  <2>2. bindings[w][i].delivery # "Claimed"
    BY <1>1, <1>4 DEF ClaimedIsActive
  <2> QED
    BY <1>4, <2>1, <2>2 DEF NoReplayWithoutReauthorization
<1>5. /\ work'[w].phase = "None" => DOMAIN bindings[w] = {}
      /\ work'[w].resolution = "Accepted" => work'[w].phase = "Closed"
  BY DEF Moves, PhaseFits, Accepted
<1> QED
  BY <1>3, <1>4, <1>5

\* Results stay behind and keep their receipts while bindings evolve and Works
\* move; the step answers for the Results it adds.
LEMMA ResultsKeep ==
    ASSUME IndInv, NEW w \in Work, BindingsEvolve(w), work'[w] = work[w] \/ Moves(w),
           NEW r \in results[w]
    PROVE  /\ r.binding \in DOMAIN bindings'[w]
           /\ r.revision <= work'[w].moved
           /\ r.revision = work'[w].moved =>
                /\ work'[w].reauthorized < r.revision
                /\ work'[w].responsibility <= bindings'[w][r.binding].revision
           /\ bindings'[w][r.binding].delivery = "ProviderReceived"
           /\ bindings'[w][r.binding].status \in {"Released", "Closed"}
           /\ bindings'[w][r.binding].member = r.author
           /\ bindings'[w][r.binding].revision < r.revision
<1> USE DEF IndInv
<1> DEFINE b == bindings[w][r.binding]
           c == bindings'[w][r.binding]
<1>1. /\ work[w].version \in Nat /\ work[w].moved \in 0..work[w].version
      /\ r.revision \in Nat
  BY Numbers
<1>2. /\ r.binding \in DOMAIN bindings[w] /\ r.revision <= work[w].moved
      /\ r.revision = work[w].moved =>
           work[w].reauthorized < r.revision /\ work[w].responsibility <= b.revision
  BY DEF ResultsAreBehind
<1>3. /\ b.delivery = "ProviderReceived" /\ b.status \in {"Released", "Closed"}
      /\ b.member = r.author /\ b.revision < r.revision
  BY DEF ResultKeepsItsReceipt
<1>4. r.binding \in DOMAIN bindings'[w] /\ Evolves(b, c)
  BY <1>2 DEF BindingsEvolve
<1>5. /\ c.delivery = "ProviderReceived" /\ c.status \in {"Released", "Closed"}
      /\ c.member = r.author /\ c.revision = b.revision
  BY <1>3, <1>4 DEF Evolves
<1>6. /\ r.revision <= work'[w].moved
      /\ r.revision = work'[w].moved =>
           work'[w].reauthorized < r.revision /\ work'[w].responsibility <= c.revision
  <2>1. CASE work'[w] = work[w]
    BY <1>2, <1>5, <2>1
  <2>2. CASE Moves(w)
    BY <1>1, <1>2, <1>5, <2>2 DEF Moves
  <2> QED
    BY <2>1, <2>2
<1> QED
  BY <1>3, <1>4, <1>5, <1>6

\* A Work that was accepted before the step rests on its Result after it.
LEMMA AcceptedKeeps ==
    ASSUME IndInv, NEW w \in Work, BindingsEvolve(w), work'[w] = work[w] \/ Moves(w),
           results[w] \subseteq results'[w], Accepted(w)
    PROVE  /\ work'[w] = work[w]
           /\ \E r \in results'[w] :
                /\ r.author = work'[w].owner /\ r.revision > work'[w].reauthorized
                /\ bindings'[w][r.binding].revision >= work'[w].responsibility
<1> USE DEF IndInv
<1>1. work'[w] = work[w]
  BY DEF Moves, PhaseFits
<1>2. PICK r \in results[w] :
        /\ r.author = work[w].owner /\ r.revision > work[w].reauthorized
        /\ bindings[w][r.binding].revision >= work[w].responsibility
  BY DEF AcceptedOnItsOwnersResult
<1>3. r.binding \in DOMAIN bindings[w]
  BY DEF ResultsAreBehind
<1>4. bindings'[w][r.binding].revision = bindings[w][r.binding].revision
  BY <1>3 DEF BindingsEvolve, Evolves
<1> QED
  BY <1>1, <1>2, <1>4

\* Replacing the prerequisites of a Work keeps the graph acyclic when they do not
\* lead back to it (prepare_dependency_change).
LEMMA AcyclicKeeps ==
    ASSUME DependenciesAreAcyclic, NEW w \in Work, NEW deps \in SUBSET Work,
           Acyclic(w, deps), work'[w].prereqs = deps,
           \A x \in Work \ {w} : work'[x].prereqs = work[x].prereqs
    PROVE  DependenciesAreAcyclic'
<1>1. PICK R \in SUBSET Work : /\ deps \subseteq R
                              /\ \A p \in R : work[p].prereqs \subseteq R
                              /\ w \notin R
  BY DEF Acyclic, LeadsBack
<1> SUFFICES ASSUME NEW S \in SUBSET Work, S # {}
             PROVE  \E x \in S : work'[x].prereqs \cap S = {}
  BY DEF DependenciesAreAcyclic
<1>2. CASE S \cap R # {}
  <2>1. PICK x \in S \cap R : work[x].prereqs \cap (S \cap R) = {}
    BY <1>2 DEF DependenciesAreAcyclic
  <2>2. work'[x].prereqs = work[x].prereqs /\ work[x].prereqs \subseteq R
    BY <1>1, <2>1
  <2> QED
    BY <2>1, <2>2
<1>3. CASE S \cap R = {} /\ w \in S
  BY <1>1, <1>3
<1>4. CASE w \notin S
  <2>1. PICK x \in S : work[x].prereqs \cap S = {}
    BY DEF DependenciesAreAcyclic
  <2> QED
    BY <1>4, <2>1
<1> QED
  BY <1>2, <1>3, <1>4

-----------------------------------------------------------------------------
(* What a step has to show, for each Work x.                               *)

\* x moves or stays, its bindings evolve, no Result is lost.
Proceeds(x) ==
    /\ work'[x] = work[x] \/ Moves(x)
    /\ BindingsEvolve(x)
    /\ results[x] \subseteq results'[x]

\* So it does, and no binding is added.
Orderly(x) == Proceeds(x) /\ DOMAIN bindings'[x] = DOMAIN bindings[x]

\* r rests, after the step, on a receipt of its author that it is later than.
RestsOnReceipt(x, r) ==
    LET c == bindings'[x][r.binding] IN
    /\ r.binding \in DOMAIN bindings'[x]
    /\ c.delivery = "ProviderReceived" /\ c.status \in {"Released", "Closed"}
    /\ c.member = r.author /\ c.revision < r.revision

\* r is later than every re-authorization, and its binding than the last change
\* of responsibility.
IsCurrentResult(x, r) ==
    /\ work'[x].reauthorized < r.revision
    /\ work'[x].responsibility <= bindings'[x][r.binding].revision

\* A Result that the step adds is sound.
AddsSoundResults(x) ==
    \A r \in results'[x] \ results[x] :
        RestsOnReceipt(x, r) /\ IsCurrentResult(x, r) /\ r.revision <= work'[x].moved

\* The step accepts x on a Result of its owner, if it accepts x.
AcceptsOnResult(x) ==
    Accepted(x)' /\ ~Accepted(x) =>
        \E r \in results'[x] : r.author = work'[x].owner /\ IsCurrentResult(x, r)

\* The step leaves x executing with the prerequisites it had, or has seen its
\* prerequisites accepted.
ExecutesWhenReady(x) ==
    Executing(x)' =>
        \/ Executing(x) /\ work'[x].prereqs = work[x].prereqs
        \/ \A p \in work'[x].prereqs : Accepted(p)

\* The bindings stay behind their Works, and none is replayed.
LEMMA KeepsBindings ==
    ASSUME IndInv, \A x \in Work : Orderly(x)
    PROVE  BindingIsBehind' /\ ClaimedIsActive' /\ NoReplayWithoutReauthorization'
             /\ PhaseFits'
<1>1. ASSUME NEW x \in Work
      PROVE  /\ \A i \in DOMAIN bindings'[x] :
                   /\ bindings'[x][i].revision <= work'[x].version
                   /\ bindings'[x][i].revision = work'[x].version =>
                        /\ work'[x].phase = "Open" /\ ~work'[x].blocked
                        /\ work'[x].owner = bindings'[x][i].member
                   /\ bindings'[x][i].delivery = "Claimed" =>
                        bindings'[x][i].status = "Active"
             /\ \A i, j \in DOMAIN bindings'[x] :
                   i < j /\ bindings'[x][i].delivery = "ProviderReceived" =>
                     bindings'[x][j].reauthorized > bindings'[x][i].revision
             /\ work'[x].phase = "None" => DOMAIN bindings'[x] = {}
             /\ work'[x].resolution = "Accepted" => work'[x].phase = "Closed"
  <2>1. BindingsEvolve(x) /\ DOMAIN bindings'[x] = DOMAIN bindings[x]
        /\ (work'[x] = work[x] \/ Moves(x))
    BY DEF Orderly, Proceeds
  <2> QED
    BY <2>1, BindingsKeep
<1>2. BindingIsBehind'
  BY <1>1 DEF BindingIsBehind, Normal
<1>3. ClaimedIsActive'
  BY <1>1 DEF ClaimedIsActive
<1>4. NoReplayWithoutReauthorization'
  BY <1>1 DEF NoReplayWithoutReauthorization
<1>5. PhaseFits'
  BY <1>1 DEF PhaseFits, Accepted
<1> QED
  BY <1>2, <1>3, <1>4, <1>5

\* The Results stay behind their Works and keep their receipts.
LEMMA KeepsResults ==
    ASSUME IndInv, \A x \in Work : Proceeds(x) /\ AddsSoundResults(x)
    PROVE  ResultsAreBehind' /\ ResultKeepsItsReceipt'
<1>1. ASSUME NEW x \in Work, NEW r \in results'[x]
      PROVE  /\ RestsOnReceipt(x, r)
             /\ r.revision <= work'[x].moved
             /\ r.revision = work'[x].moved => IsCurrentResult(x, r)
  <2>1. CASE r \in results[x]
    <3>1. BindingsEvolve(x) /\ (work'[x] = work[x] \/ Moves(x))
      BY DEF Proceeds
    <3> QED
      BY <2>1, <3>1, ResultsKeep DEF RestsOnReceipt, IsCurrentResult
  <2>2. CASE r \notin results[x]
    BY <2>2 DEF AddsSoundResults
  <2> QED
    BY <2>1, <2>2
<1>2. ResultsAreBehind'
  BY <1>1 DEF ResultsAreBehind, RestsOnReceipt, IsCurrentResult
<1>3. ResultKeepsItsReceipt'
  BY <1>1 DEF ResultKeepsItsReceipt, RestsOnReceipt
<1> QED
  BY <1>2, <1>3

\* A Work that is accepted after the step rests on a Result of its owner.
LEMMA KeepsAcceptance ==
    ASSUME IndInv, TypeOK', \A x \in Work : Proceeds(x) /\ AcceptsOnResult(x)
    PROVE  AcceptedOnItsOwnersResult'
<1> SUFFICES ASSUME NEW x \in Work, Accepted(x)'
             PROVE  \E r \in results'[x] :
                      /\ r.author = work'[x].owner
                      /\ r.revision > work'[x].reauthorized
                      /\ bindings'[x][r.binding].revision >= work'[x].responsibility
  BY DEF AcceptedOnItsOwnersResult
<1>1. CASE Accepted(x)
  <2>1. /\ BindingsEvolve(x) /\ (work'[x] = work[x] \/ Moves(x))
        /\ results[x] \subseteq results'[x]
    BY DEF Proceeds
  <2> QED
    BY <1>1, <2>1, AcceptedKeeps
<1>2. CASE ~Accepted(x)
  <2>1. PICK r \in results'[x] : r.author = work'[x].owner /\ IsCurrentResult(x, r)
    BY <1>2 DEF AcceptsOnResult
  <2> QED
    BY <2>1 DEF IsCurrentResult
<1> QED
  BY <1>1, <1>2

\* The prerequisites of a Work that executes after the step are accepted.
LEMMA KeepsPrerequisites ==
    ASSUME IndInv, TypeOK', \A x \in Work : Proceeds(x) /\ ExecutesWhenReady(x)
    PROVE  ExecutionHasPrerequisites'
<1> SUFFICES ASSUME NEW x \in Work, Executing(x)', NEW p \in work'[x].prereqs
             PROVE  Accepted(p)'
  BY DEF ExecutionHasPrerequisites
<1>1. Accepted(p)
  BY DEF ExecutionHasPrerequisites, ExecutesWhenReady, IndInv
<1>2. p \in Work
  BY DEF TypeOK, WorkRow
<1>3. work'[p] = work[p] \/ Moves(p)
  BY <1>2 DEF Proceeds
<1>4. work'[p] = work[p]
  BY <1>1, <1>2, <1>3 DEF Moves, PhaseFits, IndInv
<1> QED
  BY <1>1, <1>4 DEF Accepted

\* All of them keep the invariant.
LEMMA StepKeeps ==
    ASSUME IndInv, TypeOK', DependenciesAreAcyclic',
           \A x \in Work : /\ Orderly(x) /\ AddsSoundResults(x)
                          /\ AcceptsOnResult(x) /\ ExecutesWhenReady(x)
    PROVE  IndInv'
<1>1. BindingIsBehind' /\ ClaimedIsActive' /\ NoReplayWithoutReauthorization'
        /\ PhaseFits'
  BY KeepsBindings
<1>2. ResultsAreBehind' /\ ResultKeepsItsReceipt'
  BY KeepsResults DEF Orderly
<1>3. AcceptedOnItsOwnersResult' /\ ExecutionHasPrerequisites'
  BY KeepsAcceptance, KeepsPrerequisites DEF Orderly
<1> QED
  BY <1>1, <1>2, <1>3 DEF IndInv

-----------------------------------------------------------------------------
(* The responsibility plane.                                               *)

\* The next revision of a Work, before the action writes what it is about.
LEMMA SuccessorFields ==
    ASSUME TypeOK, NEW w \in Work, NEW changes \in BOOLEAN, NEW reauthorizes \in BOOLEAN,
           NEW s, s = Successor(w, changes, reauthorizes)
    PROVE  /\ s \in WorkRow
           /\ s.version = work[w].version + 1 /\ s.moved = work[w].version + 1
           /\ s.responsibility = IF changes THEN s.version ELSE work[w].responsibility
           /\ s.reauthorized = IF reauthorizes THEN s.version ELSE work[w].reauthorized
           /\ s.phase = work[w].phase /\ s.blocked = work[w].blocked
           /\ s.resolution = work[w].resolution /\ s.owner = work[w].owner
           /\ s.prereqs = work[w].prereqs
<1>1. work[w] \in WorkRow
  BY DEF TypeOK
<1> DEFINE v == work[w].version + 1
           x == IF changes THEN v ELSE work[w].responsibility
           y == IF reauthorizes THEN v ELSE work[w].reauthorized
<1>2. v \in Nat /\ x \in Nat /\ y \in Nat
  BY <1>1 DEF WorkRow, Revision
<1>3. s = [work[w] EXCEPT !.version = v, !.moved = v, !.responsibility = x,
                          !.reauthorized = y]
  BY DEF Successor
<1> HIDE DEF v, x, y
<1>4. /\ s \in WorkRow /\ s.version = v /\ s.moved = v
      /\ s.responsibility = x /\ s.reauthorized = y
      /\ s.phase = work[w].phase /\ s.blocked = work[w].blocked
      /\ s.resolution = work[w].resolution /\ s.owner = work[w].owner
      /\ s.prereqs = work[w].prereqs
  BY <1>1, <1>2, <1>3 DEF WorkRow, Revision
<1> QED
  BY <1>4 DEF v, x, y

\* A binding that a step leaves alone.
LEMMA UnchangedEvolves ==
    ASSUME IndInv, NEW x \in Work, bindings'[x] = bindings[x]
    PROVE  BindingsEvolve(x)
  BY DEF IndInv, ClaimedIsActive, BindingsEvolve, Evolves, Effect

\* A call that gives one Work its next revision and touches nothing else.
LEMMA WorkCall ==
    ASSUME IndInv, NEW w \in Work, NEW row \in WorkRow, Advance(w, row),
           UNCHANGED <<bindings, member, runtime, results>>,
           work[w].phase # "Closed", row.phase # "None",
           row.version = work[w].version + 1,
           {row.responsibility, row.reauthorized, row.moved} \subseteq 0..row.version,
           \/ row.moved = row.version
           \/ /\ row.moved = work[w].moved /\ row.reauthorized = work[w].reauthorized
              /\ row.responsibility = work[w].responsibility,
           row.resolution = "Accepted" =>
               /\ row.phase = "Closed"
               /\ \E r \in results[w] :
                    /\ r.author = row.owner /\ row.reauthorized < r.revision
                    /\ row.responsibility <= bindings[w][r.binding].revision,
           \/ /\ row.prereqs = work[w].prereqs
              /\ row.phase \in {work[w].phase, "Closed"} \/ Executing(w) \/ Ready(w)
           \/ row.phase = "Open" /\ ActiveBindings(w) = {} /\ Acyclic(w, row.prereqs)
    PROVE  IndInv'
<1>1. /\ work'[w] = row /\ \A x \in Work \ {w} : work'[x] = work[x]
      /\ work' \in [Work -> WorkRow] /\ work[w].version < MaxVersion[w]
  BY DEF Advance, IndInv, TypeOK
<1>2. TypeOK'
  <2>1. work[w].version \in Nat /\ MaxVersion[w] \in Nat
    BY Numbers, WorkAssumption DEF IndInv, WorkAssumption
  <2>2. work'[w].version \in 0..MaxVersion[w]
    BY <1>1, <2>1
  <2>3. {work'[w].responsibility, work'[w].reauthorized, work'[w].moved}
          \subseteq 0..work'[w].version
    BY <1>1
  <2>4. ASSUME NEW x \in Work, x # w
        PROVE  /\ work'[x].version \in 0..MaxVersion[x]
               /\ {work'[x].responsibility, work'[x].reauthorized, work'[x].moved}
                    \subseteq 0..work'[x].version
    <3>1. work'[x] = work[x]
      BY <1>1, <2>4
    <3> QED
      BY <3>1 DEF IndInv, TypeOK
  <2>5. \A x \in Work :
          /\ work'[x].version \in 0..MaxVersion[x]
          /\ {work'[x].responsibility, work'[x].reauthorized, work'[x].moved}
               \subseteq 0..work'[x].version
    BY <2>2, <2>3, <2>4
  <2> QED
    BY <1>1, <2>5 DEF IndInv, TypeOK
<1>3. Moves(w)
  BY <1>1 DEF Moves
<1>4. ASSUME NEW x \in Work PROVE Orderly(x)
  BY <1>1, <1>3, UnchangedEvolves DEF Orderly, Proceeds
<1>5. ASSUME NEW x \in Work PROVE AddsSoundResults(x)
  BY DEF AddsSoundResults
<1>6. ASSUME NEW x \in Work PROVE AcceptsOnResult(x)
  BY <1>1 DEF AcceptsOnResult, IsCurrentResult, Accepted
<1>7. ASSUME NEW x \in Work PROVE ExecutesWhenReady(x)
  <2>1. CASE x # w
    BY <1>1, <2>1 DEF ExecutesWhenReady, Executing, ActiveBindings
  <2>2. CASE x = w
    BY <1>1, <2>2 DEF ExecutesWhenReady, Executing, ActiveBindings, Ready
  <2> QED
    BY <2>1, <2>2
<1>8. DependenciesAreAcyclic'
  <2>1. CASE row.prereqs = work[w].prereqs
    <3>1. \A x \in Work : work'[x].prereqs = work[x].prereqs
      BY <1>1, <2>1
    <3> QED
      BY <3>1 DEF IndInv, DependenciesAreAcyclic
  <2>2. CASE Acyclic(w, row.prereqs)
    <3>1. row.prereqs \in SUBSET Work
      BY DEF WorkRow
    <3> QED
      BY <1>1, <2>2, <3>1, AcyclicKeeps DEF IndInv
  <2> QED
    BY <2>1, <2>2
<1> QED
  BY <1>2, <1>4, <1>5, <1>6, <1>7, <1>8, StepKeeps

\* The same for a call that writes a Successor: what the call changes of it is
\* all there is to say.
LEMMA SuccessorCall ==
    ASSUME IndInv, NEW w \in Work, NEW changes \in BOOLEAN, NEW reauthorizes \in BOOLEAN,
           NEW row \in WorkRow, Advance(w, row),
           UNCHANGED <<bindings, member, runtime, results>>,
           LET s == Successor(w, changes, reauthorizes) IN
             /\ row.version = s.version /\ row.moved = s.moved
             /\ row.responsibility = s.responsibility
             /\ row.reauthorized = s.reauthorized,
           work[w].phase # "Closed", row.phase # "None",
           row.resolution = "Accepted" =>
               /\ row.phase = "Closed"
               /\ \E r \in results[w] :
                    /\ r.author = row.owner /\ row.reauthorized < r.revision
                    /\ row.responsibility <= bindings[w][r.binding].revision,
           \/ /\ row.prereqs = work[w].prereqs
              /\ row.phase \in {work[w].phase, "Closed"} \/ Executing(w) \/ Ready(w)
           \/ row.phase = "Open" /\ ActiveBindings(w) = {} /\ Acyclic(w, row.prereqs)
    PROVE  IndInv'
<1> DEFINE s == Successor(w, changes, reauthorizes)
<1>1. /\ s.version = work[w].version + 1 /\ s.moved = work[w].version + 1
      /\ s.responsibility = IF changes THEN s.version ELSE work[w].responsibility
      /\ s.reauthorized = IF reauthorizes THEN s.version ELSE work[w].reauthorized
  BY SuccessorFields DEF IndInv
<1>2. /\ work[w].version \in Nat
      /\ work[w].responsibility \in 0..work[w].version
      /\ work[w].reauthorized \in 0..work[w].version
  BY Numbers DEF IndInv
<1> HIDE DEF s
<1>3. /\ row.version = work[w].version + 1 /\ row.moved = row.version
      /\ {row.responsibility, row.reauthorized, row.moved} \subseteq 0..row.version
  <2>1. /\ row.version = s.version /\ row.moved = s.moved
        /\ row.responsibility = s.responsibility /\ row.reauthorized = s.reauthorized
    BY DEF s
  <2> QED
    BY <1>1, <1>2, <2>1
<1> QED
  BY <1>3, WorkCall

\* The calls of the Host and of the members on one Work.
LEMMA HostCalls ==
    ASSUME IndInv, NEW w \in Work,
           \/ \E deps \in SUBSET Work : InsertWork(w, deps) \/ ReplaceDependencies(w, deps)
           \/ \E m \in Member : AssignWork(w, m) \/ ClaimWork(w, m)
           \/ ReleaseWork(w)
           \/ StartWork(w) \/ BlockWork(w) \/ ResumeWork(w)
           \/ RequestChanges(w) \/ CancelWork(w) \/ RedeliverWork(w)
    PROVE  IndInv'
<1>1. /\ TypeOK /\ work[w] \in WorkRow
      /\ work[w].resolution = "Accepted" => work[w].phase = "Closed"
  BY DEF IndInv, TypeOK, PhaseFits, Accepted
<1> DEFINE s(c, r) == Successor(w, c, r)
<1>2. \A c, r \in BOOLEAN :
        /\ s(c, r) \in WorkRow
        /\ s(c, r).phase = work[w].phase /\ s(c, r).blocked = work[w].blocked
        /\ s(c, r).resolution = work[w].resolution /\ s(c, r).owner = work[w].owner
        /\ s(c, r).prereqs = work[w].prereqs
  BY <1>1, SuccessorFields
<1> HIDE DEF s
<1>3. ASSUME NEW deps \in SUBSET Work, InsertWork(w, deps) PROVE IndInv'
  <2> DEFINE row == [s(FALSE, FALSE) EXCEPT !.phase = "Open", !.prereqs = deps]
  <2>1. /\ Advance(w, row) /\ UNCHANGED <<bindings, member, runtime, results>>
        /\ work[w].phase = "None" /\ Acyclic(w, deps)
    BY <1>3 DEF InsertWork, s
  <2>2. /\ row \in WorkRow /\ row.phase = "Open" /\ row.prereqs = deps
        /\ row.resolution = work[w].resolution
        /\ row.version = s(FALSE, FALSE).version /\ row.moved = s(FALSE, FALSE).moved
        /\ row.responsibility = s(FALSE, FALSE).responsibility
        /\ row.reauthorized = s(FALSE, FALSE).reauthorized
    BY <1>2 DEF WorkRow
  <2>3. ActiveBindings(w) = {}
    BY <2>1 DEF ActiveBindings, PhaseFits, IndInv
  <2> HIDE DEF row
  <2> QED
    BY <1>1, <2>1, <2>2, <2>3, SuccessorCall DEF s
<1>4. ASSUME NEW deps \in SUBSET Work, ReplaceDependencies(w, deps) PROVE IndInv'
  <2> DEFINE row == [s(FALSE, FALSE) EXCEPT !.prereqs = deps]
  <2>1. /\ Advance(w, row) /\ UNCHANGED <<bindings, member, runtime, results>>
        /\ work[w].phase = "Open" /\ ActiveBindings(w) = {} /\ Acyclic(w, deps)
    BY <1>4 DEF ReplaceDependencies, s
  <2>2. /\ row \in WorkRow /\ row.phase = "Open" /\ row.prereqs = deps
        /\ row.resolution = work[w].resolution
        /\ row.version = s(FALSE, FALSE).version /\ row.moved = s(FALSE, FALSE).moved
        /\ row.responsibility = s(FALSE, FALSE).responsibility
        /\ row.reauthorized = s(FALSE, FALSE).reauthorized
    BY <1>2, <2>1 DEF WorkRow
  <2> HIDE DEF row
  <2> QED
    BY <1>1, <2>1, <2>2, SuccessorCall DEF s
<1>5. ASSUME NEW m \in Member, AssignWork(w, m) PROVE IndInv'
  <2> DEFINE row == [s(TRUE, TRUE) EXCEPT !.owner = m]
  <2>1. /\ Advance(w, row) /\ UNCHANGED <<bindings, member, runtime, results>>
        /\ work[w].phase \in {"Open", "Active", "Review"}
    BY <1>5 DEF AssignWork, Mutable, s
  <2>2. /\ row \in WorkRow /\ row.phase = work[w].phase /\ row.prereqs = work[w].prereqs
        /\ row.resolution = work[w].resolution
        /\ row.version = s(TRUE, TRUE).version /\ row.moved = s(TRUE, TRUE).moved
        /\ row.responsibility = s(TRUE, TRUE).responsibility
        /\ row.reauthorized = s(TRUE, TRUE).reauthorized
    BY <1>2 DEF WorkRow
  <2> HIDE DEF row
  <2> QED
    BY <1>1, <2>1, <2>2, SuccessorCall DEF s
<1>6. ASSUME NEW m \in Member, ClaimWork(w, m) PROVE IndInv'
  <2> DEFINE row == [s(TRUE, FALSE) EXCEPT !.owner = m]
  <2>1. /\ Advance(w, row) /\ UNCHANGED <<bindings, member, runtime, results>>
        /\ work[w].phase = "Open"
    BY <1>6 DEF ClaimWork, Ready, Normal, s
  <2>2. /\ row \in WorkRow /\ row.phase = work[w].phase /\ row.prereqs = work[w].prereqs
        /\ row.resolution = work[w].resolution
        /\ row.version = s(TRUE, FALSE).version /\ row.moved = s(TRUE, FALSE).moved
        /\ row.responsibility = s(TRUE, FALSE).responsibility
        /\ row.reauthorized = s(TRUE, FALSE).reauthorized
    BY <1>2 DEF WorkRow
  <2> HIDE DEF row
  <2> QED
    BY <1>1, <2>1, <2>2, SuccessorCall DEF s
<1>7. CASE ReleaseWork(w)
  <2> DEFINE row == [s(TRUE, FALSE) EXCEPT !.owner = NoOwner]
  <2>1. /\ Advance(w, row) /\ UNCHANGED <<bindings, member, runtime, results>>
        /\ work[w].phase = "Open"
    BY <1>7 DEF ReleaseWork, Normal, s
  <2>2. /\ row \in WorkRow /\ row.phase = work[w].phase /\ row.prereqs = work[w].prereqs
        /\ row.resolution = work[w].resolution
        /\ row.version = s(TRUE, FALSE).version /\ row.moved = s(TRUE, FALSE).moved
        /\ row.responsibility = s(TRUE, FALSE).responsibility
        /\ row.reauthorized = s(TRUE, FALSE).reauthorized
    BY <1>2 DEF WorkRow
  <2> HIDE DEF row
  <2> QED
    BY <1>1, <2>1, <2>2, SuccessorCall DEF s
<1>8. CASE StartWork(w)
  <2> DEFINE row == [s(FALSE, FALSE) EXCEPT !.phase = "Active"]
  <2>1. /\ Advance(w, row) /\ UNCHANGED <<bindings, member, runtime, results>>
        /\ work[w].phase = "Open" /\ Ready(w)
    BY <1>8 DEF StartWork, Ready, Normal, s
  <2>2. /\ row \in WorkRow /\ row.phase = "Active" /\ row.prereqs = work[w].prereqs
        /\ row.resolution = work[w].resolution
        /\ row.version = s(FALSE, FALSE).version /\ row.moved = s(FALSE, FALSE).moved
        /\ row.responsibility = s(FALSE, FALSE).responsibility
        /\ row.reauthorized = s(FALSE, FALSE).reauthorized
    BY <1>2 DEF WorkRow
  <2> HIDE DEF row
  <2> QED
    BY <1>1, <2>1, <2>2, SuccessorCall DEF s
<1>9. CASE BlockWork(w)
  <2> DEFINE row == [s(FALSE, FALSE) EXCEPT !.blocked = TRUE]
  <2>1. /\ Advance(w, row) /\ UNCHANGED <<bindings, member, runtime, results>>
        /\ work[w].phase = "Active"
    BY <1>9 DEF BlockWork, Normal, s
  <2>2. /\ row \in WorkRow /\ row.phase = work[w].phase /\ row.prereqs = work[w].prereqs
        /\ row.resolution = work[w].resolution
        /\ row.version = s(FALSE, FALSE).version /\ row.moved = s(FALSE, FALSE).moved
        /\ row.responsibility = s(FALSE, FALSE).responsibility
        /\ row.reauthorized = s(FALSE, FALSE).reauthorized
    BY <1>2 DEF WorkRow
  <2> HIDE DEF row
  <2> QED
    BY <1>1, <2>1, <2>2, SuccessorCall DEF s
<1>10. CASE ResumeWork(w)
  <2> DEFINE row == [s(FALSE, FALSE) EXCEPT !.blocked = FALSE]
  <2>1. /\ Advance(w, row) /\ UNCHANGED <<bindings, member, runtime, results>>
        /\ work[w].phase = "Active"
    BY <1>10 DEF ResumeWork, s
  <2>2. /\ row \in WorkRow /\ row.phase = work[w].phase /\ row.prereqs = work[w].prereqs
        /\ row.resolution = work[w].resolution
        /\ row.version = s(FALSE, FALSE).version /\ row.moved = s(FALSE, FALSE).moved
        /\ row.responsibility = s(FALSE, FALSE).responsibility
        /\ row.reauthorized = s(FALSE, FALSE).reauthorized
    BY <1>2 DEF WorkRow
  <2> HIDE DEF row
  <2> QED
    BY <1>1, <2>1, <2>2, SuccessorCall DEF s
<1>11. CASE RequestChanges(w)
  <2> DEFINE row == [s(FALSE, TRUE) EXCEPT !.phase = "Open"]
  <2>1. /\ Advance(w, row) /\ UNCHANGED <<bindings, member, runtime, results>>
        /\ work[w].phase = "Review" /\ Executing(w)
    BY <1>11 DEF RequestChanges, Normal, Executing, s
  <2>2. /\ row \in WorkRow /\ row.phase = "Open" /\ row.prereqs = work[w].prereqs
        /\ row.resolution = work[w].resolution
        /\ row.version = s(FALSE, TRUE).version /\ row.moved = s(FALSE, TRUE).moved
        /\ row.responsibility = s(FALSE, TRUE).responsibility
        /\ row.reauthorized = s(FALSE, TRUE).reauthorized
    BY <1>2 DEF WorkRow
  <2> HIDE DEF row
  <2> QED
    BY <1>1, <2>1, <2>2, SuccessorCall DEF s
<1>12. CASE CancelWork(w)
  <2> DEFINE row == [s(FALSE, FALSE) EXCEPT !.phase = "Closed", !.blocked = FALSE,
                                          !.resolution = "Cancelled"]
  <2>1. /\ Advance(w, row) /\ UNCHANGED <<bindings, member, runtime, results>>
        /\ work[w].phase \in {"Open", "Active", "Review"}
    BY <1>12 DEF CancelWork, Mutable, s
  <2>2. /\ row \in WorkRow /\ row.phase = "Closed" /\ row.prereqs = work[w].prereqs
        /\ row.resolution = "Cancelled"
        /\ row.version = s(FALSE, FALSE).version /\ row.moved = s(FALSE, FALSE).moved
        /\ row.responsibility = s(FALSE, FALSE).responsibility
        /\ row.reauthorized = s(FALSE, FALSE).reauthorized
    BY <1>2 DEF WorkRow
  <2> HIDE DEF row
  <2> QED
    BY <1>1, <2>1, <2>2, SuccessorCall DEF s
<1>13. CASE RedeliverWork(w)
  <2>1. /\ Advance(w, s(TRUE, TRUE)) /\ UNCHANGED <<bindings, member, runtime, results>>
        /\ work[w].phase = "Open"
    BY <1>13 DEF RedeliverWork, s
  <2>2. /\ s(TRUE, TRUE) \in WorkRow /\ s(TRUE, TRUE).phase = work[w].phase
        /\ s(TRUE, TRUE).prereqs = work[w].prereqs
        /\ s(TRUE, TRUE).resolution = work[w].resolution
    BY <1>2
  <2> QED
    BY <1>1, <2>1, <2>2, SuccessorCall DEF s
<1> QED
  BY <1>3, <1>4, <1>5, <1>6, <1>7, <1>8, <1>9, <1>10, <1>11, <1>12, <1>13

\* The acceptance rests on the current Result of the owner.
LEMMA Acceptance ==
    ASSUME IndInv, NEW w \in Work, AcceptWork(w)
    PROVE  IndInv'
<1>1. TypeOK /\ work[w] \in WorkRow
  BY DEF IndInv, TypeOK
<1> DEFINE s == Successor(w, FALSE, FALSE)
           row == [s EXCEPT !.phase = "Closed", !.resolution = "Accepted"]
<1>2. /\ Advance(w, row) /\ UNCHANGED <<bindings, member, runtime, results>>
      /\ work[w].phase = "Review" /\ Cardinality(CurrentResults(w)) = 1
  BY DEF AcceptWork, Normal
<1>3. /\ s \in WorkRow /\ s.responsibility = work[w].responsibility
      /\ s.reauthorized = work[w].reauthorized
      /\ s.owner = work[w].owner /\ s.prereqs = work[w].prereqs
  BY <1>1, SuccessorFields
<1> HIDE DEF s
<1>4. /\ row \in WorkRow /\ row.phase = "Closed" /\ row.resolution = "Accepted"
      /\ row.owner = work[w].owner /\ row.prereqs = work[w].prereqs
      /\ row.version = s.version /\ row.moved = s.moved
      /\ row.responsibility = s.responsibility /\ row.reauthorized = s.reauthorized
  BY <1>3 DEF WorkRow
<1>5. CurrentResults(w) # {}
  BY <1>2, FS_EmptySet
<1>6. PICK r \in results[w] : r.revision = work[w].moved /\ r.author = work[w].owner
  BY <1>5 DEF CurrentResults
<1>7. /\ work[w].reauthorized < r.revision
      /\ work[w].responsibility <= bindings[w][r.binding].revision
  BY <1>6 DEF IndInv, ResultsAreBehind
<1> HIDE DEF row
<1> QED
  BY <1>2, <1>3, <1>4, <1>6, <1>7, SuccessorCall DEF s

\* A refresh of the links is a revision and no move.
LEMMA Refresh ==
    ASSUME IndInv, NEW w \in Work, RefreshLinks(w)
    PROVE  IndInv'
<1> DEFINE row == [work[w] EXCEPT !.version = @ + 1]
<1>1. /\ work[w] \in WorkRow /\ work[w].version \in Nat
      /\ work[w].responsibility \in 0..work[w].version
      /\ work[w].reauthorized \in 0..work[w].version
      /\ work[w].moved \in 0..work[w].version
  BY Numbers DEF IndInv
<1>2. /\ Advance(w, row) /\ UNCHANGED <<bindings, member, runtime, results>>
      /\ work[w].phase \in {"Open", "Active", "Review"}
  BY DEF RefreshLinks, Mutable
<1>3. /\ row \in WorkRow /\ row.version = work[w].version + 1
      /\ row.phase = work[w].phase /\ row.resolution = work[w].resolution
      /\ row.prereqs = work[w].prereqs /\ row.moved = work[w].moved
      /\ row.reauthorized = work[w].reauthorized
      /\ row.responsibility = work[w].responsibility
  BY <1>1 DEF WorkRow, Revision
<1>4. {row.responsibility, row.reauthorized, row.moved} \subseteq 0..row.version
  BY <1>1, <1>3
<1>5. work[w].resolution # "Accepted"
  BY <1>2 DEF IndInv, PhaseFits, Accepted
<1> HIDE DEF row
<1> QED
  BY <1>2, <1>3, <1>4, <1>5, WorkCall

-----------------------------------------------------------------------------
(* The execution plane.                                                    *)

\* What the calls make of a binding.
LEMMA BindingUpdates ==
    ASSUME NEW b \in Binding, NEW n \in Nat
    PROVE  /\ [b EXCEPT !.delivery = "Claimed"] \in Binding
           /\ b.status = "Active" => Evolves(b, [b EXCEPT !.delivery = "Claimed"])
           /\ \A d \in {"ProviderReceived", "Failed"} :
                /\ [b EXCEPT !.delivery = d] \in Binding
                /\ b.delivery = "Claimed" => Evolves(b, [b EXCEPT !.delivery = d])
           /\ \A t \in {"Released", "Closed"} :
                /\ Ended(b, t, n) \in Binding
                /\ b.status = "Active" /\ b.delivery # "Claimed" =>
                     /\ Evolves(b, Ended(b, t, n))
                     /\ Ended(b, t, n).status # "Active"
           /\ LostBinding(b) \in Binding
           /\ LostBinding(b).status # "Active"
           /\ b.status = "Active" => Evolves(b, LostBinding(b))
           /\ [b EXCEPT !.status = "Released"] \in Binding
           /\ b.status = "Active" /\ b.delivery = "ProviderReceived" =>
                /\ Evolves(b, [b EXCEPT !.status = "Released"])
                /\ [b EXCEPT !.status = "Released"].status = "Released"
                /\ [b EXCEPT !.status = "Released"].delivery = "ProviderReceived"
                /\ [b EXCEPT !.status = "Released"].member = b.member
                /\ [b EXCEPT !.status = "Released"].revision = b.revision
<1>1. /\ [b EXCEPT !.delivery = "Claimed"] \in Binding
      /\ b.status = "Active" => Evolves(b, [b EXCEPT !.delivery = "Claimed"])
  BY DEF Binding, Evolves, Effect
<1>2. ASSUME NEW d \in {"ProviderReceived", "Failed"}
      PROVE  /\ [b EXCEPT !.delivery = d] \in Binding
             /\ b.delivery = "Claimed" => Evolves(b, [b EXCEPT !.delivery = d])
  BY DEF Binding, Evolves, Effect
<1>3. ASSUME NEW t \in {"Released", "Closed"}
      PROVE  /\ Ended(b, t, n) \in Binding
             /\ b.status = "Active" /\ b.delivery # "Claimed" =>
                  /\ Evolves(b, Ended(b, t, n))
                  /\ Ended(b, t, n).status # "Active"
  BY DEF Binding, Evolves, Effect, Ended
<1>4. /\ LostBinding(b) \in Binding
      /\ LostBinding(b).status # "Active"
      /\ b.status = "Active" => Evolves(b, LostBinding(b))
  BY DEF Binding, Evolves, Effect, LostBinding
<1>5. /\ [b EXCEPT !.status = "Released"] \in Binding
      /\ b.status = "Active" /\ b.delivery = "ProviderReceived" =>
           /\ Evolves(b, [b EXCEPT !.status = "Released"])
           /\ [b EXCEPT !.status = "Released"].status = "Released"
           /\ [b EXCEPT !.status = "Released"].delivery = "ProviderReceived"
           /\ [b EXCEPT !.status = "Released"].member = b.member
           /\ [b EXCEPT !.status = "Released"].revision = b.revision
  BY DEF Binding, Evolves, Effect
<1> QED
  BY <1>1, <1>2, <1>3, <1>4, <1>5

\* Writing one binding leaves the others, and their number.
LEMMA RebindFacts ==
    ASSUME IndInv, NEW w \in Work, NEW i \in DOMAIN bindings[w], NEW c \in Binding,
           Rebind(w, i, c), Evolves(bindings[w][i], c)
    PROVE  /\ bindings' \in [Work -> Seq(Binding)]
           /\ \A x \in Work : /\ BindingsEvolve(x)
                             /\ DOMAIN bindings'[x] = DOMAIN bindings[x]
                             /\ Len(bindings'[x]) = Len(bindings[x])
           /\ \A x \in Work \ {w} : bindings'[x] = bindings[x]
           /\ bindings'[w][i] = c
           /\ \A j \in DOMAIN bindings[w] \ {i} : bindings'[w][j] = bindings[w][j]
<1>1. bindings \in [Work -> Seq(Binding)]
  BY DEF IndInv, TypeOK
<1>2. /\ bindings[w] \in Seq(Binding) /\ i \in 1..Len(bindings[w])
      /\ DOMAIN bindings[w] = 1..Len(bindings[w])
  BY Numbers DEF IndInv
<1> DEFINE q == [bindings[w] EXCEPT ![i] = c]
<1>3. /\ q \in Seq(Binding) /\ Len(q) = Len(bindings[w]) /\ q[i] = c
      /\ DOMAIN q = DOMAIN bindings[w]
      /\ \A j \in DOMAIN bindings[w] \ {i} : q[j] = bindings[w][j]
  BY <1>2, ExceptSeq
<1>4. bindings' = [bindings EXCEPT ![w] = q]
  BY DEF Rebind
<1> HIDE DEF q
<1>5. /\ bindings' \in [Work -> Seq(Binding)] /\ bindings'[w] = q
      /\ \A x \in Work \ {w} : bindings'[x] = bindings[x]
  BY <1>1, <1>3, <1>4
<1>6. BindingsEvolve(w)
  BY <1>3, <1>5 DEF BindingsEvolve, Evolves, IndInv, ClaimedIsActive, Effect
<1>7. \A x \in Work \ {w} : BindingsEvolve(x)
  BY <1>5, UnchangedEvolves
<1> QED
  BY <1>3, <1>5, <1>6, <1>7

\* A call that writes one binding and touches nothing else.
LEMMA BindingCall ==
    ASSUME IndInv, NEW w \in Work, NEW i \in DOMAIN bindings[w], NEW c \in Binding,
           Rebind(w, i, c), Evolves(bindings[w][i], c),
           UNCHANGED <<work, member, runtime, results>>,
           c.status = "Active" /\ c.delivery \in Effect =>
               bindings[w][i].delivery \in Effect \/ Ready(w)
    PROVE  IndInv'
<1>1. /\ bindings' \in [Work -> Seq(Binding)]
      /\ \A x \in Work : /\ BindingsEvolve(x)
                        /\ DOMAIN bindings'[x] = DOMAIN bindings[x]
                        /\ Len(bindings'[x]) = Len(bindings[x])
      /\ \A x \in Work \ {w} : bindings'[x] = bindings[x]
      /\ bindings'[w][i] = c
      /\ \A j \in DOMAIN bindings[w] \ {i} : bindings'[w][j] = bindings[w][j]
  BY RebindFacts
<1>2. TypeOK'
  <2>1. \A x \in Work : \A j \in DOMAIN bindings'[x] :
          bindings'[x][j].status = "Active" => j = Len(bindings'[x])
    BY <1>1 DEF BindingsEvolve, Evolves, IndInv, TypeOK
  <2> QED
    BY <1>1, <2>1 DEF IndInv, TypeOK
<1>3. \A x \in Work : Orderly(x) /\ AddsSoundResults(x) /\ AcceptsOnResult(x)
  BY <1>1 DEF Orderly, Proceeds, AddsSoundResults, AcceptsOnResult, Accepted
<1>4. ASSUME NEW x \in Work PROVE ExecutesWhenReady(x)
  <2>1. CASE x # w
    BY <1>1, <2>1 DEF ExecutesWhenReady, Executing, ActiveBindings
  <2>2. CASE x = w /\ work[w].phase = "Open"
    <3>1. ASSUME NEW j \in ActiveBindings(w)', bindings'[w][j].delivery \in Effect
          PROVE  Executing(w) \/ Ready(w)
      <4>1. j \in DOMAIN bindings[w] /\ bindings'[w][j].status = "Active"
        BY <1>1, <3>1 DEF ActiveBindings
      <4>2. bindings[w][j].status = "Active"
        BY <1>1, <4>1 DEF BindingsEvolve, Evolves
      <4>3. CASE j = i
        BY <1>1, <2>2, <3>1, <4>1, <4>2, <4>3 DEF Executing, ActiveBindings
      <4>4. CASE j # i
        BY <1>1, <2>2, <3>1, <4>1, <4>2, <4>4 DEF Executing, ActiveBindings
      <4> QED
        BY <4>3, <4>4
    <3> QED
      BY <2>2, <3>1 DEF ExecutesWhenReady, Executing, Ready
  <2>3. CASE x = w /\ work[w].phase # "Open"
    BY <2>3 DEF ExecutesWhenReady, Executing
  <2> QED
    BY <2>1, <2>2, <2>3
<1>5. DependenciesAreAcyclic'
  BY DEF DependenciesAreAcyclic, IndInv
<1> QED
  BY <1>2, <1>3, <1>4, <1>5, StepKeeps

\* The dispatch pass, the receipts and the releases.
LEMMA DeliveryCalls ==
    ASSUME IndInv, NEW w \in Work,
           \/ ClaimDelivery(w) \/ ReceiveDelivery(w) \/ FailDelivery(w)
           \/ ReleaseStale(w) \/ ReleaseOwnBinding(w) \/ ReleaseForClose(w)
    PROVE  IndInv'
<1>1. \A i \in DOMAIN bindings[w] : bindings[w][i] \in Binding
  BY Numbers DEF IndInv
<1>2. \A i \in ActiveBindings(w) :
        i \in DOMAIN bindings[w] /\ bindings[w][i].status = "Active"
  BY DEF ActiveBindings
<1>3. UNCHANGED <<work, member, runtime, results>>
  BY DEF ClaimDelivery, ReceiveDelivery, FailDelivery, ReleaseStale, ReleaseOwnBinding,
         ReleaseForClose
<1>4. CASE ClaimDelivery(w)
  <2>1. PICK i \in ActiveBindings(w) :
          Rebind(w, i, [bindings[w][i] EXCEPT !.delivery = "Claimed"])
    BY <1>4 DEF ClaimDelivery
  <2>2. Ready(w)
    BY <1>4 DEF ClaimDelivery
  <2> DEFINE c == [bindings[w][i] EXCEPT !.delivery = "Claimed"]
  <2>3. c \in Binding /\ Evolves(bindings[w][i], c)
    BY <1>1, <1>2, BindingUpdates
  <2> HIDE DEF c
  <2> QED
    BY <1>2, <1>3, <2>1, <2>2, <2>3, BindingCall DEF c
<1>5. CASE ReceiveDelivery(w) \/ FailDelivery(w)
  <2>1. PICK i \in DOMAIN bindings[w], d \in {"ProviderReceived", "Failed"} :
          /\ bindings[w][i].delivery = "Claimed"
          /\ Rebind(w, i, [bindings[w][i] EXCEPT !.delivery = d])
    BY <1>5 DEF ReceiveDelivery, FailDelivery
  <2> DEFINE c == [bindings[w][i] EXCEPT !.delivery = d]
  <2>2. c \in Binding /\ Evolves(bindings[w][i], c)
    BY <1>1, <2>1, BindingUpdates
  <2>3. bindings[w][i].delivery \in Effect
    BY <2>1 DEF Effect
  <2> HIDE DEF c
  <2> QED
    BY <1>3, <2>1, <2>2, <2>3, BindingCall DEF c
<1>6. ASSUME NEW i \in ActiveBindings(w), NEW t \in {"Released", "Closed"}, NEW n \in Nat,
             bindings[w][i].delivery # "Claimed", Rebind(w, i, Ended(bindings[w][i], t, n))
      PROVE  IndInv'
  <2>1. /\ Ended(bindings[w][i], t, n) \in Binding
        /\ Evolves(bindings[w][i], Ended(bindings[w][i], t, n))
        /\ Ended(bindings[w][i], t, n).status # "Active"
    <3> DEFINE b == bindings[w][i]
    <3>1. b \in Binding /\ b.status = "Active" /\ b.delivery # "Claimed"
      BY <1>1, <1>2, <1>6
    <3> HIDE DEF b
    <3>2. /\ Ended(b, t, n) \in Binding /\ Evolves(b, Ended(b, t, n))
          /\ Ended(b, t, n).status # "Active"
      BY <3>1, BindingUpdates
    <3> QED
      BY <3>2 DEF b
  <2> QED
    BY <1>2, <1>3, <1>6, <2>1, BindingCall
<1>7. CASE ReleaseStale(w) \/ ReleaseOwnBinding(w)
  BY <1>6, <1>7 DEF ReleaseStale, ReleaseOwnBinding, MayEnd
<1>8. CASE ReleaseForClose(w)
  <2>1. PICK i \in ActiveBindings(w) :
          /\ bindings[w][i].delivery # "Claimed"
          /\ Rebind(w, i, Ended(bindings[w][i], "Closed",
                                member[bindings[w][i].member].close))
    BY <1>8 DEF ReleaseForClose
  <2>2. member[bindings[w][i].member].close \in Nat
    BY <1>1, <1>2 DEF IndInv, TypeOK, Binding
  <2> QED
    BY <1>6, <2>1, <2>2
<1> QED
  BY <1>4, <1>5, <1>7, <1>8

\* A Result, the submission of its Work and the release of its binding, at once.
LEMMA Submission ==
    ASSUME IndInv, NEW w \in Work, SubmitResult(w)
    PROVE  IndInv'
<1>1. TypeOK /\ work[w] \in WorkRow /\ work[w].phase = "Active"
      /\ work[w].resolution # "Accepted" /\ work[w].owner \in Member
  BY DEF IndInv, TypeOK, SubmitResult, Normal, PhaseFits, Accepted, Live, WorkRow
<1>2. PICK i \in DOMAIN bindings[w] :
        /\ ResultBindings(w) = {i} /\ MayCarryResult(w, i)
        /\ results' = [results EXCEPT ![w] = @ \cup
              {[revision |-> work[w].version + 1, author |-> work[w].owner, binding |-> i]}]
        /\ Rebind(w, i, IF bindings[w][i].status = "Active"
                        THEN [bindings[w][i] EXCEPT !.status = "Released"]
                        ELSE bindings[w][i])
  BY DEF SubmitResult
<1> DEFINE s == Successor(w, FALSE, FALSE)
           row == [s EXCEPT !.phase = "Review"]
           b == bindings[w][i]
           c == IF b.status = "Active" THEN [b EXCEPT !.status = "Released"] ELSE b
           new == [revision |-> work[w].version + 1, author |-> work[w].owner,
                   binding |-> i]
<1>3. Advance(w, row) /\ UNCHANGED <<member, runtime>>
  BY DEF SubmitResult
<1>4. /\ work[w].version \in Nat
      /\ work[w].responsibility \in 0..work[w].version
      /\ work[w].reauthorized \in 0..work[w].version
      /\ b \in Binding /\ b.revision \in Nat /\ i \in Nat
  BY <1>1, Numbers
<1>5. /\ b.delivery = "ProviderReceived" /\ b.member = work[w].owner
      /\ work[w].responsibility <= b.revision
      /\ b.revision <= work[w].version
  BY <1>2, <1>4 DEF MayCarryResult, ResponsibilityChanged, IndInv, BindingIsBehind
<1>6. b.status = "Active" \/ b.status = "Closed"
  BY <1>2 DEF ResultBindings, ActiveBindings
<1>7. /\ s \in WorkRow /\ s.version = work[w].version + 1 /\ s.moved = s.version
      /\ s.responsibility = work[w].responsibility
      /\ s.reauthorized = work[w].reauthorized /\ s.resolution = work[w].resolution
      /\ s.prereqs = work[w].prereqs
  <2>1. /\ s \in WorkRow /\ s.version = work[w].version + 1
        /\ s.moved = work[w].version + 1
        /\ s.responsibility = work[w].responsibility
        /\ s.reauthorized = work[w].reauthorized
        /\ s.resolution = work[w].resolution /\ s.prereqs = work[w].prereqs
    BY <1>1, SuccessorFields
  <2> HIDE DEF s
  <2> QED
    BY <2>1
<1> HIDE DEF s
<1>8. /\ row \in WorkRow /\ row.phase = "Review"
      /\ row.version = work[w].version + 1 /\ row.moved = row.version
      /\ row.responsibility = work[w].responsibility
      /\ row.reauthorized = work[w].reauthorized /\ row.resolution = work[w].resolution
      /\ row.prereqs = work[w].prereqs
  BY <1>7 DEF WorkRow
<1> HIDE DEF row
<1>9. /\ c \in Binding /\ Evolves(b, c) /\ c.delivery = "ProviderReceived"
      /\ c.status \in {"Released", "Closed"} /\ c.member = b.member
      /\ c.revision = b.revision
  <2> HIDE DEF b
  <2>1. CASE b.status = "Active"
    BY <1>4, <1>5, <2>1, BindingUpdates
  <2>2. CASE b.status = "Closed"
    BY <1>4, <1>5, <2>2 DEF Evolves, Effect
  <2> QED
    BY <1>6, <2>1, <2>2
<1>10. Rebind(w, i, c)
  BY <1>2
<1> HIDE DEF b, c
<1>11. /\ bindings' \in [Work -> Seq(Binding)]
       /\ \A x \in Work : /\ BindingsEvolve(x)
                         /\ DOMAIN bindings'[x] = DOMAIN bindings[x]
                         /\ Len(bindings'[x]) = Len(bindings[x])
       /\ \A x \in Work \ {w} : bindings'[x] = bindings[x]
       /\ bindings'[w][i] = c
  BY <1>9, <1>10, RebindFacts DEF b
<1>12. /\ work'[w] = row /\ \A x \in Work \ {w} : work'[x] = work[x]
       /\ work' \in [Work -> WorkRow] /\ work[w].version < MaxVersion[w]
  BY <1>1, <1>3, <1>8 DEF Advance, TypeOK
<1>13. /\ results' \in [Work -> SUBSET Result]
       /\ results'[w] = results[w] \cup {new}
       /\ \A x \in Work \ {w} : results'[x] = results[x]
  <2>1. new \in Result
    BY <1>1, <1>4 DEF Result, Revision
  <2>2. results' = [results EXCEPT ![w] = @ \cup {new}]
    BY <1>2
  <2> HIDE DEF new
  <2> QED
    BY <1>1, <2>1, <2>2 DEF TypeOK
<1>14. TypeOK'
  <2>1. \A x \in Work : \A j \in DOMAIN bindings'[x] :
          bindings'[x][j].status = "Active" => j = Len(bindings'[x])
    BY <1>1, <1>11 DEF BindingsEvolve, Evolves, TypeOK
  <2>2. MaxVersion[w] \in Nat
    BY WorkAssumption DEF WorkAssumption
  <2>3. /\ work'[w].version \in 0..MaxVersion[w]
        /\ {work'[w].responsibility, work'[w].reauthorized, work'[w].moved}
             \subseteq 0..work'[w].version
    BY <1>4, <1>8, <1>12, <2>2
  <2>4. ASSUME NEW x \in Work, x # w
        PROVE  /\ work'[x].version \in 0..MaxVersion[x]
               /\ {work'[x].responsibility, work'[x].reauthorized, work'[x].moved}
                    \subseteq 0..work'[x].version
    <3>1. work'[x] = work[x]
      BY <1>12, <2>4
    <3> QED
      BY <1>1, <3>1 DEF TypeOK
  <2>5. \A x \in Work :
          /\ work'[x].version \in 0..MaxVersion[x]
          /\ {work'[x].responsibility, work'[x].reauthorized, work'[x].moved}
               \subseteq 0..work'[x].version
    BY <2>3, <2>4
  <2> QED
    BY <1>1, <1>3, <1>11, <1>12, <1>13, <2>1, <2>5 DEF TypeOK
<1>15. Moves(w)
  BY <1>1, <1>8, <1>12 DEF Moves
<1>16. \A x \in Work : Orderly(x)
  BY <1>11, <1>12, <1>13, <1>15 DEF Orderly, Proceeds
<1>17. ASSUME NEW x \in Work PROVE AddsSoundResults(x)
  <2>1. RestsOnReceipt(w, new) /\ IsCurrentResult(w, new) /\ new.revision <= work'[w].moved
    BY <1>4, <1>5, <1>8, <1>9, <1>11, <1>12 DEF RestsOnReceipt, IsCurrentResult
  <2> HIDE DEF new
  <2> QED
    BY <1>13, <2>1 DEF AddsSoundResults
<1>18. \A x \in Work : AcceptsOnResult(x)
  BY <1>1, <1>8, <1>12 DEF AcceptsOnResult, Accepted
<1>19. ASSUME NEW x \in Work PROVE ExecutesWhenReady(x)
  <2>1. CASE x # w
    BY <1>11, <1>12, <2>1 DEF ExecutesWhenReady, Executing, ActiveBindings
  <2>2. CASE x = w
    BY <1>1, <1>8, <1>12, <2>2 DEF ExecutesWhenReady, Executing
  <2> QED
    BY <2>1, <2>2
<1>20. DependenciesAreAcyclic'
  <2>1. \A x \in Work : work'[x].prereqs = work[x].prereqs
    BY <1>8, <1>12
  <2> QED
    BY <2>1 DEF DependenciesAreAcyclic, IndInv
<1> QED
  BY <1>14, <1>16, <1>17, <1>18, <1>19, <1>20, StepKeeps

\* The bindings of x after a settlement or a recovery: as they were, or lost.
LostOrSame(x) ==
    /\ DOMAIN bindings'[x] = DOMAIN bindings[x]
    /\ \A i \in DOMAIN bindings[x] :
         \/ bindings'[x][i] = bindings[x][i]
         \/ /\ bindings[x][i].status = "Active"
            /\ bindings'[x][i] = LostBinding(bindings[x][i])

\* A binding that is lost evolves, and one that is as it was does.
LEMMA LostEvolves ==
    ASSUME IndInv, NEW x \in Work, LostOrSame(x)
    PROVE  /\ BindingsEvolve(x)
           /\ \A i \in DOMAIN bindings[x] : bindings'[x][i] \in Binding
           /\ \A i \in ActiveBindings(x)' :
                i \in ActiveBindings(x) /\ bindings'[x][i] = bindings[x][i]
<1>1. ASSUME NEW i \in DOMAIN bindings[x]
      PROVE  /\ Evolves(bindings[x][i], bindings'[x][i])
             /\ bindings'[x][i] \in Binding
             /\ bindings'[x][i].status = "Active" => bindings'[x][i] = bindings[x][i]
  <2> DEFINE b == bindings[x][i]
  <2>1. b \in Binding
    BY Numbers DEF IndInv
  <2>2. CASE bindings'[x][i] = b
    BY <2>1, <2>2 DEF Evolves, Effect, IndInv, ClaimedIsActive
  <2>3. CASE b.status = "Active" /\ bindings'[x][i] = LostBinding(b)
    <3> HIDE DEF b
    <3>1. Evolves(b, LostBinding(b)) /\ LostBinding(b) \in Binding
          /\ LostBinding(b).status # "Active"
      BY <2>1, <2>3, BindingUpdates
    <3> QED
      BY <2>3, <3>1 DEF b
  <2> QED
    BY <2>2, <2>3 DEF LostOrSame
<1>2. DOMAIN bindings'[x] = DOMAIN bindings[x]
  BY DEF LostOrSame
<1> QED
  BY <1>1, <1>2 DEF BindingsEvolve, ActiveBindings

\* What a sequence becomes when each of its elements is written anew.
LEMMA RewrittenSeq ==
    ASSUME NEW q \in Seq(Binding), NEW z, DOMAIN z = DOMAIN q, z = [i \in DOMAIN z |-> z[i]],
           \A i \in DOMAIN q : z[i] \in Binding
    PROVE  z \in Seq(Binding) /\ Len(z) = Len(q)
<1>1. DOMAIN q = 1..Len(q) /\ Len(q) \in Nat
  BY LenProperties
<1>2. z \in [1..Len(q) -> Binding]
  BY <1>1
<1> QED
  BY <1>1, <1>2

\* The recovery of a lost execution, by the Host.
LEMMA Recovery ==
    ASSUME IndInv, NEW w \in Work, RecoverLostExecution(w)
    PROVE  IndInv'
<1>1. /\ TypeOK /\ work[w] \in WorkRow /\ work[w].phase \in {"Open", "Active"}
      /\ work[w].resolution # "Accepted"
  BY DEF IndInv, TypeOK, RecoverLostExecution, Recoverable, Normal, PhaseFits, Accepted
<1> DEFINE s == Successor(w, TRUE, TRUE)
           row == [s EXCEPT !.phase = "Open"]
           z == [i \in DOMAIN bindings[w] |->
                   IF i \in ActiveBindings(w) THEN LostBinding(bindings[w][i])
                   ELSE bindings[w][i]]
<1>2. Advance(w, row) /\ bindings' = [bindings EXCEPT ![w] = z]
        /\ UNCHANGED <<member, runtime, results>>
  BY DEF RecoverLostExecution, LoseBinding
<1>3. work[w].version \in Nat /\ bindings[w] \in Seq(Binding)
  BY <1>1, Numbers
<1>4. /\ s \in WorkRow /\ s.version = work[w].version + 1 /\ s.moved = s.version
      /\ s.responsibility = s.version /\ s.reauthorized = s.version
      /\ s.resolution = work[w].resolution /\ s.prereqs = work[w].prereqs
  <2>1. /\ s \in WorkRow /\ s.version = work[w].version + 1
        /\ s.moved = work[w].version + 1
        /\ s.responsibility = s.version /\ s.reauthorized = s.version
        /\ s.resolution = work[w].resolution /\ s.prereqs = work[w].prereqs
    BY <1>1, SuccessorFields
  <2> HIDE DEF s
  <2> QED
    BY <2>1
<1> HIDE DEF s
<1>5. /\ row \in WorkRow /\ row.phase = "Open"
      /\ row.version = work[w].version + 1 /\ row.moved = row.version
      /\ row.responsibility = row.version /\ row.reauthorized = row.version
      /\ row.resolution = work[w].resolution /\ row.prereqs = work[w].prereqs
  BY <1>4 DEF WorkRow
<1> HIDE DEF row
<1>6. /\ work'[w] = row /\ \A x \in Work \ {w} : work'[x] = work[x]
      /\ work' \in [Work -> WorkRow] /\ work[w].version < MaxVersion[w]
  BY <1>1, <1>2, <1>5 DEF Advance, TypeOK
<1>7. bindings'[w] = z /\ \A x \in Work \ {w} : bindings'[x] = bindings[x]
  BY <1>1, <1>2 DEF TypeOK
<1>8. /\ DOMAIN z = DOMAIN bindings[w] /\ z = [i \in DOMAIN z |-> z[i]]
      /\ \A i \in DOMAIN bindings[w] :
           z[i] = IF i \in ActiveBindings(w) THEN LostBinding(bindings[w][i])
                  ELSE bindings[w][i]
  OBVIOUS
<1> HIDE DEF z
<1>9. \A x \in Work : LostOrSame(x)
  BY <1>7, <1>8 DEF LostOrSame, ActiveBindings
<1>10. \A x \in Work :
         /\ BindingsEvolve(x)
         /\ \A i \in DOMAIN bindings[x] : bindings'[x][i] \in Binding
         /\ \A i \in ActiveBindings(x)' :
              i \in ActiveBindings(x) /\ bindings'[x][i] = bindings[x][i]
  BY <1>9, LostEvolves
<1>11. z \in Seq(Binding) /\ Len(z) = Len(bindings[w])
  BY <1>3, <1>7, <1>8, <1>10, RewrittenSeq
<1>12. /\ bindings' \in [Work -> Seq(Binding)]
       /\ \A x \in Work : /\ Len(bindings'[x]) = Len(bindings[x])
                         /\ DOMAIN bindings'[x] = DOMAIN bindings[x]
  BY <1>1, <1>2, <1>7, <1>8, <1>11 DEF TypeOK
<1>13. TypeOK'
  <2>1. \A x \in Work : \A j \in DOMAIN bindings'[x] :
          bindings'[x][j].status = "Active" => j = Len(bindings'[x])
    BY <1>1, <1>10, <1>12 DEF BindingsEvolve, Evolves, TypeOK
  <2>2. MaxVersion[w] \in Nat
    BY WorkAssumption DEF WorkAssumption
  <2>3. /\ work'[w].version \in 0..MaxVersion[w]
        /\ {work'[w].responsibility, work'[w].reauthorized, work'[w].moved}
             \subseteq 0..work'[w].version
    BY <1>3, <1>5, <1>6, <2>2
  <2>4. ASSUME NEW x \in Work, x # w
        PROVE  /\ work'[x].version \in 0..MaxVersion[x]
               /\ {work'[x].responsibility, work'[x].reauthorized, work'[x].moved}
                    \subseteq 0..work'[x].version
    <3>1. work'[x] = work[x]
      BY <1>6, <2>4
    <3> QED
      BY <1>1, <3>1 DEF TypeOK
  <2>5. \A x \in Work :
          /\ work'[x].version \in 0..MaxVersion[x]
          /\ {work'[x].responsibility, work'[x].reauthorized, work'[x].moved}
               \subseteq 0..work'[x].version
    BY <2>3, <2>4
  <2> QED
    BY <1>1, <1>2, <1>6, <1>12, <2>1, <2>5 DEF TypeOK
<1>14. Moves(w)
  BY <1>1, <1>5, <1>6 DEF Moves
<1>15. \A x \in Work : Orderly(x) /\ AddsSoundResults(x) /\ AcceptsOnResult(x)
  BY <1>1, <1>2, <1>5, <1>6, <1>10, <1>12, <1>14
  DEF Orderly, Proceeds, AddsSoundResults, AcceptsOnResult, Accepted
<1>16. ASSUME NEW x \in Work PROVE ExecutesWhenReady(x)
  <2>1. CASE x # w
    BY <1>6, <1>7, <2>1 DEF ExecutesWhenReady, Executing, ActiveBindings
  <2>2. CASE x = w
    BY <1>1, <1>5, <1>6, <1>10, <2>2 DEF ExecutesWhenReady, Executing
  <2> QED
    BY <2>1, <2>2
<1>17. DependenciesAreAcyclic'
  <2>1. \A x \in Work : work'[x].prereqs = work[x].prereqs
    BY <1>5, <1>6
  <2> QED
    BY <2>1 DEF DependenciesAreAcyclic, IndInv
<1> QED
  BY <1>13, <1>15, <1>16, <1>17, StepKeeps

\* The new binding of a ready Work with no active one: it follows every receipt
\* that the Work was not re-authorized after.
LEMMA Binds ==
    ASSUME IndInv, NEW w \in Work, BindExecution(w)
    PROVE  IndInv'
<1> DEFINE m == work[w].owner
           b == [revision |-> work[w].version, reauthorized |-> work[w].reauthorized,
                 member |-> m, generation |-> member[m].generation,
                 driver |-> runtime.driver, close |-> 0, status |-> "Active",
                 delivery |-> "Queued"]
           n == Len(bindings[w])
           q == Append(bindings[w], b)
<1>1. /\ bindings' = [bindings EXCEPT ![w] = q] /\ UNCHANGED <<work, member, runtime, results>>
      /\ work[w].phase = "Open" /\ ~work[w].blocked
      /\ m # NoOwner /\ ActiveBindings(w) = {}
      /\ \A i \in DOMAIN bindings[w] : bindings[w][i].delivery = "ProviderReceived" =>
           ~(work[w].reauthorized <= bindings[w][i].revision)
  BY DEF BindExecution, Ready, Normal, Live, NeedsReauthorization
<1>2. /\ TypeOK /\ work[w] \in WorkRow /\ work[w].version \in Nat
      /\ work[w].reauthorized \in Nat /\ bindings[w] \in Seq(Binding)
      /\ n \in Nat /\ DOMAIN bindings[w] = 1..n
      /\ \A i \in DOMAIN bindings[w] : bindings[w][i].revision \in Nat
  <2>1. TypeOK
    BY DEF IndInv
  <2> QED
    BY <2>1, Numbers
<1>3. b \in Binding /\ b.revision = work[w].version /\ b.reauthorized = work[w].reauthorized
      /\ b.member = m /\ b.status = "Active" /\ b.delivery = "Queued"
  <2>1. m \in Member
    BY <1>1, <1>2 DEF WorkRow
  <2>2. member[m].generation \in Nat /\ runtime.driver \in Nat
    BY <1>2, <2>1 DEF TypeOK
  <2> QED
    BY <1>2, <2>1, <2>2 DEF Binding, Revision
<1> HIDE DEF b
<1>4. /\ q \in Seq(Binding) /\ Len(q) = n + 1 /\ DOMAIN q = 1..(n + 1)
      /\ q[n + 1] = b /\ \A i \in 1..n : q[i] = bindings[w][i]
  BY <1>2, <1>3, AppendProperties, LenProperties
<1> HIDE DEF q
<1>5. /\ bindings'[w] = q /\ \A x \in Work \ {w} : bindings'[x] = bindings[x]
      /\ bindings' \in [Work -> Seq(Binding)]
  BY <1>1, <1>2, <1>4 DEF TypeOK
<1>6. \A i \in DOMAIN bindings'[w] :
        \/ i \in DOMAIN bindings[w] /\ i # n + 1 /\ bindings'[w][i] = bindings[w][i]
        \/ i = n + 1 /\ bindings'[w][i] = b
  BY <1>2, <1>4, <1>5
<1>7. TypeOK'
  <2>1. ASSUME NEW x \in Work, NEW i \in DOMAIN bindings'[x], bindings'[x][i].status = "Active"
        PROVE  i = Len(bindings'[x])
    <3>1. CASE x = w
      BY <1>1, <1>4, <1>5, <1>6, <2>1, <3>1 DEF ActiveBindings
    <3>2. CASE x # w
      BY <1>2, <1>5, <2>1, <3>2 DEF TypeOK
    <3> QED
      BY <3>1, <3>2
  <2> QED
    BY <1>1, <1>2, <1>5, <2>1 DEF TypeOK
<1>8. ASSUME NEW x \in Work PROVE BindingsEvolve(x)
  <2>1. CASE x = w
    <3>1. \A i \in DOMAIN bindings[w] :
            i \in DOMAIN bindings'[w] /\ bindings'[w][i] = bindings[w][i]
      BY <1>2, <1>4, <1>5
    <3>2. \A i \in DOMAIN bindings[w] : Evolves(bindings[w][i], bindings[w][i])
      BY DEF Evolves, Effect, IndInv, ClaimedIsActive
    <3> QED
      BY <2>1, <3>1, <3>2 DEF BindingsEvolve
  <2>2. CASE x # w
    BY <1>5, <2>2, UnchangedEvolves
  <2> QED
    BY <2>1, <2>2
<1>9. \A x \in Work : Proceeds(x) /\ AddsSoundResults(x) /\ AcceptsOnResult(x)
  BY <1>1, <1>8 DEF Proceeds, AddsSoundResults, AcceptsOnResult, Accepted
<1>10. ASSUME NEW x \in Work PROVE ExecutesWhenReady(x)
  <2>1. CASE x # w
    BY <1>1, <1>5, <2>1 DEF ExecutesWhenReady, Executing, ActiveBindings
  <2>2. CASE x = w
    <3>1. Ready(w)
      BY DEF BindExecution
    <3> QED
      BY <1>1, <2>2, <3>1 DEF ExecutesWhenReady, Ready
  <2> QED
    BY <2>1, <2>2
<1>11. ResultsAreBehind' /\ ResultKeepsItsReceipt' /\ AcceptedOnItsOwnersResult'
         /\ ExecutionHasPrerequisites'
  BY <1>7, <1>9, <1>10, KeepsResults, KeepsAcceptance, KeepsPrerequisites
<1>12. DependenciesAreAcyclic'
  BY <1>1 DEF DependenciesAreAcyclic, IndInv
<1>13. BindingIsBehind'
  <2>1. ASSUME NEW x \in Work, NEW i \in DOMAIN bindings'[x]
        PROVE  /\ bindings'[x][i].revision <= work[x].version
               /\ bindings'[x][i].revision = work[x].version =>
                    /\ work[x].phase = "Open" /\ ~work[x].blocked
                    /\ work[x].owner = bindings'[x][i].member
    <3>1. CASE x = w /\ bindings'[w][i] = b
      BY <1>1, <1>2, <1>3, <3>1
    <3>2. CASE i \in DOMAIN bindings[x] /\ bindings'[x][i] = bindings[x][i]
      BY <3>2 DEF IndInv, BindingIsBehind, Normal
    <3> QED
      BY <1>5, <1>6, <3>1, <3>2
  <2> QED
    BY <1>1, <2>1 DEF BindingIsBehind, Normal
<1>14. ClaimedIsActive'
  BY <1>3, <1>5, <1>6 DEF ClaimedIsActive, IndInv
<1>15. PhaseFits'
  BY <1>1, <1>5 DEF PhaseFits, IndInv, Accepted
<1>16. NoReplayWithoutReauthorization'
  <2>1. ASSUME NEW x \in Work, NEW i \in DOMAIN bindings'[x], NEW j \in DOMAIN bindings'[x],
               i < j, bindings'[x][i].delivery = "ProviderReceived"
        PROVE  bindings'[x][j].reauthorized > bindings'[x][i].revision
    <3>1. CASE x # w
      BY <1>5, <2>1, <3>1 DEF NoReplayWithoutReauthorization, IndInv
    <3>2. CASE x = w
      <4>1. i \in DOMAIN bindings[w] /\ bindings'[w][i] = bindings[w][i]
        BY <1>3, <1>6, <2>1, <3>2
      <4>2. CASE j \in DOMAIN bindings[w] /\ bindings'[w][j] = bindings[w][j]
        BY <2>1, <3>2, <4>1, <4>2 DEF NoReplayWithoutReauthorization, IndInv
      <4>3. CASE bindings'[w][j] = b
        BY <1>1, <1>2, <1>3, <2>1, <3>2, <4>1, <4>3
      <4> QED
        BY <1>6, <3>2, <4>2, <4>3
    <3> QED
      BY <3>1, <3>2
  <2> QED
    BY <2>1 DEF NoReplayWithoutReauthorization
<1> QED
  BY <1>7, <1>11, <1>12, <1>13, <1>14, <1>15, <1>16 DEF IndInv

-----------------------------------------------------------------------------
(* The runtime under both.                                                 *)

\* A step that only loses bindings, and changes the runtime, keeps the invariant.
LEMMA LossKeeps ==
    ASSUME IndInv, UNCHANGED <<work, member, results>>,
           runtime' \in [driver : 1..MaxDriver, daemon : {"Active", "Draining", "Gone"}],
           bindings' = [x \in Work |-> bindings'[x]],
           \A x \in Work : /\ LostOrSame(x)
                           /\ bindings'[x] = [i \in DOMAIN bindings'[x] |-> bindings'[x][i]]
    PROVE  IndInv'
<1>1. TypeOK
  BY DEF IndInv
<1>2. \A x \in Work :
        /\ BindingsEvolve(x)
        /\ \A i \in DOMAIN bindings[x] : bindings'[x][i] \in Binding
        /\ \A i \in ActiveBindings(x)' :
             i \in ActiveBindings(x) /\ bindings'[x][i] = bindings[x][i]
  BY LostEvolves
<1>3. ASSUME NEW x \in Work
      PROVE  /\ bindings'[x] \in Seq(Binding) /\ Len(bindings'[x]) = Len(bindings[x])
             /\ DOMAIN bindings'[x] = DOMAIN bindings[x]
  <2>1. bindings[x] \in Seq(Binding) /\ DOMAIN bindings'[x] = DOMAIN bindings[x]
    BY <1>1, Numbers DEF LostOrSame
  <2> DEFINE z == bindings'[x]
  <2>2. /\ DOMAIN z = DOMAIN bindings[x] /\ z = [i \in DOMAIN z |-> z[i]]
        /\ \A i \in DOMAIN bindings[x] : z[i] \in Binding
    BY <1>2, <2>1
  <2> HIDE DEF z
  <2>3. z \in Seq(Binding) /\ Len(z) = Len(bindings[x])
    BY <2>1, <2>2, RewrittenSeq
  <2> QED
    BY <2>1, <2>3 DEF z
<1>4. bindings' \in [Work -> Seq(Binding)]
  BY <1>3
<1>5. TypeOK'
  <2>1. \A x \in Work : \A j \in DOMAIN bindings'[x] :
          bindings'[x][j].status = "Active" => j = Len(bindings'[x])
    BY <1>1, <1>2, <1>3 DEF BindingsEvolve, Evolves, TypeOK
  <2> QED
    BY <1>1, <1>3, <1>4, <2>1 DEF TypeOK
<1>6. \A x \in Work : Orderly(x) /\ AddsSoundResults(x) /\ AcceptsOnResult(x)
  BY <1>2, <1>3 DEF Orderly, Proceeds, AddsSoundResults, AcceptsOnResult, Accepted
<1>7. ASSUME NEW x \in Work PROVE ExecutesWhenReady(x)
  BY <1>2 DEF ExecutesWhenReady, Executing
<1>8. DependenciesAreAcyclic'
  BY DEF DependenciesAreAcyclic, IndInv
<1> QED
  BY <1>5, <1>6, <1>7, <1>8, StepKeeps

\* The bindings of a Work, rewritten to what a recovery or a settlement leaves.
LEMMA RewrittenBindings ==
    ASSUME IndInv, NEW x \in Work, NEW z, bindings'[x] = z,
           DOMAIN z = DOMAIN bindings[x], z = [i \in DOMAIN z |-> z[i]],
           \A i \in DOMAIN bindings[x] :
             \/ z[i] = bindings[x][i]
             \/ bindings[x][i].status = "Active" /\ z[i] = LostBinding(bindings[x][i])
    PROVE  LostOrSame(x) /\ bindings'[x] = [i \in DOMAIN bindings'[x] |-> bindings'[x][i]]
  BY DEF LostOrSame

\* A Work whose bindings are not written keeps them.
LEMMA SameBindings ==
    ASSUME IndInv, NEW x \in Work, bindings'[x] = bindings[x]
    PROVE  LostOrSame(x) /\ bindings'[x] = [i \in DOMAIN bindings'[x] |-> bindings'[x][i]]
<1>1. bindings[x] \in Seq(Binding)
  BY Numbers DEF IndInv
<1>2. bindings[x] = [i \in DOMAIN bindings[x] |-> bindings[x][i]]
  BY <1>1
<1> QED
  BY <1>2 DEF LostOrSame

\* What a settlement supersedes of a Work.
LEMMA SupersededForm ==
    ASSUME NEW x \in Work
    PROVE  /\ DOMAIN Superseded(x) = DOMAIN bindings[x]
           /\ Superseded(x) = [i \in DOMAIN Superseded(x) |-> Superseded(x)[i]]
           /\ \A i \in DOMAIN bindings[x] :
                \/ Superseded(x)[i] = bindings[x][i]
                \/ /\ bindings[x][i].status = "Active"
                   /\ Superseded(x)[i] = LostBinding(bindings[x][i])
  BY DEF Superseded, ActiveBindings

\* The settlement of a generation loses what the generation had claimed or
\* received of the active bindings, of all Works or, before a crash, of one.
LEMMA Settlement ==
    ASSUME IndInv, SettleGeneration \/ \E w \in Work : SettlementCrashes(w)
    PROVE  IndInv'
<1>1. TypeOK
  BY DEF IndInv
<1>2. runtime' \in [driver : 1..MaxDriver, daemon : {"Active", "Draining", "Gone"}]
        /\ UNCHANGED <<work, member, results>>
  BY <1>1 DEF SettleGeneration, SettlementCrashes, TypeOK
<1>3. CASE SettleGeneration
  <2>1. bindings' = [x \in Work |-> Superseded(x)]
    BY <1>3 DEF SettleGeneration
  <2>2. bindings' = [x \in Work |-> bindings'[x]] /\ \A x \in Work : bindings'[x] = Superseded(x)
    BY <2>1
  <2>3. \A x \in Work : LostOrSame(x) /\ bindings'[x] = [i \in DOMAIN bindings'[x] |-> bindings'[x][i]]
    BY <2>2, SupersededForm, RewrittenBindings
  <2> QED
    BY <1>2, <2>2, <2>3, LossKeeps
<1>4. ASSUME NEW w \in Work, SettlementCrashes(w) PROVE IndInv'
  <2>1. bindings' = [bindings EXCEPT ![w] = Superseded(w)] /\ bindings \in [Work -> Seq(Binding)]
    BY <1>1, <1>4 DEF SettlementCrashes, TypeOK
  <2>2. /\ bindings' = [x \in Work |-> bindings'[x]] /\ bindings'[w] = Superseded(w)
        /\ \A x \in Work \ {w} : bindings'[x] = bindings[x]
    BY <2>1
  <2>3. \A x \in Work : LostOrSame(x) /\ bindings'[x] = [i \in DOMAIN bindings'[x] |-> bindings'[x][i]]
    BY <2>2, SupersededForm, RewrittenBindings, SameBindings
  <2> QED
    BY <1>2, <2>2, <2>3, LossKeeps
<1> QED
  BY <1>3, <1>4

\* A recovery that crashed between its appends has released the binding only.
LEMMA RecoveryCrash ==
    ASSUME IndInv, NEW w \in Work, RecoveryCrashes(w)
    PROVE  IndInv'
<1>1. TypeOK
  BY DEF IndInv
<1>2. runtime' \in [driver : 1..MaxDriver, daemon : {"Active", "Draining", "Gone"}]
        /\ UNCHANGED <<work, member, results>>
  BY <1>1 DEF RecoveryCrashes, TypeOK
<1> DEFINE z == [i \in DOMAIN bindings[w] |->
                   IF i \in ActiveBindings(w) THEN LostBinding(bindings[w][i])
                   ELSE bindings[w][i]]
<1>3. bindings' = [bindings EXCEPT ![w] = z] /\ bindings \in [Work -> Seq(Binding)]
  BY <1>1 DEF RecoveryCrashes, LoseBinding, TypeOK
<1>4. /\ DOMAIN z = DOMAIN bindings[w] /\ z = [i \in DOMAIN z |-> z[i]]
      /\ \A i \in DOMAIN bindings[w] :
           \/ z[i] = bindings[w][i]
           \/ bindings[w][i].status = "Active" /\ z[i] = LostBinding(bindings[w][i])
  BY DEF ActiveBindings
<1> HIDE DEF z
<1>5. /\ bindings' = [x \in Work |-> bindings'[x]] /\ bindings'[w] = z
      /\ \A x \in Work \ {w} : bindings'[x] = bindings[x]
  BY <1>3
<1>6. \A x \in Work : LostOrSame(x) /\ bindings'[x] = [i \in DOMAIN bindings'[x] |-> bindings'[x][i]]
  BY <1>4, <1>5, RewrittenBindings, SameBindings
<1> QED
  BY <1>2, <1>5, <1>6, LossKeeps

\* A step of the runtime touches no Work, binding or Result.
LEMMA RuntimeOnly ==
    ASSUME IndInv, TypeOK', UNCHANGED <<work, bindings, results>>
    PROVE  IndInv'
  BY DEF IndInv, BindingIsBehind, ClaimedIsActive, PhaseFits, ResultsAreBehind,
       NoReplayWithoutReauthorization, ExecutionHasPrerequisites, DependenciesAreAcyclic,
       ResultKeepsItsReceipt, AcceptedOnItsOwnersResult, Normal, Accepted, Executing,
       ActiveBindings

\* The generations of a MemberRun.
LEMMA MemberCalls ==
    ASSUME IndInv, NEW m \in Member,
           \/ LatchClose(m) \/ StopForClose(m) \/ CompleteClose(m) \/ RuntimeEnds(m)
           \/ RuntimeResumes(m) \/ CloseEnded(m) \/ ReopenMember(m)
    PROVE  IndInv'
<1> DEFINE MemberRow == [generation : Nat, state : {"Live", "Down", "Closed"},
                         close : Nat, applied : BOOLEAN]
<1>1. UNCHANGED <<work, bindings, runtime, results>>
  BY DEF LatchClose, StopForClose, CompleteClose, RuntimeEnds, RuntimeResumes,
         CloseEnded, ReopenMember
<1>2. TypeOK /\ member \in [Member -> MemberRow]
  BY DEF IndInv, TypeOK
<1>3. member[m] \in MemberRow
  BY <1>2
<1>4. PICK row \in MemberRow : member' = [member EXCEPT ![m] = row]
  <2>1. CASE LatchClose(m)
    <3>1. [member[m] EXCEPT !.close = member[m].generation, !.applied = FALSE] \in MemberRow
      BY <1>3
    <3> QED
      BY <1>2, <2>1, <3>1 DEF LatchClose
  <2>2. CASE StopForClose(m)
    <3>1. [member[m] EXCEPT !.state = "Closed"] \in MemberRow
      BY <1>3
    <3> QED
      BY <2>2, <3>1 DEF StopForClose
  <2>3. CASE CompleteClose(m)
    <3>1. [member[m] EXCEPT !.applied = TRUE] \in MemberRow
      BY <1>3
    <3> QED
      BY <2>3, <3>1 DEF CompleteClose
  <2>4. CASE RuntimeEnds(m)
    <3>1. [member[m] EXCEPT !.state = "Down"] \in MemberRow
      BY <1>3
    <3> QED
      BY <2>4, <3>1 DEF RuntimeEnds
  <2>5. CASE RuntimeResumes(m)
    <3>1. [member[m] EXCEPT !.state = "Live"] \in MemberRow
      BY <1>3
    <3> QED
      BY <2>5, <3>1 DEF RuntimeResumes
  <2>6. CASE CloseEnded(m)
    <3>1. [member[m] EXCEPT !.state = "Closed", !.applied = TRUE] \in MemberRow
      BY <1>3
    <3> QED
      BY <1>2, <2>6, <3>1 DEF CloseEnded
  <2>7. CASE ReopenMember(m)
    <3>1. member[m].generation + 1 \in Nat
      BY <1>3
    <3>2. [member[m] EXCEPT !.generation = member[m].generation + 1, !.state = "Live"]
            \in MemberRow
      BY <1>3, <3>1
    <3> QED
      BY <1>2, <2>7, <3>2 DEF ReopenMember
  <2> QED
    BY <2>1, <2>2, <2>3, <2>4, <2>5, <2>6, <2>7
<1>5. TypeOK'
  <2>1. member' \in [Member -> MemberRow]
    BY <1>2, <1>4
  <2> QED
    BY <1>1, <1>2, <2>1 DEF TypeOK
<1> QED
  BY <1>1, <1>5, RuntimeOnly

\* The attachments of the sessions, and a step that changes nothing.
LEMMA DaemonCalls ==
    ASSUME IndInv, BeginDrain \/ Reattach \/ UNCHANGED vars
    PROVE  IndInv'
<1>1. UNCHANGED <<work, bindings, member, results>>
  BY DEF BeginDrain, Reattach, vars
<1>2. TypeOK
  BY DEF IndInv
<1>3. runtime' \in [driver : 1..MaxDriver, daemon : {"Active", "Draining", "Gone"}]
  <2>1. runtime \in [driver : 1..MaxDriver, daemon : {"Active", "Draining", "Gone"}]
    BY <1>2 DEF TypeOK
  <2>2. CASE BeginDrain
    BY <2>1, <2>2 DEF BeginDrain
  <2>3. CASE Reattach
    <3>1. MaxDriver \in Nat
      BY WorkAssumption DEF WorkAssumption
    <3>2. runtime.driver + 1 \in 1..MaxDriver
      BY <2>1, <2>3, <3>1 DEF Reattach
    <3> QED
      BY <2>3, <3>2 DEF Reattach
  <2>4. CASE UNCHANGED vars
    BY <2>1, <2>4 DEF vars
  <2> QED
    BY <2>2, <2>3, <2>4
<1>4. TypeOK'
  BY <1>1, <1>2, <1>3 DEF TypeOK
<1> QED
  BY <1>1, <1>4, RuntimeOnly

-----------------------------------------------------------------------------
(* The theorems.                                                           *)

\* The first state: no Work is inserted yet.
LEMMA InitIndInv == Init => IndInv
<1> SUFFICES ASSUME Init PROVE IndInv
  OBVIOUS
<1>1. \A w \in Work : /\ work[w] = [phase |-> "None", blocked |-> FALSE, resolution |-> "None",
                                   owner |-> NoOwner, prereqs |-> {}, version |-> 0,
                                   responsibility |-> 0, reauthorized |-> 0, moved |-> 0]
                     /\ bindings[w] = <<>> /\ results[w] = {}
  BY DEF Init
<1>2. /\ work \in [Work -> WorkRow] /\ results \in [Work -> SUBSET Result]
      /\ bindings \in [Work -> Seq(Binding)]
  BY DEF Init, WorkRow, Revision
<1>3. /\ member \in [Member -> [generation : Nat, state : {"Live", "Down", "Closed"},
                                close : Nat, applied : BOOLEAN]]
      /\ runtime \in [driver : 1..MaxDriver, daemon : {"Active", "Draining", "Gone"}]
  BY WorkAssumption DEF Init, WorkAssumption
<1>4. TypeOK
  <2>1. \A w \in Work : MaxVersion[w] \in Nat
    BY WorkAssumption DEF WorkAssumption
  <2> QED
    BY <1>1, <1>2, <1>3, <2>1 DEF TypeOK
<1>5. BindingIsBehind /\ ClaimedIsActive /\ PhaseFits /\ NoReplayWithoutReauthorization
  BY <1>1 DEF BindingIsBehind, ClaimedIsActive, PhaseFits, Accepted,
              NoReplayWithoutReauthorization
<1>6. ResultsAreBehind /\ ResultKeepsItsReceipt /\ AcceptedOnItsOwnersResult
  BY <1>1 DEF ResultsAreBehind, ResultKeepsItsReceipt, AcceptedOnItsOwnersResult, Accepted
<1>7. ExecutionHasPrerequisites
  BY <1>1 DEF ExecutionHasPrerequisites, Executing
<1>8. DependenciesAreAcyclic
  <2>1. \A w \in Work : work[w].prereqs = {}
    BY <1>1
  <2> QED
    BY <2>1 DEF DependenciesAreAcyclic
<1> QED
  BY <1>4, <1>5, <1>6, <1>7, <1>8 DEF IndInv

\* The actions of one Work, one by one, and then the rest of Next.
LEMMA NextKeeps == IndInv /\ [Next]_vars => IndInv'
<1> SUFFICES ASSUME IndInv, [Next]_vars PROVE IndInv'
  OBVIOUS
<1>1. ASSUME NEW w \in Work,
             \/ \E deps \in SUBSET Work :
                  InsertWork(w, deps) \/ ReplaceDependencies(w, deps)
             \/ \E m \in Member : AssignWork(w, m) \/ ClaimWork(w, m)
             \/ ReleaseWork(w)
             \/ StartWork(w) \/ BlockWork(w) \/ ResumeWork(w)
             \/ RequestChanges(w) \/ CancelWork(w) \/ RedeliverWork(w)
      PROVE  IndInv'
  BY <1>1, HostCalls
<1>2. ASSUME NEW w \in Work,
             \/ SubmitResult(w) \/ AcceptWork(w) \/ RefreshLinks(w)
             \/ RecoverLostExecution(w) \/ RecoveryCrashes(w) \/ BindExecution(w)
      PROVE  IndInv'
  BY <1>2, Submission, Acceptance, Refresh, Recovery, RecoveryCrash, Binds
<1>3. ASSUME NEW w \in Work,
             \/ ClaimDelivery(w) \/ ReceiveDelivery(w) \/ FailDelivery(w)
             \/ ReleaseStale(w) \/ ReleaseOwnBinding(w) \/ ReleaseForClose(w)
      PROVE  IndInv'
  BY <1>3, DeliveryCalls
<1>4. ASSUME NEW m \in Member,
             \/ LatchClose(m) \/ StopForClose(m) \/ CompleteClose(m) \/ RuntimeEnds(m)
             \/ RuntimeResumes(m) \/ CloseEnded(m) \/ ReopenMember(m)
      PROVE  IndInv'
  BY <1>4, MemberCalls
<1>5. CASE \/ BeginDrain \/ SettleGeneration \/ Reattach \/ UNCHANGED vars
           \/ \E w \in Work : SettlementCrashes(w)
  BY <1>5, Settlement, DaemonCalls
<1> QED
  BY <1>1, <1>2, <1>3, <1>4, <1>5 DEF Next

\* The invariant of every behaviour.
LEMMA IndInvHolds == Spec => []IndInv
  BY InitIndInv, NextKeeps, PTL DEF Spec

\* Every reachable state has the types that the model gives it: at most one
\* binding of a Work is active and it is the latest.
THEOREM TypeCorrect == Spec => []TypeOK
<1>1. IndInv => TypeOK
  BY DEF IndInv
<1> QED
  BY <1>1, IndInvHolds, PTL

\* No provider is handed a Work again after a receipt that nobody re-authorized
\* (provider_received_work_requires_host_reauthorization), whatever ended the
\* earlier binding and however late its receipt came.
THEOREM ReceivedWorkIsNotReplayed == Spec => []NoReplayWithoutReauthorization
<1>1. IndInv => NoReplayWithoutReauthorization
  BY DEF IndInv
<1> QED
  BY <1>1, IndInvHolds, PTL

\* Works execute, and are reviewed, with their prerequisites accepted
\* (require_work_ready_for_execution_unlocked and replace_work_dependencies).
THEOREM ExecutionIsReady == Spec => []ExecutionHasPrerequisites
<1>1. IndInv => ExecutionHasPrerequisites
  BY DEF IndInv
<1> QED
  BY <1>1, IndInvHolds, PTL

\* The dependencies never form a cycle (prepare_dependency_change).
THEOREM DependenciesStayAcyclic == Spec => []DependenciesAreAcyclic
<1>1. IndInv => DependenciesAreAcyclic
  BY DEF IndInv
<1> QED
  BY <1>1, IndInvHolds, PTL

\* A submitted Result keeps the receipt it rests on
\* (result_submission_released_binding_unlocked).
THEOREM ResultsKeepTheirReceipts == Spec => []ResultKeepsItsReceipt
<1>1. IndInv => ResultKeepsItsReceipt
  BY DEF IndInv
<1> QED
  BY <1>1, IndInvHolds, PTL

\* A Work is accepted on a Result of its owner that no reassignment, request for
\* changes or recovery has outdated (current_result_report_unlocked).
THEOREM AcceptanceIsOnTheOwnersResult == Spec => []AcceptedOnItsOwnersResult
<1>1. IndInv => AcceptedOnItsOwnersResult
  BY DEF IndInv
<1> QED
  BY <1>1, IndInvHolds, PTL

-----------------------------------------------------------------------------
(* An unsettled claim holds its Work.                                      *)

\* A call that writes one Work leaves the others.
LEMMA OthersStay ==
    ASSUME TypeOK, NEW w \in Work, NEW x \in Work, NEW row, Advance(x, row), x # w
    PROVE  work'[w] = work[w]
  BY DEF Advance, TypeOK

\* The Work of an unsettled claim on its revision is as the claim found it.
LEMMA ClaimFacts ==
    ASSUME IndInv, NEW w \in Work, NEW i \in DOMAIN bindings[w],
           bindings[w][i].delivery = "Claimed", bindings[w][i].revision = work[w].version
    PROVE  /\ work[w].phase = "Open" /\ ~work[w].blocked /\ Owned(w)
           /\ ActiveBindings(w) = {i} /\ CurrentDelivery(w, {"Claimed"})
           /\ ~Reassignable(w) /\ ~HoldsResponsibility(w)
<1>1. bindings[w][i].status = "Active"
  BY DEF IndInv, ClaimedIsActive
<1>2. \A j \in DOMAIN bindings[w] : bindings[w][j].status = "Active" => j = i
  BY <1>1, Numbers DEF IndInv
<1>3. ActiveBindings(w) = {i}
  BY <1>1, <1>2 DEF ActiveBindings
<1>4. /\ work[w].phase = "Open" /\ ~work[w].blocked
      /\ work[w].owner = bindings[w][i].member
  BY DEF IndInv, BindingIsBehind, Normal
<1>5. Owned(w)
  <2>1. bindings[w][i] \in Binding
    BY Numbers DEF IndInv
  <2>2. bindings[w][i].member \in Member
    BY <2>1 DEF Binding
  <2> QED
    BY <1>4, <2>2, WorkAssumption DEF Owned, WorkAssumption
<1>6. CurrentDelivery(w, {"Claimed"}) /\ ~Reassignable(w)
  BY DEF CurrentDelivery, Reassignable
<1>7. ~HoldsResponsibility(w)
  BY <1>3 DEF HoldsResponsibility
<1> QED
  BY <1>3, <1>4, <1>5, <1>6, <1>7

\* Whatever moves the Work settles the claim.
LEMMA MoveSettles ==
    ASSUME IndInv, Next, NEW w \in Work, NEW i \in DOMAIN bindings[w],
           bindings[w][i].delivery = "Claimed", bindings[w][i].revision = work[w].version,
           work'[w].moved # work[w].moved
    PROVE  bindings'[w][i].delivery # "Claimed"
<1>1. /\ work[w].phase = "Open" /\ ~work[w].blocked /\ Owned(w)
      /\ ActiveBindings(w) = {i} /\ CurrentDelivery(w, {"Claimed"})
      /\ ~Reassignable(w) /\ ~HoldsResponsibility(w)
  BY ClaimFacts
<1>2. TypeOK /\ work[w] \in WorkRow
  BY DEF IndInv, TypeOK
<1>3. ASSUME NEW x \in Work, NEW row, Advance(x, row) PROVE x = w
  BY <1>2, <1>3, OthersStay
<1>4. ASSUME NEW x \in Work, NEW deps \in SUBSET Work,
             InsertWork(x, deps) \/ ReplaceDependencies(x, deps)
      PROVE  FALSE
  <2>1. x = w
    BY <1>3, <1>4 DEF InsertWork, ReplaceDependencies
  <2> QED
    BY <1>1, <1>4, <2>1 DEF InsertWork, ReplaceDependencies
<1>5. ASSUME NEW x \in Work, NEW m \in Member, AssignWork(x, m) \/ ClaimWork(x, m)
      PROVE  FALSE
  <2>1. x = w
    BY <1>3, <1>5 DEF AssignWork, ClaimWork
  <2> QED
    BY <1>1, <1>5, <2>1 DEF AssignWork, ClaimWork
<1>6. ASSUME NEW x \in Work,
             \/ ReleaseWork(x) \/ StartWork(x) \/ BlockWork(x) \/ ResumeWork(x)
             \/ SubmitResult(x) \/ RequestChanges(x) \/ AcceptWork(x)
             \/ CancelWork(x) \/ RedeliverWork(x)
      PROVE  FALSE
  <2>1. x = w
    BY <1>3, <1>6 DEF ReleaseWork, StartWork, BlockWork, ResumeWork, SubmitResult,
         RequestChanges, AcceptWork, CancelWork, RedeliverWork
  <2> QED
    BY <1>1, <1>6, <2>1 DEF ReleaseWork, StartWork, BlockWork, ResumeWork, SubmitResult,
         RequestChanges, AcceptWork, CancelWork, RedeliverWork, Normal
<1>7. ASSUME NEW x \in Work, RefreshLinks(x) PROVE FALSE
  <2>1. x = w
    BY <1>3, <1>7 DEF RefreshLinks
  <2>2. work'[w] = [work[w] EXCEPT !.version = @ + 1]
    BY <1>2, <1>7, <2>1 DEF RefreshLinks, Advance, TypeOK
  <2> QED
    BY <1>2, <2>2 DEF WorkRow
<1>8. ASSUME NEW x \in Work, RecoverLostExecution(x)
      PROVE  bindings'[w][i].delivery # "Claimed"
  <2>1. x = w
    BY <1>3, <1>8 DEF RecoverLostExecution
  <2>2. bindings'[w][i] = LostBinding(bindings[w][i])
    BY <1>1, <1>2, <1>8, <2>1 DEF RecoverLostExecution, LoseBinding, TypeOK
  <2>3. bindings[w][i] \in Binding
    BY <1>2, Numbers
  <2> QED
    BY <2>2, <2>3 DEF LostBinding, Binding
<1>9. work' # work
  OBVIOUS
<1>10. ASSUME NEW x \in Work,
              \/ BindExecution(x) \/ ClaimDelivery(x) \/ ReceiveDelivery(x)
              \/ FailDelivery(x) \/ ReleaseStale(x) \/ ReleaseOwnBinding(x)
              \/ ReleaseForClose(x) \/ RecoveryCrashes(x) \/ SettlementCrashes(x)
       PROVE  FALSE
  BY <1>9, <1>10 DEF BindExecution, ClaimDelivery, ReceiveDelivery, FailDelivery,
       ReleaseStale, ReleaseOwnBinding, ReleaseForClose, RecoveryCrashes,
       SettlementCrashes
<1>11. ASSUME NEW m \in Member,
              \/ LatchClose(m) \/ StopForClose(m) \/ CompleteClose(m) \/ RuntimeEnds(m)
              \/ RuntimeResumes(m) \/ CloseEnded(m) \/ ReopenMember(m)
       PROVE  FALSE
  BY <1>9, <1>11 DEF LatchClose, StopForClose, CompleteClose, RuntimeEnds,
       RuntimeResumes, CloseEnded, ReopenMember
<1>12. ~(BeginDrain \/ SettleGeneration \/ Reattach)
  BY <1>9 DEF BeginDrain, SettleGeneration, Reattach
<1> QED
  BY <1>4, <1>5, <1>6, <1>7, <1>8, <1>10, <1>11, <1>12 DEF Next

\* While a claim is unsettled nothing but a refresh of the links moves its Work,
\* unless the step settles the claim (RECONCILIATION_REQUIRED and its like).
THEOREM UnsettledClaimsHold == Spec => UnsettledClaimHoldsTheWork
<1> DEFINE Settles ==
      \A w \in Work : \A i \in DOMAIN bindings[w] :
         (/\ bindings[w][i].delivery = "Claimed"
          /\ bindings[w][i].revision = work[w].version
          /\ work'[w].moved # work[w].moved)
             => bindings'[w][i].delivery # "Claimed"
<1>1. IndInv /\ [Next]_vars => [Settles]_vars
  BY MoveSettles
<1>2. UnsettledClaimHoldsTheWork <=> [][Settles]_vars
  BY DEF UnsettledClaimHoldsTheWork
<1> HIDE DEF Settles
<1> QED
  BY <1>1, <1>2, IndInvHolds, PTL DEF Spec

=============================================================================
