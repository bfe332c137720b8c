---------------------------- MODULE FabricProofs ----------------------------
(***************************************************************************)
(* The Remote Node Fabric keeps one route truth, for every number of       *)
(* nodes, operations and generations: an application runs at most once,    *)
(* in the order of its key, and what the Control Plane and the source      *)
(* write down is what it did.  Fabric implements RouteTruth step by step.  *)
(***************************************************************************)
EXTENDS Fabric, TLAPS, SequenceTheorems, FiniteSetTheorems

-----------------------------------------------------------------------------
(* What the steps are made of.                                             *)

\* The constants, in the form the proofs use them.
LEMMA Constants ==
    /\ NumOps \in Nat /\ MaxGateway \in Nat /\ MaxControlPlane \in Nat /\ MaxQueue \in Nat
    /\ MaxGateway >= 1 /\ MaxControlPlane >= 1 /\ MaxQueue >= 1
    /\ Op \subseteq Nat /\ IsFiniteSet(Op) /\ NoOp \notin Op
    /\ Gateway \subseteq Nat /\ \A g \in Gateway : g >= 1 /\ g <= MaxGateway
    /\ \A o \in Op : TargetOf[o] \in Node /\ KeyOf[o] \in Key
    /\ \A o, q \in Op : KeyOf[o] = KeyOf[q] => TargetOf[o] = TargetOf[q]
<1>1. /\ NumOps \in Nat /\ MaxGateway \in Nat /\ MaxControlPlane \in Nat /\ MaxQueue \in Nat
      /\ MaxGateway >= 1 /\ MaxControlPlane >= 1 /\ MaxQueue >= 1
  BY FabricAssumption DEF FabricAssumption
<1>2. IsFiniteSet(Op)
  BY <1>1, FS_Interval DEF Op
<1>3. Op \subseteq Nat /\ Gateway \subseteq Nat
      /\ \A g \in Gateway : g >= 1 /\ g <= MaxGateway
  BY <1>1 DEF Op, Gateway
<1>4. /\ NoOp \notin Op /\ \A o \in Op : TargetOf[o] \in Node
      /\ \A o, q \in Op : KeyOf[o] = KeyOf[q] => TargetOf[o] = TargetOf[q]
  BY FabricAssumption DEF FabricAssumption
<1>5. \A o \in Op : KeyOf[o] \in Key
  BY DEF Key
<1> QED
  BY <1>1, <1>2, <1>3, <1>4, <1>5

\* The sessions other than that of n and g are left alone.
OthersKeep(n, g) ==
    \A m \in Node, h \in Gateway :
        m # n \/ h # g => session'[m][h] = session[m][h]

\* Writing one session.
LEMMA SessionWrite ==
    ASSUME session \in [Node -> [Gateway -> Session]], NEW n \in Node, NEW g \in Gateway,
           NEW s \in Session, session' = [session EXCEPT ![n][g] = s]
    PROVE  /\ session' \in [Node -> [Gateway -> Session]]
           /\ session'[n][g] = s /\ OthersKeep(n, g)
<1>1. session[n] \in [Gateway -> Session]
  OBVIOUS
<1> DEFINE f == [session[n] EXCEPT ![g] = s]
<1>2. f \in [Gateway -> Session] /\ f[g] = s /\ \A h \in Gateway \ {g} : f[h] = session[n][h]
  BY <1>1
<1>3. session' = [session EXCEPT ![n] = f]
  OBVIOUS
<1> HIDE DEF f
<1>4. /\ session' \in [Node -> [Gateway -> Session]] /\ session'[n] = f
      /\ \A m \in Node \ {n} : session'[m] = session[m]
  BY <1>2, <1>3
<1> QED
  BY <1>2, <1>4 DEF OthersKeep

\* Where a gateway goes, with what in hand.
SessionGoes(n, g, at, op, effect, reply) ==
    /\ session' \in [Node -> [Gateway -> Session]]
    /\ OthersKeep(n, g)
    /\ session'[n][g].at = at /\ session'[n][g].op = op
    /\ session'[n][g].effect = effect /\ session'[n][g].reply = reply
    /\ session'[n][g].cp = session[n][g].cp

\* The three ways in which a step writes its session.
LEMMA SessionSteps ==
    ASSUME session \in [Node -> [Gateway -> Session]], NEW n \in Node, NEW g \in Gateway
    PROVE  LET s == session[n][g] IN
           /\ \A at \in {"idle", "persisting", "expiring", "persisted", "claimed",
                         "reporting", "submitting"} :
                Goes(n, g, at) => SessionGoes(n, g, at, s.op, s.effect, s.reply)
           /\ session' = Rests(n, g) => SessionGoes(n, g, "idle", NoOp, "None", "None")
           /\ session' = [session EXCEPT ![n][g] = [@ EXCEPT !.at = "gone", !.op = NoOp,
                                               !.effect = "None", !.reply = "None"]] =>
                SessionGoes(n, g, "gone", NoOp, "None", "None")
           /\ \A o \in Op : \A r \in Kind \cup {"None"} :
                session' = [session EXCEPT ![n][g].at = "answered", ![n][g].op = o,
                                           ![n][g].reply = r] =>
                  SessionGoes(n, g, "answered", o, s.effect, r)
           /\ \A r \in Kind \cup {"None"} :
                session' = [session EXCEPT ![n][g].at = "answered", ![n][g].reply = r] =>
                  SessionGoes(n, g, "answered", s.op, s.effect, r)
           /\ \A o \in Op :
                session' = [session EXCEPT ![n][g].at = "delivered", ![n][g].op = o] =>
                  SessionGoes(n, g, "delivered", o, s.effect, s.reply)
           /\ \A e \in Effect :
                session' = [session EXCEPT ![n][g].at = "applied", ![n][g].effect = e] =>
                  SessionGoes(n, g, "applied", s.op, e, s.reply)
<1> DEFINE s == session[n][g]
<1>1. s \in Session
  OBVIOUS
<1>2. ASSUME NEW t \in Session, t.cp = s.cp, session' = [session EXCEPT ![n][g] = t]
      PROVE  SessionGoes(n, g, t.at, t.op, t.effect, t.reply)
  BY <1>2, SessionWrite DEF SessionGoes
<1>3. ASSUME NEW at \in {"idle", "persisting", "expiring", "persisted", "claimed",
                         "reporting", "submitting"}, Goes(n, g, at)
      PROVE  SessionGoes(n, g, at, s.op, s.effect, s.reply)
  <2> DEFINE t == [s EXCEPT !.at = at]
  <2>1. /\ t \in Session /\ t.cp = s.cp /\ t.at = at /\ t.op = s.op
        /\ t.effect = s.effect /\ t.reply = s.reply
    BY <1>1 DEF Session
  <2>2. session' = [session EXCEPT ![n][g] = t]
    BY <1>3 DEF Goes
  <2> HIDE DEF t, s
  <2> QED
    BY <1>2, <2>1, <2>2
<1>4. ASSUME NEW at \in {"idle", "gone"},
             session' = [session EXCEPT ![n][g] = [@ EXCEPT !.at = at, !.op = NoOp,
                                               !.effect = "None", !.reply = "None"]]
      PROVE  SessionGoes(n, g, at, NoOp, "None", "None")
  <2> DEFINE t == [s EXCEPT !.at = at, !.op = NoOp, !.effect = "None", !.reply = "None"]
  <2>1. /\ t \in Session /\ t.cp = s.cp /\ t.at = at /\ t.op = NoOp
        /\ t.effect = "None" /\ t.reply = "None"
    BY <1>1 DEF Session
  <2>2. session' = [session EXCEPT ![n][g] = t]
    BY <1>4
  <2> HIDE DEF t, s
  <2> QED
    BY <1>2, <2>1, <2>2
<1>5. ASSUME NEW o \in Op, NEW r \in Kind \cup {"None"},
             session' = [session EXCEPT ![n][g].at = "answered", ![n][g].op = o,
                                        ![n][g].reply = r]
      PROVE  SessionGoes(n, g, "answered", o, s.effect, r)
  <2> DEFINE t == [s EXCEPT !.at = "answered", !.op = o, !.reply = r]
  <2>1. /\ t \in Session /\ t.cp = s.cp /\ t.at = "answered" /\ t.op = o
        /\ t.effect = s.effect /\ t.reply = r
    BY <1>1 DEF Session
  <2>2. session' = [session EXCEPT ![n][g] = t]
    BY <1>5
  <2> HIDE DEF t, s
  <2> QED
    BY <1>2, <2>1, <2>2
<1>6. ASSUME NEW r \in Kind \cup {"None"},
             session' = [session EXCEPT ![n][g].at = "answered", ![n][g].reply = r]
      PROVE  SessionGoes(n, g, "answered", s.op, s.effect, r)
  <2> DEFINE t == [s EXCEPT !.at = "answered", !.reply = r]
  <2>1. /\ t \in Session /\ t.cp = s.cp /\ t.at = "answered" /\ t.op = s.op
        /\ t.effect = s.effect /\ t.reply = r
    BY <1>1 DEF Session
  <2>2. session' = [session EXCEPT ![n][g] = t]
    BY <1>6
  <2> HIDE DEF t, s
  <2> QED
    BY <1>2, <2>1, <2>2
<1>7. ASSUME NEW o \in Op,
             session' = [session EXCEPT ![n][g].at = "delivered", ![n][g].op = o]
      PROVE  SessionGoes(n, g, "delivered", o, s.effect, s.reply)
  <2> DEFINE t == [s EXCEPT !.at = "delivered", !.op = o]
  <2>1. /\ t \in Session /\ t.cp = s.cp /\ t.at = "delivered" /\ t.op = o
        /\ t.effect = s.effect /\ t.reply = s.reply
    BY <1>1 DEF Session
  <2>2. session' = [session EXCEPT ![n][g] = t]
    BY <1>7
  <2> HIDE DEF t, s
  <2> QED
    BY <1>2, <2>1, <2>2
<1>8. ASSUME NEW e \in Effect,
             session' = [session EXCEPT ![n][g].at = "applied", ![n][g].effect = e]
      PROVE  SessionGoes(n, g, "applied", s.op, e, s.reply)
  <2> DEFINE t == [s EXCEPT !.at = "applied", !.effect = e]
  <2>1. /\ t \in Session /\ t.cp = s.cp /\ t.at = "applied" /\ t.op = s.op
        /\ t.effect = e /\ t.reply = s.reply
    BY <1>1 DEF Session
  <2>2. session' = [session EXCEPT ![n][g] = t]
    BY <1>8
  <2> HIDE DEF t, s
  <2> QED
    BY <1>2, <2>1, <2>2
<1>9. session' = Rests(n, g) => SessionGoes(n, g, "idle", NoOp, "None", "None")
  BY <1>4 DEF Rests
<1> QED
  BY <1>3, <1>4, <1>5, <1>6, <1>7, <1>8, <1>9

\* The latest attempt of a route ends or is persisted; the others stay.
LEMMA MovedRoute ==
    ASSUME NEW atts \in Seq(Attempt), atts # <<>>, WellRouted(atts),
           NEW st \in {"TargetPersisted", "Ended"}
    PROVE  LET z == Moved(atts, st) IN
           /\ z \in Seq(Attempt) /\ z # <<>> /\ Len(z) = Len(atts) /\ Len(z) >= 1
           /\ WellRouted(z) /\ z[Len(z)].state = st
           /\ z[Len(z)].ord = atts[Len(atts)].ord /\ z[Len(z)].gw = atts[Len(atts)].gw
<1>1. /\ Len(atts) \in Nat /\ DOMAIN atts = 1..Len(atts) /\ Len(atts) # 0
  BY LenProperties, EmptySeq
<1> DEFINE k == Len(atts)
           b == [atts[k] EXCEPT !.state = st]
           z == [atts EXCEPT ![k] = b]
<1>2. k \in 1..k /\ atts[k] \in Attempt
  BY <1>1, ElementOfSeq
<1>3. b \in Attempt /\ b.state = st /\ b.ord = atts[k].ord /\ b.gw = atts[k].gw
  BY <1>2 DEF Attempt
<1>4. /\ z \in Seq(Attempt) /\ Len(z) = k /\ z[k] = b
      /\ \A i \in 1..k : i # k => z[i] = atts[i]
  <2> HIDE DEF b, k
  <2>1. DOMAIN atts = 1..k /\ k \in 1..Len(atts) /\ Len(atts) = k
    BY <1>1, <1>2 DEF k
  <2> QED
    BY <1>3, <2>1, ExceptSeq
<1> HIDE DEF b
<1>5. Moved(atts, st) = z
  BY DEF Moved, b
<1> HIDE DEF z
<1>6. z # <<>>
  BY <1>1, <1>4, EmptySeq
<1>7. WellRouted(z)
  BY <1>1, <1>3, <1>4 DEF WellRouted
<1>8. /\ Len(z) = Len(atts) /\ Len(z) >= 1 /\ z[Len(z)].state = st
      /\ z[Len(z)].ord = atts[Len(atts)].ord /\ z[Len(z)].gw = atts[Len(atts)].gw
  <2>1. k \in Nat /\ k # 0 /\ Len(z) = k
    BY <1>1, <1>4
  <2>2. z[k].state = st /\ z[k].ord = atts[k].ord /\ z[k].gw = atts[k].gw
    BY <1>3, <1>4
  <2>3. Len(atts) = k
    OBVIOUS
  <2> HIDE DEF k
  <2> QED
    BY <2>1, <2>2, <2>3
<1> QED
  BY <1>4, <1>5, <1>6, <1>7, <1>8

\* A further attempt in the same place, after the latest has ended.
LEMMA RetriedRoute ==
    ASSUME NEW atts \in Seq(Attempt), atts # <<>>, WellRouted(atts),
           NEW b \in Attempt, b.ord = atts[Len(atts)].ord
    PROVE  LET z == Append(Moved(atts, "Ended"), b) IN
           /\ z \in Seq(Attempt) /\ z # <<>> /\ WellRouted(z)
           /\ z[Len(z)] = b
<1> DEFINE y == Moved(atts, "Ended")
           z == Append(y, b)
<1>1. /\ y \in Seq(Attempt) /\ Len(y) = Len(atts) /\ Len(y) >= 1 /\ WellRouted(y)
      /\ y[Len(y)].state = "Ended" /\ y[Len(y)].ord = atts[Len(atts)].ord
  BY MovedRoute
<1> HIDE DEF y
<1>2. /\ z \in Seq(Attempt) /\ Len(z) = Len(y) + 1 /\ z[Len(y) + 1] = b
      /\ \A i \in 1..Len(y) : z[i] = y[i]
  BY <1>1, AppendProperties
<1>3. Len(y) \in Nat
  BY <1>1, LenProperties
<1> HIDE DEF z
<1>4. z # <<>>
  BY <1>2, <1>3, EmptySeq
<1>5. WellRouted(z)
  BY <1>1, <1>2, <1>3 DEF WellRouted
<1> QED
  BY <1>2, <1>4, <1>5 DEF y, z

-----------------------------------------------------------------------------
(* Parts of the invariant, and what keeps each of them.                    *)

\* A gateway that steps stays one, and a store follows only a newer gateway.
LEMMA KeepsSuccession ==
    ASSUME IndInv, UNCHANGED <<cpGen, lease>>, NEW n \in Node, NEW g \in Gateway,
           OthersKeep(n, g), session'[n][g].cp = session[n][g].cp,
           session[n][g].at # "none", session'[n][g].at # "none",
           active' = active \/ active' = [active EXCEPT ![n] = g]
    PROVE  SessionsSucceed'
<1>1. \A m \in Node : active[m] \in 0..MaxGateway
  BY DEF IndInv, TypeOK
<1>2. \A m \in Node, h \in Gateway :
        /\ session'[m][h].cp = session[m][h].cp
        /\ session'[m][h].at # "none" <=> session[m][h].at # "none"
  BY DEF OthersKeep
<1>3. ASSUME NEW m \in Node, active'[m] # 0
      PROVE  session'[m][active'[m]].at # "none"
  <2>1. CASE active' = active
    <3>1. active[m] \in Gateway
      BY <1>1, <1>3, <2>1, Constants DEF Gateway
    <3> QED
      BY <1>2, <1>3, <2>1, <3>1 DEF IndInv, SessionsSucceed
  <2>2. CASE active' = [active EXCEPT ![n] = g] /\ m = n
    BY <2>2 DEF IndInv, TypeOK
  <2>3. CASE active' = [active EXCEPT ![n] = g] /\ m # n
    <3>1. active'[m] = active[m]
      BY <2>3 DEF IndInv, TypeOK
    <3>2. active[m] \in Gateway
      BY <1>1, <1>3, <3>1, Constants DEF Gateway
    <3> QED
      BY <1>2, <1>3, <3>1, <3>2 DEF IndInv, SessionsSucceed
  <2> QED
    BY <2>1, <2>2, <2>3
<1> QED
  BY <1>2, <1>3 DEF IndInv, SessionsSucceed

\* The step leaves alone what the gateway of m and h has in hand.
Undisturbed(m, h) ==
    LET s == session[m][h] IN
    /\ session'[m][h] = s
    /\ s.at \in {"persisting", "persisted", "claimed", "applied", "reporting"} =>
         inbox'[s.op] = inbox[s.op]
    /\ s.at \in {"persisted", "claimed", "applied", "reporting"} =>
         native'[s.op] = native[s.op] /\ (HasVerdict(s.op)' => HasVerdict(s.op))

\* It does so with every gateway but one, whose hand the step answers for.
LEMMA KeepsHands ==
    ASSUME IndInv, receipts \subseteq receipts', NEW n \in Node, NEW g \in Gateway,
           InHand(n, g)',
           \A m \in Node, h \in Gateway : m # n \/ h # g => Undisturbed(m, h)
    PROVE  \A m \in Node, h \in Gateway : InHand(m, h)'
<1> SUFFICES ASSUME NEW m \in Node, NEW h \in Gateway, m # n \/ h # g
             PROVE  InHand(m, h)'
  OBVIOUS
<1>1. Undisturbed(m, h) /\ InHand(m, h)
  BY DEF IndInv
<1>2. \A o \in Op : HasReceipt(o, {"TargetPersisted"}) => HasReceipt(o, {"TargetPersisted"})'
  BY DEF HasReceipt
<1> QED
  BY <1>1, <1>2 DEF InHand, Undisturbed, ClaimedOrLater

\* Nothing was accepted, and the gateway that steps does not ask about anything
\* that was.
LEMMA KeepsUnheard ==
    ASSUME IndInv, UNCHANGED <<cpGen, lease>>, NEW n \in Node, NEW g \in Gateway,
           OthersKeep(n, g), session'[n][g].cp = session[n][g].cp,
           \A o \in Op : Accepted(o)' => Accepted(o),
           session'[n][g].op \in Op \cup {NoOp},
           (/\ CurrentGateway(n, g)
            /\ \/ session'[n][g].at = "submitting"
               \/ session'[n][g].at = "answered" /\ session'[n][g].reply = "None")
              => session'[n][g].op \in Op /\ ~Accepted(session'[n][g].op)
    PROVE  \A m \in Node, h \in Gateway : UnheardIsNew(m, h)'
<1> SUFFICES ASSUME NEW m \in Node, NEW h \in Gateway PROVE UnheardIsNew(m, h)'
  OBVIOUS
<1>1. CASE m = n /\ h = g
  BY <1>1 DEF UnheardIsNew, CurrentGateway, At
<1>2. CASE m # n \/ h # g
  <2>1. session'[m][h] = session[m][h] /\ UnheardIsNew(m, h) /\ InHand(m, h)
    BY <1>2 DEF OthersKeep, IndInv
  <2> QED
    BY <2>1 DEF UnheardIsNew, CurrentGateway, At, InHand
<1> QED
  BY <1>1, <1>2

\* Receipts stay, so what a source was told stays true.
LEMMA KeepsTold ==
    ASSUME IndInv, receipts \subseteq receipts', NEW n \in Node, NEW g \in Gateway,
           OthersKeep(n, g),
           session'[n][g].at = "answered" /\ session'[n][g].reply \in Terminal =>
               HasReceipt(session'[n][g].op, {session'[n][g].reply}),
           \A o \in Op : outbox'[o].truth \in Terminal =>
               HasReceipt(o, {outbox'[o].truth})
    PROVE  SourceIsTold'
<1>1. \A o \in Op : outbox'[o].truth \in Terminal =>
        \E r \in receipts' : r.op = o /\ r.kind = outbox'[o].truth
  BY DEF HasReceipt
<1>2. ASSUME NEW m \in Node, NEW h \in Gateway,
             session'[m][h].at = "answered", session'[m][h].reply \in Terminal
      PROVE  \E r \in receipts' : r.op = session'[m][h].op /\ r.kind = session'[m][h].reply
  <2>1. CASE m = n /\ h = g
    BY <1>2, <2>1 DEF HasReceipt
  <2>2. CASE m # n \/ h # g
    <3>1. session'[m][h] = session[m][h]
      BY <2>2 DEF OthersKeep
    <3>2. HasReceipt(session[m][h].op, {session[m][h].reply})
      BY <1>2, <3>1 DEF IndInv, SourceIsTold, At
    <3> QED
      BY <3>1, <3>2 DEF HasReceipt
  <2> QED
    BY <2>1, <2>2
<1> QED
  BY <1>1, <1>2 DEF SourceIsTold, HasReceipt, At

\* Places stay, the inbox holds what it held, and no gateway goes back to an
\* operation that it has not claimed.
LEMMA KeepsOrder ==
    ASSUME IndInv,
           \A o \in Op : Accepted(o) => Accepted(o)' /\ OrdOf(o)' = OrdOf(o),
           \A o \in Op : /\ inbox'[o].gw = inbox[o].gw
                         /\ inbox'[o].state = "Absent" <=> inbox[o].state = "Absent",
           consumed' \in [Key -> Nat], \A k \in Key : consumed[k] <= consumed'[k],
           active' \in [Node -> 0..MaxGateway], \A m \in Node : active[m] <= active'[m],
           \A m \in Node, h \in Gateway :
               session'[m][h].at \in {"persisting", "persisted"} =>
                   /\ session[m][h].at \in {"persisting", "persisted"}
                   /\ session'[m][h].op = session[m][h].op
    PROVE  \A o \in Op : InboxKeepsOrder(o)'
<1> SUFFICES ASSUME NEW o \in Op, inbox[o].state # "Absent" PROVE InboxKeepsOrder(o)'
  BY DEF InboxKeepsOrder
<1>1. InboxKeepsOrder(o)
  BY DEF IndInv
<1>2. TargetOf[o] \in Node /\ KeyOf[o] \in Key
  BY Constants
<1>3. Accepted(o)' /\ OrdOf(o)' = OrdOf(o) /\ OrdOf(o) \in Nat
  <2>1. route[o] \in Seq(Attempt) /\ route[o] # <<>>
    BY <1>1 DEF IndInv, TypeOK, InboxKeepsOrder, Accepted
  <2>2. Len(route[o]) \in 1..Len(route[o])
    BY <2>1, LenProperties, EmptySeq
  <2>3. Latest(o) \in Attempt
    BY <2>1, <2>2, ElementOfSeq DEF Latest
  <2> QED
    BY <1>1, <2>3 DEF InboxKeepsOrder, OrdOf, Attempt
<1>4. OrdOf(o)' <= consumed'[KeyOf[o]]
  <2>1. OrdOf(o) <= consumed[KeyOf[o]] /\ consumed[KeyOf[o]] <= consumed'[KeyOf[o]]
    BY <1>1, <1>2 DEF InboxKeepsOrder
  <2>2. consumed[KeyOf[o]] \in Nat /\ consumed'[KeyOf[o]] \in Nat
    BY <1>2 DEF IndInv, TypeOK
  <2> QED
    BY <1>3, <2>1, <2>2
<1>5. inbox'[o].gw \in Gateway /\ inbox'[o].gw <= active'[TargetOf[o]]
  <2>1. /\ inbox[o].gw \in Gateway /\ inbox[o].gw <= active[TargetOf[o]]
        /\ active[TargetOf[o]] <= active'[TargetOf[o]]
    BY <1>1, <1>2 DEF InboxKeepsOrder
  <2>2. /\ active[TargetOf[o]] \in Nat /\ active'[TargetOf[o]] \in Nat
        /\ inbox[o].gw \in Nat
    BY <1>2, <2>1, Constants DEF IndInv, TypeOK
  <2> QED
    BY <2>1, <2>2
<1>6. ASSUME NEW q \in Op, inbox'[q].state # "Absent", KeyOf[q] = KeyOf[o],
             OrdOf(o)' < OrdOf(q)'
      PROVE  /\ inbox'[o].gw <= inbox'[q].gw
             /\ inbox'[o].gw = inbox'[q].gw =>
                  LET s == session'[TargetOf[o]][inbox'[o].gw] IN
                  ~(s.at \in {"persisting", "persisted"} /\ s.op = o)
  <2>1. inbox[q].state # "Absent" /\ InboxKeepsOrder(q)
    BY <1>6 DEF IndInv
  <2>2. OrdOf(q)' = OrdOf(q)
    BY <2>1 DEF InboxKeepsOrder
  <2>3. /\ inbox[o].gw <= inbox[q].gw
        /\ inbox[o].gw = inbox[q].gw =>
             LET s == session[TargetOf[o]][inbox[o].gw] IN
             ~(s.at \in {"persisting", "persisted"} /\ s.op = o)
    BY <1>1, <1>3, <1>6, <2>1, <2>2 DEF InboxKeepsOrder
  <2>4. inbox[o].gw \in Gateway
    BY <1>1 DEF InboxKeepsOrder
  <2> QED
    BY <1>2, <2>3, <2>4
<1> QED
  BY <1>3, <1>4, <1>5, <1>6 DEF InboxKeepsOrder

\* A step of a node leaves the Control Plane's part of the invariant.
LEMMA KeepsRoutes ==
    ASSUME IndInv, UNCHANGED cpVars
    PROVE  /\ \A o \in Op : PersistedStaysPersisted(o)' /\ WellRouted(route'[o])
                            /\ HasItsPlace(o)' /\ Accepted(o)' = Accepted(o)
                            /\ OrdOf(o)' = OrdOf(o)
           /\ \A n \in Node : Cardinality(InQueue(n))' <= MaxQueue
           /\ receipts' = receipts /\ cpGen' = cpGen /\ lease' = lease
<1>1. UNCHANGED <<cpGen, lease, route, receipts, routeSeq, keySeq>>
  BY DEF cpVars
<1>2. \A n \in Node : InQueue(n)' = InQueue(n)
  BY <1>1 DEF InQueue, Accepted, Latest
<1>3. \A o \in Op : PersistedStaysPersisted(o)' /\ WellRouted(route'[o])
                    /\ Accepted(o)' = Accepted(o) /\ OrdOf(o)' = OrdOf(o)
  BY <1>1 DEF IndInv, PersistedStaysPersisted, HasReceipt, Accepted, Latest, OrdOf
<1>4. \A o \in Op : HasItsPlace(o)'
  BY <1>1 DEF IndInv, HasItsPlace, Accepted, OrdOf, Latest
<1>5. \A n \in Node : Cardinality(InQueue(n)') <= MaxQueue
  BY <1>2 DEF IndInv
<1> QED
  BY <1>1, <1>3, <1>4, <1>5

-----------------------------------------------------------------------------
(* Steps of a node.                                                        *)

\* A step of a gateway that leaves the inbox and the application alone.
LEMMA QuietStep ==
    ASSUME IndInv, UNCHANGED <<cpVars, inbox, native>>, NEW n \in Node, NEW g \in Gateway,
           NEW at, NEW op, NEW e, NEW r, SessionGoes(n, g, at, op, e, r),
           session[n][g].at # "none",
           at \in {"idle", "gone", "delivered", "expiring", "answered", "submitting"},
           at \in {"delivered", "expiring"} => op \in Op /\ TargetOf[op] = n,
           at \in {"answered", "submitting"} => op \in Op /\ SourceOf[op] = n,
           CurrentGateway(n, g) /\ (at = "submitting" \/ (at = "answered" /\ r = "None"))
               => ~Accepted(op),
           at = "answered" /\ r \in Terminal => HasReceipt(op, {r}),
           active' = active \/ (active' = [active EXCEPT ![n] = g] /\ active[n] <= g),
           tombstone' \in [Op -> 0..MaxGateway],
           consumed' \in [Key -> Nat], \A k \in Key : consumed[k] <= consumed'[k],
           outbox' \in [Op -> Outbox],
           \A o \in Op : outbox'[o].truth \in Terminal => HasReceipt(o, {outbox'[o].truth})
    PROVE  IndInv'
<1>1. /\ receipts' = receipts /\ cpGen' = cpGen /\ lease' = lease
      /\ \A o \in Op : /\ PersistedStaysPersisted(o)' /\ WellRouted(route'[o])
                       /\ HasItsPlace(o)' /\ Accepted(o)' = Accepted(o)
                       /\ OrdOf(o)' = OrdOf(o)
      /\ \A m \in Node : Cardinality(InQueue(m))' <= MaxQueue
  BY KeepsRoutes
<1>2. /\ OthersKeep(n, g) /\ session' \in [Node -> [Gateway -> Session]]
      /\ session'[n][g].at = at /\ session'[n][g].op = op /\ session'[n][g].reply = r
      /\ session'[n][g].effect = e /\ session'[n][g].cp = session[n][g].cp
  BY DEF SessionGoes
<1>3. active' \in [Node -> 0..MaxGateway] /\ \A m \in Node : active[m] <= active'[m]
  <2>1. active \in [Node -> 0..MaxGateway]
    BY DEF IndInv, TypeOK
  <2>2. g \in 0..MaxGateway
    BY Constants DEF Gateway
  <2>3. \A m \in Node : active[m] \in Nat
    BY <2>1, Constants
  <2>4. CASE active' = active
    BY <2>1, <2>3, <2>4
  <2>5. CASE active' = [active EXCEPT ![n] = g] /\ active[n] <= g
    BY <2>1, <2>2, <2>3, <2>5
  <2> QED
    BY <2>4, <2>5
<1>4. TypeOK'
  BY <1>2, <1>3 DEF IndInv, TypeOK, cpVars
<1>5. SessionsSucceed'
  BY <1>1, <1>2, KeepsSuccession
<1>6. \A m \in Node, h \in Gateway : InHand(m, h)'
  <2>1. InHand(n, g)'
    BY <1>2 DEF InHand
  <2>2. \A m \in Node, h \in Gateway : m # n \/ h # g => Undisturbed(m, h)
    BY <1>1, <1>2 DEF OthersKeep, Undisturbed, HasVerdict, HasReceipt
  <2> QED
    BY <1>1, <2>1, <2>2, KeepsHands
<1>7. \A m \in Node, h \in Gateway : UnheardIsNew(m, h)'
  <2>1. op \in Op \cup {NoOp}
    BY <1>2 DEF Session
  <2> QED
    BY <1>1, <1>2, <2>1, KeepsUnheard
<1>8. SourceIsTold'
  BY <1>1, <1>2, KeepsTold
<1>9. \A o \in Op : InboxKeepsOrder(o)'
  <2>1. \A m \in Node, h \in Gateway :
          session'[m][h].at \in {"persisting", "persisted"} =>
              /\ session[m][h].at \in {"persisting", "persisted"}
              /\ session'[m][h].op = session[m][h].op
    BY <1>2 DEF OthersKeep
  <2> QED
    BY <1>1, <1>3, <2>1, KeepsOrder
<1>10. \A o \in Op : RunsAfterItsClaim(o)' /\ VerdictIsTrue(o)'
  BY <1>1 DEF IndInv, RunsAfterItsClaim, VerdictIsTrue, HasReceipt, ClaimedOrLater
<1> QED
  BY <1>1, <1>4, <1>5, <1>6, <1>7, <1>8, <1>9, <1>10 DEF IndInv

\* A step of the source's outbox alone.
LEMMA OutboxStep ==
    ASSUME IndInv, UNCHANGED <<cpVars, active, inbox, tombstone, consumed, session, native>>,
           outbox' \in [Op -> Outbox],
           \A o \in Op : outbox'[o].truth \in Terminal => HasReceipt(o, {outbox'[o].truth})
    PROVE  IndInv'
<1>1. /\ receipts' = receipts /\ cpGen' = cpGen /\ lease' = lease
      /\ \A o \in Op : /\ PersistedStaysPersisted(o)' /\ WellRouted(route'[o])
                       /\ HasItsPlace(o)' /\ Accepted(o)' = Accepted(o)
                       /\ OrdOf(o)' = OrdOf(o)
      /\ \A m \in Node : Cardinality(InQueue(m))' <= MaxQueue
  BY KeepsRoutes
<1>2. TypeOK'
  BY DEF IndInv, TypeOK, cpVars
<1>3. SessionsSucceed'
  BY <1>1 DEF IndInv, SessionsSucceed
<1>4. ASSUME NEW m \in Node, NEW h \in Gateway PROVE InHand(m, h)'
  <2>1. InHand(m, h)
    BY DEF IndInv
  <2> QED
    BY <1>1, <2>1 DEF InHand, HasReceipt, HasVerdict, ClaimedOrLater
<1>5. \A m \in Node, h \in Gateway : UnheardIsNew(m, h)'
  BY DEF IndInv, UnheardIsNew, CurrentGateway, At, Accepted, cpVars
<1>6. SourceIsTold'
  BY <1>1 DEF IndInv, SourceIsTold, At, HasReceipt
<1>7. \A o \in Op : InboxKeepsOrder(o)'
  BY DEF IndInv, InboxKeepsOrder, Accepted, OrdOf, Latest, cpVars
<1>8. \A o \in Op : RunsAfterItsClaim(o)' /\ VerdictIsTrue(o)'
  BY <1>1 DEF IndInv, RunsAfterItsClaim, VerdictIsTrue, HasReceipt, ClaimedOrLater
<1> QED
  BY <1>1, <1>2, <1>3, <1>4, <1>5, <1>6, <1>7, <1>8 DEF IndInv

\* What a node's store and gateway hold, as one names them in a step.
LEMMA Holdings ==
    ASSUME IndInv
    PROVE  /\ session \in [Node -> [Gateway -> Session]]
           /\ \A n \in Node, g \in Gateway :
                session[n][g] \in Session /\ InHand(n, g) /\ UnheardIsNew(n, g)
           /\ \A o \in Op : outbox[o] \in Outbox
           /\ outbox \in [Op -> Outbox] /\ consumed \in [Key -> Nat]
           /\ tombstone \in [Op -> 0..MaxGateway] /\ active \in [Node -> 0..MaxGateway]
           /\ \A o \in Op : outbox[o].truth \in Terminal => HasReceipt(o, {outbox[o].truth})
<1>1. session \in [Node -> [Gateway -> Session]]
  BY DEF IndInv, TypeOK
<1>2. \A n \in Node, g \in Gateway : session[n][g] \in Session
  BY <1>1
<1>3. \A n \in Node, g \in Gateway : InHand(n, g) /\ UnheardIsNew(n, g)
  BY DEF IndInv
<1>4. /\ outbox \in [Op -> Outbox] /\ consumed \in [Key -> Nat]
      /\ tombstone \in [Op -> 0..MaxGateway] /\ active \in [Node -> 0..MaxGateway]
  BY DEF IndInv, TypeOK
<1>5. \A o \in Op : outbox[o].truth \in Terminal => HasReceipt(o, {outbox[o].truth})
  BY DEF IndInv, SourceIsTold
<1> QED
  BY <1>1, <1>2, <1>3, <1>4, <1>5

\* A target counts one more operation of a key.
LEMMA Counted ==
    ASSUME consumed \in [Key -> Nat], NEW c \in Key, consumed' = [consumed EXCEPT ![c] = @ + 1]
    PROVE  consumed' \in [Key -> Nat] /\ \A k \in Key : consumed[k] <= consumed'[k]
<1>1. consumed[c] + 1 \in Nat /\ consumed[c] <= consumed[c] + 1
  OBVIOUS
<1> QED
  BY <1>1

\* A gateway binds its node's store, ends, is delivered an operation or finds it
\* expired.
LEMMA GatewaySteps ==
    ASSUME IndInv, NEW n \in Node, NEW g \in Gateway,
           \/ BindSession(n, g) \/ SessionEnds(n, g)
           \/ \E o \in Op : Deliver(n, g, o)
           \/ ConsumeTombstone(n, g)
    PROVE  IndInv'
<1> DEFINE s == session[n][g]
<1>1. /\ session \in [Node -> [Gateway -> Session]] /\ InHand(n, g)
      /\ outbox \in [Op -> Outbox] /\ consumed \in [Key -> Nat]
      /\ tombstone \in [Op -> 0..MaxGateway] /\ active \in [Node -> 0..MaxGateway]
      /\ \A o \in Op : outbox[o].truth \in Terminal => HasReceipt(o, {outbox[o].truth})
  BY Holdings
<1>2. \A k \in Key : consumed[k] <= consumed[k]
  BY <1>1
<1>3. CASE BindSession(n, g)
  <2>1. /\ UNCHANGED <<cpVars, inbox, native, tombstone, consumed, outbox>>
        /\ active' = [active EXCEPT ![n] = g] /\ Goes(n, g, "idle")
        /\ s.at = "welcome" /\ MayBind(n, g)
    BY <1>3 DEF BindSession, At
  <2>2. SessionGoes(n, g, "idle", s.op, s.effect, s.reply)
    BY <1>1, <2>1, SessionSteps
  <2>3. active[n] <= g
    <3> DEFINE a == active[n]
    <3>1. a \in 0..MaxGateway /\ MaxGateway \in Nat /\ g \in Nat /\ g >= 1
      BY <1>1, Constants
    <3>2. CASE a = 0
      BY <3>1, <3>2
    <3>3. CASE a # 0
      <4>1. a \in Gateway
        BY <3>1, <3>3 DEF Gateway
      <4>2. session[n][a].cp \in Nat /\ s.cp \in Nat
        <5>1. session[n][a] \in Session /\ s \in Session
          BY <1>1, <4>1
        <5> QED
          BY <5>1, Constants DEF Session
      <4>3. s.cp >= session[n][a].cp /\ (s.cp = session[n][a].cp => g >= a)
        BY <2>1, <3>3 DEF MayBind
      <4>4. session[n][a].at # "none"
        BY <3>3 DEF IndInv, SessionsSucceed
      <4>5. g < a => s.cp <= session[n][a].cp
        BY <4>1, <4>4 DEF IndInv, SessionsSucceed
      <4> QED
        BY <3>1, <4>2, <4>3, <4>5
    <3> QED
      BY <3>2, <3>3
  <2> HIDE DEF s
  <2> QED
    BY <1>1, <1>2, <2>1, <2>2, <2>3, QuietStep DEF s
<1>4. CASE SessionEnds(n, g)
  <2>1. /\ UNCHANGED <<cpVars, inbox, native, tombstone, consumed, outbox, active>>
        /\ s.at # "none"
        /\ session' = [session EXCEPT ![n][g] = [@ EXCEPT !.at = "gone", !.op = NoOp,
                                               !.effect = "None", !.reply = "None"]]
    BY <1>4 DEF SessionEnds, storeVars
  <2>2. SessionGoes(n, g, "gone", NoOp, "None", "None")
    BY <1>1, <2>1, SessionSteps
  <2> HIDE DEF s
  <2> QED
    BY <1>1, <1>2, <2>1, <2>2, QuietStep DEF s
<1>5. ASSUME NEW o \in Op, Deliver(n, g, o) PROVE IndInv'
  <2>1. /\ UNCHANGED <<cpVars, inbox, native, tombstone, consumed, outbox, active>>
        /\ s.at = "idle" /\ TargetOf[o] = n
        /\ session' = [session EXCEPT ![n][g].at = "delivered", ![n][g].op = o]
    BY <1>5 DEF Deliver, storeVars, At, Pending
  <2>2. SessionGoes(n, g, "delivered", o, s.effect, s.reply)
    BY <1>1, <2>1, SessionSteps
  <2> HIDE DEF s
  <2> QED
    BY <1>1, <1>2, <2>1, <2>2, QuietStep DEF s
<1>6. CASE ConsumeTombstone(n, g)
  <2>1. /\ UNCHANGED <<cpVars, inbox, native, outbox, active>>
        /\ s.at = "delivered" /\ Goes(n, g, "expiring")
        /\ tombstone' = [tombstone EXCEPT ![s.op] = g]
        /\ consumed' = [consumed EXCEPT ![KeyOf[s.op]] = @ + 1]
    BY <1>6 DEF ConsumeTombstone, At
  <2>2. SessionGoes(n, g, "expiring", s.op, s.effect, s.reply)
    BY <1>1, <2>1, SessionSteps
  <2>3. s.op \in Op /\ TargetOf[s.op] = n
    BY <1>1, <2>1 DEF InHand
  <2>4. tombstone' \in [Op -> 0..MaxGateway]
    <3>1. g \in 0..MaxGateway
      BY Constants DEF Gateway
    <3> QED
      BY <1>1, <2>1, <2>3, <3>1
  <2>5. consumed' \in [Key -> Nat] /\ \A k \in Key : consumed[k] <= consumed'[k]
    BY <1>1, <2>1, <2>3, Constants, Counted
  <2> HIDE DEF s
  <2> QED
    BY <1>1, <2>1, <2>2, <2>3, <2>4, <2>5, QuietStep DEF s
<1> QED
  BY <1>3, <1>4, <1>5, <1>6

\* The source's outbox: prepared, expired, rebound.
LEMMA OutboxSteps ==
    ASSUME IndInv,
           \/ \E o \in Op : PrepareOutbox(o)
           \/ \E n \in Node, g \in Gateway :
                RebindOutbox(n, g) \/ \E o \in Op : ExpireOutbox(n, g, o)
    PROVE  IndInv'
<1>1. /\ outbox \in [Op -> Outbox] /\ active \in [Node -> 0..MaxGateway]
      /\ \A o \in Op : outbox[o] \in Outbox
      /\ \A o \in Op : outbox[o].truth \in Terminal => HasReceipt(o, {outbox[o].truth})
      /\ \A n \in Node, g \in Gateway : InHand(n, g)
  BY Holdings
<1>2. ASSUME NEW o \in Op, NEW b \in Outbox, outbox' = [outbox EXCEPT ![o] = b],
             b.truth = outbox[o].truth \/ b.truth \notin Terminal,
             UNCHANGED <<cpVars, active, inbox, tombstone, consumed, session, native>>
      PROVE  IndInv'
  <2>1. /\ outbox' \in [Op -> Outbox]
        /\ \A q \in Op : outbox'[q].truth \in Terminal => outbox'[q].truth = outbox[q].truth
    BY <1>1, <1>2
  <2>2. \A q \in Op : outbox'[q].truth \in Terminal => HasReceipt(q, {outbox'[q].truth})
    BY <1>1, <2>1
  <2> QED
    BY <1>2, <2>1, <2>2, OutboxStep
<1>3. ASSUME NEW o \in Op, PrepareOutbox(o) PROVE IndInv'
  <2> DEFINE a == active[SourceOf[o]]
             b == [outbox[o] EXCEPT !.state = "QueuedForControlPlane", !.gw = a]
  <2>1. /\ SourceOf[o] # ControlPlane /\ outbox' = [outbox EXCEPT ![o] = b]
        /\ UNCHANGED <<cpVars, active, inbox, tombstone, consumed, session, native>>
    BY <1>1, <1>3 DEF PrepareOutbox
  <2>2. a \in 0..MaxGateway
    BY <1>1, <2>1, FabricAssumption DEF FabricAssumption
  <2>3. b \in Outbox /\ b.truth = outbox[o].truth
    BY <1>1, <2>2 DEF Outbox
  <2> HIDE DEF b
  <2> QED
    BY <1>2, <2>1, <2>3
<1>4. ASSUME NEW n \in Node, NEW g \in Gateway, RebindOutbox(n, g) PROVE IndInv'
  <2> DEFINE o == session[n][g].op
             b == [outbox[o] EXCEPT !.state = "QueuedForControlPlane", !.gw = g]
  <2>1. o \in Op
    BY <1>1, <1>4 DEF RebindOutbox, At, InHand
  <2>2. /\ outbox' = [outbox EXCEPT ![o] = b]
        /\ UNCHANGED <<cpVars, active, inbox, tombstone, consumed, session, native>>
    BY <1>1, <1>4 DEF RebindOutbox
  <2>3. g \in 0..MaxGateway
    BY Constants DEF Gateway
  <2>4. b \in Outbox /\ b.truth = outbox[o].truth
    BY <1>1, <2>1, <2>3 DEF Outbox
  <2> HIDE DEF o, b
  <2> QED
    BY <1>2, <2>1, <2>2, <2>4
<1>5. ASSUME NEW n \in Node, NEW g \in Gateway, NEW o \in Op, ExpireOutbox(n, g, o)
      PROVE  IndInv'
  <2> DEFINE b == [outbox[o] EXCEPT !.state = "Terminal", !.truth = "Expired"]
  <2>1. /\ outbox' = [outbox EXCEPT ![o] = b]
        /\ UNCHANGED <<cpVars, active, inbox, tombstone, consumed, session, native>>
    BY <1>1, <1>5 DEF ExpireOutbox
  <2>2. b \in Outbox /\ b.truth \notin Terminal
    BY <1>1 DEF Outbox, Terminal
  <2> HIDE DEF b
  <2> QED
    BY <1>2, <2>1, <2>2
<1> QED
  BY <1>3, <1>4, <1>5

\* What a source is answered: the receipt that there is.
LEMMA Answers ==
    ASSUME NEW o \in Op
    PROVE  /\ Reconciled(o) \in Kind \cup {"None"}
           /\ Reconciled(o) \in Terminal => HasReceipt(o, {Reconciled(o)})
           /\ Reconciled(o) = "None" => ~Accepted(o)
  BY DEF Reconciled, Kind, Terminal

\* A source reconciles, marks what it was told, and submits.
LEMMA SourceSteps ==
    ASSUME IndInv, NEW n \in Node, NEW g \in Gateway,
           (\E o \in Op : Reconcile(n, g, o)) \/ MarkReceipt(n, g) \/ Submit(n, g)
    PROVE  IndInv'
<1> DEFINE s == session[n][g]
<1>1. /\ session \in [Node -> [Gateway -> Session]] /\ s \in Session
      /\ InHand(n, g) /\ UnheardIsNew(n, g)
      /\ outbox \in [Op -> Outbox] /\ consumed \in [Key -> Nat]
      /\ tombstone \in [Op -> 0..MaxGateway]
      /\ \A o \in Op : outbox[o] \in Outbox
      /\ \A o \in Op : outbox[o].truth \in Terminal => HasReceipt(o, {outbox[o].truth})
  BY Holdings
<1>2. \A k \in Key : consumed[k] <= consumed[k]
  BY <1>1
<1>3. ASSUME NEW o \in Op, Reconcile(n, g, o) PROVE IndInv'
  <2>1. /\ UNCHANGED <<cpVars, inbox, native, tombstone, consumed, outbox, active>>
        /\ s.at = "idle" /\ SourceOf[o] = n
        /\ session' = [session EXCEPT ![n][g].at = "answered", ![n][g].op = o,
                                      ![n][g].reply = Reconciled(o)]
    BY <1>3 DEF Reconcile, storeVars, At
  <2>2. /\ Reconciled(o) \in Kind \cup {"None"}
        /\ Reconciled(o) \in Terminal => HasReceipt(o, {Reconciled(o)})
        /\ Reconciled(o) = "None" => ~Accepted(o)
    BY Answers
  <2>3. SessionGoes(n, g, "answered", o, s.effect, Reconciled(o))
    BY <1>1, <2>1, <2>2, SessionSteps
  <2> HIDE DEF s
  <2> QED
    BY <1>1, <1>2, <2>1, <2>2, <2>3, QuietStep DEF s
<1>4. CASE MarkReceipt(n, g)
  <2> DEFINE o == s.op
             k == s.reply
             b == CASE k \in Terminal -> [outbox[o] EXCEPT !.state = "Terminal", !.truth = k]
                    [] k = "RecoveryRequired" ->
                         [outbox[o] EXCEPT !.state = "ReconcileRequired", !.truth = "None"]
                    [] OTHER -> IF outbox[o].state = "Terminal" THEN outbox[o]
                                ELSE [outbox[o] EXCEPT !.state = "Accepted"]
  <2>1. /\ UNCHANGED <<cpVars, inbox, native, tombstone, consumed, active>>
        /\ s.at = "answered" /\ session' = Rests(n, g)
    BY <1>4 DEF MarkReceipt, At
  <2>2. o \in Op
    BY <1>1, <2>1 DEF InHand
  <2>3. outbox' = [outbox EXCEPT ![o] = b]
    BY <1>1, <1>4, <2>2 DEF MarkReceipt
  <2>4. /\ b \in Outbox
        /\ \/ b.truth = outbox[o].truth
           \/ b.truth \notin Terminal
           \/ b.truth = k /\ k \in Terminal
    <3>1. outbox[o] \in Outbox
      BY <1>1, <2>2
    <3>2. CASE k \in Terminal
      BY <3>1, <3>2 DEF Outbox, Terminal
    <3>3. CASE k \notin Terminal /\ k = "RecoveryRequired"
      BY <3>1, <3>3 DEF Outbox, Terminal
    <3>4. CASE k \notin Terminal /\ k # "RecoveryRequired"
      BY <3>1, <3>4 DEF Outbox, Terminal
    <3> QED
      BY <3>2, <3>3, <3>4
  <2>5. k \in Terminal => HasReceipt(o, {k})
    BY <2>1 DEF IndInv, SourceIsTold, At
  <2> HIDE DEF b
  <2>6. outbox' \in [Op -> Outbox] /\ outbox'[o] = b
        /\ \A q \in Op \ {o} : outbox'[q] = outbox[q]
    BY <1>1, <2>2, <2>3, <2>4
  <2>7. \A q \in Op : outbox'[q].truth \in Terminal => HasReceipt(q, {outbox'[q].truth})
    BY <1>1, <2>4, <2>5, <2>6
  <2>8. SessionGoes(n, g, "idle", NoOp, "None", "None")
    BY <1>1, <2>1, SessionSteps
  <2>9. s.at # "none"
    BY <2>1
  <2> HIDE DEF s, o, k
  <2> QED
    BY <1>1, <1>2, <2>1, <2>6, <2>7, <2>8, <2>9, QuietStep DEF s
<1>5. CASE Submit(n, g)
  <2> DEFINE o == s.op
             b == [outbox[o] EXCEPT !.state = "Submitted"]
  <2>1. /\ UNCHANGED <<cpVars, inbox, native, tombstone, consumed, active>>
        /\ s.at = "answered" /\ s.reply = "None" /\ Goes(n, g, "submitting")
    BY <1>5 DEF Submit, At
  <2>2. o \in Op /\ SourceOf[o] = n
    BY <1>1, <2>1 DEF InHand
  <2>3. CurrentGateway(n, g) => ~Accepted(o)
    BY <1>1, <2>1 DEF UnheardIsNew, At
  <2>4. outbox' = [outbox EXCEPT ![o] = b]
    BY <1>1, <1>5 DEF Submit
  <2>5. b \in Outbox /\ b.truth = outbox[o].truth
    BY <1>1, <2>2 DEF Outbox
  <2> HIDE DEF b
  <2>6. outbox' \in [Op -> Outbox] /\ \A q \in Op : outbox'[q].truth = outbox[q].truth
    BY <1>1, <2>2, <2>4, <2>5
  <2>7. \A q \in Op : outbox'[q].truth \in Terminal => HasReceipt(q, {outbox'[q].truth})
    BY <1>1, <2>6
  <2>8. SessionGoes(n, g, "submitting", o, s.effect, s.reply)
    BY <1>1, <2>1, SessionSteps
  <2>9. s.at # "none"
    BY <2>1
  <2> HIDE DEF o, s
  <2> QED
    BY <1>1, <1>2, <2>1, <2>2, <2>3, <2>6, <2>7, <2>8, <2>9, QuietStep DEF s
<1> QED
  BY <1>3, <1>4, <1>5

\* An inbox row is in the hands of the gateway of its generation only.
LEMMA OwnRow ==
    ASSUME IndInv, NEW n \in Node, NEW g \in Gateway, NEW o \in Op, TargetOf[o] = n,
           inbox[o].state = "Absent" \/ inbox[o].gw = g,
           NEW m \in Node, NEW h \in Gateway, m # n \/ h # g,
           session[m][h].at \in {"persisting", "persisted", "claimed", "applied", "reporting"}
    PROVE  session[m][h].op \in Op /\ session[m][h].op # o
<1>1. InHand(m, h)
  BY DEF IndInv
<1>2. session[m][h].op \in Op /\ TargetOf[session[m][h].op] = m
  BY <1>1 DEF InHand
<1>3. inbox[session[m][h].op].state # "Absent" /\ inbox[session[m][h].op].gw = h
  BY <1>1 DEF InHand, ClaimedOrLater
<1> QED
  BY <1>2, <1>3

\* A step of a target on the operation it has in hand.
LEMMA EffectStep ==
    ASSUME IndInv, UNCHANGED <<cpVars, active, tombstone, outbox>>,
           NEW n \in Node, NEW g \in Gateway, NEW at, NEW o \in Op, NEW e, NEW r,
           SessionGoes(n, g, at, o, e, r), session[n][g].at # "none", TargetOf[o] = n,
           at \in {"persisting", "claimed", "applied", "reporting"},
           inbox[o].state = "Absent" \/ inbox[o].gw = g,
           inbox' \in [Op -> [state : {"Absent", "Persisted", "Claimed", "Applied",
                                       "Rejected", "RecoveryRequired"},
                              gw : 0..MaxGateway]],
           native' \in [Op -> [runs : Nat, effect : Effect \cup {"None"}]],
           consumed' \in [Key -> Nat],
           \A q \in Op \ {o} : inbox'[q] = inbox[q] /\ native'[q] = native[q],
           InHand(n, g)', RunsAfterItsClaim(o)', VerdictIsTrue(o)',
           \A q \in Op : InboxKeepsOrder(q)'
    PROVE  IndInv'
<1>1. /\ receipts' = receipts /\ cpGen' = cpGen /\ lease' = lease
      /\ \A q \in Op : /\ PersistedStaysPersisted(q)' /\ WellRouted(route'[q])
                       /\ HasItsPlace(q)' /\ Accepted(q)' = Accepted(q)
                       /\ OrdOf(q)' = OrdOf(q)
      /\ \A m \in Node : Cardinality(InQueue(m))' <= MaxQueue
  BY KeepsRoutes
<1>2. /\ OthersKeep(n, g) /\ session' \in [Node -> [Gateway -> Session]]
      /\ session'[n][g].at = at /\ session'[n][g].op = o
      /\ session'[n][g].cp = session[n][g].cp
  BY DEF SessionGoes
<1>3. TypeOK'
  BY <1>2 DEF IndInv, TypeOK, cpVars
<1>4. SessionsSucceed'
  BY <1>1, <1>2, KeepsSuccession
<1>5. \A m \in Node, h \in Gateway : InHand(m, h)'
  <2>1. ASSUME NEW m \in Node, NEW h \in Gateway, m # n \/ h # g
        PROVE  Undisturbed(m, h)
    <3>1. session'[m][h] = session[m][h]
      BY <1>2, <2>1 DEF OthersKeep
    <3>2. session[m][h].at \in {"persisting", "persisted", "claimed", "applied", "reporting"}
            => session[m][h].op \in Op /\ session[m][h].op # o
      BY <2>1, OwnRow
    <3>3. \A q : HasVerdict(q)' => HasVerdict(q)
      BY <1>1 DEF HasVerdict, HasReceipt
    <3> QED
      BY <3>1, <3>2, <3>3 DEF Undisturbed
  <2> QED
    BY <1>1, <2>1, KeepsHands
<1>6. \A m \in Node, h \in Gateway : UnheardIsNew(m, h)'
  BY <1>1, <1>2, KeepsUnheard
<1>7. SourceIsTold'
  BY <1>1, <1>2, Holdings, KeepsTold
<1>8. \A q \in Op : RunsAfterItsClaim(q)' /\ VerdictIsTrue(q)'
  BY <1>1 DEF IndInv, RunsAfterItsClaim, VerdictIsTrue, HasReceipt, ClaimedOrLater
<1> QED
  BY <1>1, <1>3, <1>4, <1>5, <1>6, <1>7, <1>8 DEF IndInv

\* Accepted operations have places, which are numbers.
LEMMA Places ==
    ASSUME IndInv, NEW o \in Op, Accepted(o)
    PROVE  /\ route[o] \in Seq(Attempt) /\ Len(route[o]) \in 1..Len(route[o])
           /\ Latest(o) \in Attempt /\ OrdOf(o) \in Nat
           /\ \A i \in 1..Len(route[o]) : route[o][i].ord = OrdOf(o)
<1>1. route[o] \in Seq(Attempt) /\ route[o] # <<>>
  BY DEF IndInv, TypeOK, Accepted
<1>2. Len(route[o]) \in 1..Len(route[o])
  BY <1>1, LenProperties, EmptySeq
<1>3. Latest(o) \in Attempt
  BY <1>1, <1>2, ElementOfSeq DEF Latest
<1>4. \A i \in 1..Len(route[o]) : route[o][i].ord = OrdOf(o)
  BY DEF IndInv, WellRouted, OrdOf, Latest
<1> QED
  BY <1>1, <1>2, <1>3, <1>4 DEF OrdOf, Attempt

\* A target has an operation of its node in hand.
LEMMA TargetHand ==
    ASSUME IndInv, NEW n \in Node, NEW g \in Gateway,
           session[n][g].at \in {"delivered", "persisting", "persisted", "claimed",
                                 "applied", "reporting", "expiring"}
    PROVE  \E o \in Op : o = session[n][g].op /\ TargetOf[o] = n
<1>1. InHand(n, g)
  BY DEF IndInv
<1> QED
  BY <1>1 DEF InHand

\* The inbox takes an operation that is next in its key.
LEMMA Persisting ==
    ASSUME IndInv, NEW n \in Node, NEW g \in Gateway, PersistInbox(n, g)
    PROVE  IndInv'
<1>0. PICK o \in Op : o = session[n][g].op /\ TargetOf[o] = n
  <2>1. session[n][g].at = "delivered"
    BY DEF PersistInbox, At
  <2> QED
    BY <2>1, TargetHand
<1> DEFINE s == session[n][g]
           k == KeyOf[o]
           b == [state |-> "Persisted", gw |-> g]
<1>1. /\ session \in [Node -> [Gateway -> Session]] /\ s \in Session /\ InHand(n, g)
      /\ consumed \in [Key -> Nat] /\ active \in [Node -> 0..MaxGateway]
  BY Holdings
<1>2. /\ UNCHANGED <<cpVars, active, tombstone, outbox, native>>
      /\ s.at = "delivered" /\ Goes(n, g, "persisting") /\ active[n] = g
      /\ inbox[o].state = "Absent" /\ NextInOrder(o, g)
      /\ inbox' = [inbox EXCEPT ![o] = b] /\ consumed' = [consumed EXCEPT ![k] = @ + 1]
  BY <1>0 DEF PersistInbox, At, ActiveSession
<1>3. o \in Op /\ TargetOf[o] = n /\ k \in Key
  BY <1>0, Constants
<1>4. SessionGoes(n, g, "persisting", o, s.effect, s.reply)
  BY <1>0, <1>1, <1>2, SessionSteps
<1>5. consumed' \in [Key -> Nat] /\ (\A c \in Key : consumed[c] <= consumed'[c])
      /\ consumed'[k] = consumed[k] + 1
  BY <1>1, <1>2, <1>3, Counted
<1>6. b.state = "Persisted" /\ b.gw = g /\ g \in 0..MaxGateway /\ g \in Nat
  BY Constants DEF Gateway
<1> HIDE DEF b, s
<1>7. /\ inbox' \in [Op -> [state : {"Absent", "Persisted", "Claimed", "Applied",
                                    "Rejected", "RecoveryRequired"},
                           gw : 0..MaxGateway]]
      /\ inbox'[o] = b /\ \A q \in Op \ {o} : inbox'[q] = inbox[q]
  <2>1. b \in [state : {"Absent", "Persisted", "Claimed", "Applied",
                        "Rejected", "RecoveryRequired"}, gw : 0..MaxGateway]
    BY <1>6 DEF b
  <2> QED
    BY <1>2, <1>3, <2>1 DEF IndInv, TypeOK
<1>8. /\ OthersKeep(n, g) /\ session'[n][g].at = "persisting" /\ session'[n][g].op = o
  BY <1>4 DEF SessionGoes
<1>9. Accepted(o) /\ OrdOf(o) = consumed[k] + 1
  <2>1. PICK i \in 1..Len(route[o]) : route[o][i].ord = consumed[k] + 1
    BY <1>2 DEF NextInOrder
  <2>2. Accepted(o)
    <3>1. SUFFICES ASSUME route[o] = <<>> PROVE FALSE
      BY DEF Accepted
    <3> QED
      BY <2>1, <3>1
  <2> QED
    BY <1>3, <2>1, <2>2, Places
<1>10. \A q \in Op : /\ Accepted(q)' = Accepted(q) /\ OrdOf(q)' = OrdOf(q)
  BY <1>2, KeepsRoutes
<1>11. InHand(n, g)'
  BY <1>3, <1>7, <1>8 DEF InHand, b
<1>12. RunsAfterItsClaim(o)' /\ VerdictIsTrue(o)'
  <2>1. RunsAfterItsClaim(o) /\ VerdictIsTrue(o)
    BY <1>3 DEF IndInv
  <2>2. receipts' = receipts
    BY <1>2 DEF cpVars
  <2> QED
    BY <1>2, <1>6, <1>7, <2>1, <2>2 DEF RunsAfterItsClaim, VerdictIsTrue, HasReceipt, ClaimedOrLater
<1>13. ASSUME NEW q \in Op PROVE InboxKeepsOrder(q)'
  <2>1. SUFFICES ASSUME inbox'[q].state # "Absent" PROVE InboxKeepsOrder(q)'
    BY DEF InboxKeepsOrder
  <2>2. \A x \in Op : x # o /\ inbox'[x].state # "Absent" =>
          /\ Accepted(x) /\ OrdOf(x) \in Nat /\ OrdOf(x) <= consumed[KeyOf[x]]
          /\ inbox[x].gw \in Gateway /\ inbox[x].gw <= active[TargetOf[x]]
          /\ KeyOf[x] = k => inbox[x].gw <= g /\ OrdOf(x) < OrdOf(o)
    <3> SUFFICES ASSUME NEW x \in Op, x # o, inbox'[x].state # "Absent"
                 PROVE  /\ Accepted(x) /\ OrdOf(x) \in Nat
                        /\ OrdOf(x) <= consumed[KeyOf[x]]
                        /\ inbox[x].gw \in Gateway /\ inbox[x].gw <= active[TargetOf[x]]
                        /\ KeyOf[x] = k => inbox[x].gw <= g /\ OrdOf(x) < OrdOf(o)
      OBVIOUS
    <3>1. InboxKeepsOrder(x) /\ inbox[x].state # "Absent"
      BY <1>7 DEF IndInv
    <3>2. /\ Accepted(x) /\ OrdOf(x) <= consumed[KeyOf[x]]
          /\ inbox[x].gw \in Gateway /\ inbox[x].gw <= active[TargetOf[x]]
      BY <3>1 DEF InboxKeepsOrder
    <3>3. OrdOf(x) \in Nat
      BY <3>2, Places
    <3>4. KeyOf[x] = k => TargetOf[x] = n
      BY <1>3, Constants
    <3>5. consumed[k] \in Nat
      BY <1>1, <1>3
    <3> QED
      BY <1>2, <1>9, <3>2, <3>3, <3>4, <3>5
  <2>3. CASE q = o
    <3>1. Accepted(o)' /\ OrdOf(o)' <= consumed'[k]
      BY <1>1, <1>3, <1>5, <1>9, <1>10
    <3>2. inbox'[o].gw \in Gateway /\ inbox'[o].gw <= active'[TargetOf[o]]
      BY <1>2, <1>3, <1>6, <1>7
    <3>3. \A x \in Op : inbox'[x].state # "Absent" /\ KeyOf[x] = k =>
            ~(OrdOf(o)' < OrdOf(x)')
      <4>1. OrdOf(o) \in Nat
        BY <1>3, <1>9, Places
      <4>2. ASSUME NEW x \in Op, inbox'[x].state # "Absent", KeyOf[x] = k
            PROVE  ~(OrdOf(o)' < OrdOf(x)')
        <5>1. CASE x = o
          BY <1>3, <1>10, <4>1, <5>1
        <5>2. CASE x # o
          BY <1>3, <1>10, <2>2, <4>1, <4>2, <5>2
        <5> QED
          BY <5>1, <5>2
      <4> QED
        BY <4>2
    <3> QED
      BY <2>3, <3>1, <3>2, <3>3 DEF InboxKeepsOrder
  <2>4. CASE q # o
    <3>1. InboxKeepsOrder(q) /\ inbox[q].state # "Absent" /\ inbox'[q] = inbox[q]
      BY <1>7, <2>1, <2>4 DEF IndInv
    <3>2. /\ Accepted(q)' /\ OrdOf(q)' <= consumed'[KeyOf[q]]
          /\ inbox'[q].gw \in Gateway /\ inbox'[q].gw <= active'[TargetOf[q]]
      <4>1. /\ consumed[KeyOf[q]] \in Nat /\ consumed'[KeyOf[q]] \in Nat
            /\ consumed[KeyOf[q]] <= consumed'[KeyOf[q]]
        BY <1>1, <1>5, Constants
      <4> QED
        BY <1>2, <1>10, <2>1, <2>2, <2>4, <3>1, <4>1
    <3>3. ASSUME NEW x \in Op, inbox'[x].state # "Absent", KeyOf[x] = KeyOf[q],
                 OrdOf(q)' < OrdOf(x)'
          PROVE  /\ inbox'[q].gw <= inbox'[x].gw
                 /\ inbox'[q].gw = inbox'[x].gw =>
                      LET t == session'[TargetOf[q]][inbox'[q].gw] IN
                      ~(t.at \in {"persisting", "persisted"} /\ t.op = q)
      <4>1. CASE x = o
        <5>1. TargetOf[q] = n /\ inbox[q].gw <= g
          BY <1>3, <2>1, <2>2, <2>4, <3>3, <4>1, Constants
        <5> QED
          BY <1>6, <1>7, <1>8, <2>4, <3>1, <4>1, <5>1
      <4>2. CASE x # o
        <5>1. /\ inbox'[x] = inbox[x] /\ OrdOf(q) < OrdOf(x)
          BY <1>7, <1>10, <3>3, <4>2
        <5>2. /\ inbox[q].gw <= inbox[x].gw
              /\ inbox[q].gw = inbox[x].gw =>
                   LET t == session[TargetOf[q]][inbox[q].gw] IN
                   ~(t.at \in {"persisting", "persisted"} /\ t.op = q)
          BY <3>1, <3>3, <5>1 DEF InboxKeepsOrder
        <5>3. inbox[q].gw \in Gateway /\ TargetOf[q] \in Node
          BY <2>1, <2>2, <2>4, Constants
        <5>4. \/ session'[TargetOf[q]][inbox[q].gw] = session[TargetOf[q]][inbox[q].gw]
              \/ session'[TargetOf[q]][inbox[q].gw].op = o
          BY <1>8, <5>3 DEF OthersKeep
        <5> QED
          BY <2>4, <3>1, <5>1, <5>2, <5>4
      <4> QED
        BY <4>1, <4>2
    <3> QED
      BY <3>2, <3>3 DEF InboxKeepsOrder
  <2> QED
    BY <2>3, <2>4
<1>14. s.at # "none" /\ native' \in [Op -> [runs : Nat, effect : Effect \cup {"None"}]]
       /\ \A q \in Op \ {o} : inbox'[q] = inbox[q] /\ native'[q] = native[q]
  BY <1>2, <1>7 DEF IndInv, TypeOK
<1> QED
  BY <1>2, <1>3, <1>4, <1>5, <1>7, <1>11, <1>12, <1>13, <1>14, EffectStep DEF s

\* The claim, the run and the record of its result.
LEMMA Applying ==
    ASSUME IndInv, NEW n \in Node, NEW g \in Gateway,
           ClaimInbox(n, g) \/ (\E e \in Effect : Apply(n, g, e)) \/ RecordResult(n, g)
    PROVE  IndInv'
<1> DEFINE s == session[n][g]
           Row == [state : {"Absent", "Persisted", "Claimed", "Applied",
                            "Rejected", "RecoveryRequired"}, gw : 0..MaxGateway]
           Run == [runs : Nat, effect : Effect \cup {"None"}]
<1>1. s.at \in {"persisted", "claimed", "applied"}
  BY DEF ClaimInbox, Apply, RecordResult, At
<1>2. PICK o \in Op : o = s.op /\ TargetOf[o] = n
  BY <1>1, TargetHand
<1>3. /\ session \in [Node -> [Gateway -> Session]] /\ InHand(n, g)
      /\ consumed \in [Key -> Nat] /\ active \in [Node -> 0..MaxGateway]
      /\ inbox \in [Op -> Row] /\ native \in [Op -> Run]
      /\ inbox[o] \in Row /\ native[o] \in Run
      /\ RunsAfterItsClaim(o) /\ VerdictIsTrue(o)
  BY Holdings DEF IndInv, TypeOK
<1>4. /\ HasReceipt(o, {"TargetPersisted"}) /\ ~HasVerdict(o)
      /\ inbox[o].state \in {"Persisted", "Claimed"} /\ inbox[o].gw = g
  BY <1>1, <1>2, <1>3 DEF InHand
<1>5. UNCHANGED <<cpVars, active, tombstone, outbox, consumed>> /\ receipts' = receipts
  BY DEF ClaimInbox, Apply, RecordResult, storeVars, cpVars
<1>6. /\ HasReceipt(o, {"TargetPersisted"})' /\ ~HasVerdict(o)'
      /\ \A k \in Kind : HasReceipt(o, {k})' => HasReceipt(o, {k})
  BY <1>4, <1>5 DEF HasReceipt, HasVerdict
<1>7. ASSUME NEW at \in {"claimed", "applied", "reporting"}, NEW e, NEW r,
             SessionGoes(n, g, at, o, e, r),
             inbox' \in [Op -> Row], native' \in [Op -> Run],
             \A q \in Op \ {o} : inbox'[q] = inbox[q] /\ native'[q] = native[q],
             inbox'[o].gw = g, inbox'[o].state # "Absent",
             InHand(n, g)', RunsAfterItsClaim(o)', VerdictIsTrue(o)'
      PROVE  IndInv'
  <2>1. \A q \in Op : InboxKeepsOrder(q)'
    <3>1. \A q \in Op : Accepted(q) => Accepted(q)' /\ OrdOf(q)' = OrdOf(q)
      BY <1>5, KeepsRoutes
    <3>2. \A q \in Op : /\ inbox'[q].gw = inbox[q].gw
                        /\ inbox'[q].state = "Absent" <=> inbox[q].state = "Absent"
      BY <1>4, <1>7
    <3>3. /\ consumed' \in [Key -> Nat] /\ \A k \in Key : consumed[k] <= consumed'[k]
      BY <1>3, <1>5
    <3>4. active' \in [Node -> 0..MaxGateway] /\ \A m \in Node : active[m] <= active'[m]
      BY <1>3, <1>5, Constants
    <3>5. \A m \in Node, h \in Gateway :
            session'[m][h].at \in {"persisting", "persisted"} =>
                /\ session[m][h].at \in {"persisting", "persisted"}
                /\ session'[m][h].op = session[m][h].op
      BY <1>7 DEF SessionGoes, OthersKeep
    <3> QED
      BY <3>1, <3>2, <3>3, <3>4, <3>5, KeepsOrder
  <2>2. s.at # "none" /\ consumed' \in [Key -> Nat]
    BY <1>1, <1>3, <1>5
  <2> HIDE DEF s
  <2> QED
    BY <1>2, <1>4, <1>5, <1>7, <2>1, <2>2, EffectStep DEF s
<1>8. CASE ClaimInbox(n, g)
  <2>1. /\ s.at = "persisted" /\ Goes(n, g, "claimed") /\ native' = native
        /\ inbox' = [inbox EXCEPT ![o].state = "Claimed"]
        /\ inbox[o] = [state |-> "Persisted", gw |-> g]
    BY <1>2, <1>8 DEF ClaimInbox, At
  <2>2. SessionGoes(n, g, "claimed", o, s.effect, s.reply)
    BY <1>2, <1>3, <2>1, SessionSteps
  <2>3. /\ inbox' \in [Op -> Row] /\ inbox'[o] = [state |-> "Claimed", gw |-> g]
        /\ \A q \in Op \ {o} : inbox'[q] = inbox[q]
    <3> DEFINE b == [inbox[o] EXCEPT !.state = "Claimed"]
    <3>1. b = [state |-> "Claimed", gw |-> g]
      BY <2>1
    <3>2. b \in Row
      BY <1>3
    <3>3. inbox' = [inbox EXCEPT ![o] = b]
      BY <2>1
    <3> HIDE DEF b
    <3> QED
      BY <1>3, <3>1, <3>2, <3>3
  <2>4. native[o].effect = "None"
    BY <1>3, <2>1 DEF RunsAfterItsClaim, ClaimedOrLater
  <2>5. InHand(n, g)'
    <3>1. session'[n][g].at = "claimed" /\ session'[n][g].op = o
      BY <2>2 DEF SessionGoes
    <3> QED
      BY <1>2, <1>6, <2>1, <2>3, <2>4, <3>1 DEF InHand
  <2>6. RunsAfterItsClaim(o)' /\ VerdictIsTrue(o)'
    BY <1>3, <1>6, <2>1, <2>4, <2>3 DEF RunsAfterItsClaim, VerdictIsTrue, ClaimedOrLater, Kind
  <2> QED
    BY <1>3, <1>7, <2>1, <2>2, <2>3, <2>5, <2>6
<1>9. ASSUME NEW e \in Effect, Apply(n, g, e) PROVE IndInv'
  <2> DEFINE c == [runs |-> native[o].runs + 1, effect |-> e]
  <2>1. /\ s.at = "claimed" /\ inbox' = inbox
        /\ session' = [session EXCEPT ![n][g].at = "applied", ![n][g].effect = e]
        /\ native' = [native EXCEPT ![o] = c]
    BY <1>2, <1>9 DEF Apply, At, storeVars
  <2>2. SessionGoes(n, g, "applied", o, e, s.reply)
    BY <1>2, <1>3, <2>1, SessionSteps
  <2>3. /\ inbox[o] = [state |-> "Claimed", gw |-> g] /\ native[o].effect = "None"
    BY <1>2, <1>3, <2>1 DEF InHand
  <2>4. c \in Run /\ c.effect = e /\ c.runs = 1
    <3>1. native[o].runs = 0
      BY <1>3, <2>3 DEF RunsAfterItsClaim
    <3> QED
      BY <3>1
  <2> HIDE DEF c
  <2>5. /\ native' \in [Op -> Run] /\ native'[o] = c
        /\ \A q \in Op \ {o} : native'[q] = native[q]
    BY <1>3, <2>1, <2>4
  <2>6. e # "None"
    BY DEF Effect
  <2>7. InHand(n, g)'
    <3>1. session'[n][g].at = "applied" /\ session'[n][g].op = o /\ session'[n][g].effect = e
      BY <2>2 DEF SessionGoes
    <3> QED
      BY <1>2, <1>6, <2>1, <2>3, <2>4, <2>5, <3>1 DEF InHand
  <2>8. RunsAfterItsClaim(o)'
    BY <1>6, <2>1, <2>3, <2>4, <2>5, <2>6 DEF RunsAfterItsClaim, ClaimedOrLater
  <2>9. VerdictIsTrue(o)'
    BY <1>6 DEF VerdictIsTrue, HasVerdict, HasReceipt, Terminal
  <2> QED
    BY <1>3, <1>4, <1>7, <2>1, <2>2, <2>3, <2>5, <2>7, <2>8, <2>9
<1>10. CASE RecordResult(n, g)
  <2> DEFINE i == InboxOf(s.effect)
  <2>1. /\ s.at = "applied" /\ Goes(n, g, "reporting") /\ native' = native
        /\ inbox' = [inbox EXCEPT ![o].state = i]
        /\ inbox[o] = [state |-> "Claimed", gw |-> g]
    BY <1>2, <1>10 DEF RecordResult, At
  <2>2. SessionGoes(n, g, "reporting", o, s.effect, s.reply)
    BY <1>2, <1>3, <2>1, SessionSteps
  <2>3. i \in {"Applied", "Rejected", "RecoveryRequired"}
    BY DEF InboxOf
  <2> HIDE DEF i
  <2>4. /\ inbox' \in [Op -> Row] /\ inbox'[o].state = i /\ inbox'[o].gw = g
        /\ \A q \in Op \ {o} : inbox'[q] = inbox[q]
    <3> DEFINE b == [inbox[o] EXCEPT !.state = i]
    <3>1. b.state = i /\ b.gw = g /\ b \in Row
      BY <1>3, <2>1, <2>3
    <3>2. inbox' = [inbox EXCEPT ![o] = b]
      BY <2>1
    <3> HIDE DEF b
    <3> QED
      BY <1>3, <3>1, <3>2
  <2>5. s.effect \in Effect /\ native[o].effect = s.effect
    BY <1>2, <1>3, <2>1 DEF InHand
  <2>6. InHand(n, g)'
    <3>1. session'[n][g].at = "reporting" /\ session'[n][g].op = o
          /\ session'[n][g].effect = s.effect
      BY <2>2 DEF SessionGoes
    <3> QED
      BY <1>2, <1>6, <2>1, <2>3, <2>4, <2>5, <3>1 DEF InHand, ClaimedOrLater
  <2>7. RunsAfterItsClaim(o)' /\ VerdictIsTrue(o)'
    BY <1>3, <1>6, <2>1, <2>3, <2>4 DEF RunsAfterItsClaim, VerdictIsTrue, ClaimedOrLater, Kind
  <2> QED
    BY <1>3, <1>7, <2>1, <2>2, <2>3, <2>4, <2>6, <2>7
<1> QED
  BY <1>8, <1>9, <1>10

-----------------------------------------------------------------------------
(* Steps of the Control Plane.                                             *)

\* A queue that takes nothing in keeps its bound.
LEMMA QueueKeeps ==
    ASSUME IndInv, NEW n \in Node, InQueue(n)' \subseteq InQueue(n)
    PROVE  Cardinality(InQueue(n))' <= MaxQueue
<1>1. InQueue(n) \subseteq Op
  BY DEF InQueue
<1>2. IsFiniteSet(InQueue(n))
  BY <1>1, Constants, FS_Subset
<1>3. /\ Cardinality(InQueue(n)') <= Cardinality(InQueue(n)) /\ IsFiniteSet(InQueue(n)')
  BY <1>2, FS_Subset
<1>4. Cardinality(InQueue(n)') \in Nat /\ Cardinality(InQueue(n)) \in Nat
  BY <1>2, <1>3, FS_CardinalityType
<1>5. Cardinality(InQueue(n)) <= MaxQueue
  BY DEF IndInv
<1> QED
  BY <1>3, <1>4, <1>5, Constants

\* No gateway but that of n and g is entrusted with the effect of o.
NobodyElse(n, g, o) ==
    \A m \in Node, h \in Gateway :
        (/\ m # n \/ h # g
         /\ session[m][h].at \in {"persisted", "claimed", "applied", "reporting"})
            => session[m][h].op # o

\* The target reports on the latest attempt of one operation.
LEMMA ReportStep ==
    ASSUME IndInv, UNCHANGED <<cpGen, lease, routeSeq, keySeq, storeVars, native>>,
           NEW n \in Node, NEW g \in Gateway, NEW o \in Op, Accepted(o),
           NEW st \in {"TargetPersisted", "Ended"}, NEW k \in Kind \ {"ControlPlaneAccepted"},
           Latest(o).state # "Ended",
           route' = [route EXCEPT ![o] = Moved(@, st)],
           receipts' = receipts \cup {Receipt(o, k, g)},
           NEW at, NEW op, NEW e, NEW r, SessionGoes(n, g, at, op, e, r),
           at = "idle" \/ (at = "persisted" /\ op = o /\ session[n][g].at = "persisting"
                             /\ session[n][g].op = o),
           session[n][g].at # "none",
           InHand(n, g)', VerdictIsTrue(o)',
           k = "TargetPersisted" \/ NobodyElse(n, g, o)
    PROVE  IndInv'
<1>1. /\ OthersKeep(n, g) /\ session' \in [Node -> [Gateway -> Session]]
      /\ session'[n][g].at = at /\ session'[n][g].op = op
      /\ session'[n][g].cp = session[n][g].cp
  BY DEF SessionGoes
<1>2. route \in [Op -> Seq(Attempt)] /\ route[o] # <<>> /\ WellRouted(route[o])
  BY DEF IndInv, TypeOK, Accepted
<1> DEFINE z == Moved(route[o], st)
<1>3. /\ z \in Seq(Attempt) /\ z # <<>> /\ WellRouted(z) /\ z[Len(z)].state = st
      /\ z[Len(z)].ord = route[o][Len(route[o])].ord
  BY <1>2, MovedRoute
<1>4. route' = [route EXCEPT ![o] = z]
  OBVIOUS
<1> HIDE DEF z
<1>5. /\ route' \in [Op -> Seq(Attempt)] /\ route'[o] = z
      /\ \A q \in Op \ {o} : route'[q] = route[q]
  BY <1>2, <1>3, <1>4
<1>6. \A q \in Op : Accepted(q)' = Accepted(q) /\ OrdOf(q)' = OrdOf(q)
  BY <1>2, <1>3, <1>5 DEF Accepted, OrdOf, Latest
<1>7. Receipt(o, k, g) \in [op : Op, kind : Kind, gw : Gateway]
      /\ Receipt(o, k, g).op = o /\ Receipt(o, k, g).kind = k
  BY DEF Receipt
<1>8. \A q \in Op : q # o =>
        \A K \in SUBSET Kind : HasReceipt(q, K)' <=> HasReceipt(q, K)
  BY <1>7 DEF HasReceipt
<1>9. receipts \subseteq receipts' /\ UNCHANGED <<inbox, native, active, consumed, outbox>>
  BY DEF storeVars
<1>10. TypeOK'
  BY <1>1, <1>5, <1>7 DEF IndInv, TypeOK, storeVars
<1>11. SessionsSucceed'
  BY <1>1, <1>9, KeepsSuccession
<1>12. \A m \in Node, h \in Gateway : InHand(m, h)'
  <2>1. ASSUME NEW m \in Node, NEW h \in Gateway, m # n \/ h # g
        PROVE  Undisturbed(m, h)
    <3> DEFINE s == session[m][h]
    <3>1. session'[m][h] = s
      BY <1>1, <2>1 DEF OthersKeep
    <3>2. ASSUME s.at \in {"persisted", "claimed", "applied", "reporting"}, HasVerdict(s.op)'
          PROVE  HasVerdict(s.op)
      <4>1. InHand(m, h)
        BY DEF IndInv
      <4>2. PICK q \in Op : q = s.op
        BY <3>2, <4>1 DEF InHand
      <4>3. HasVerdict(q)'
        BY <3>1, <3>2, <4>2 DEF HasVerdict, HasReceipt
      <4>4. CASE q # o
        BY <1>8, <4>2, <4>3, <4>4 DEF HasVerdict, Terminal, Kind
      <4>5. CASE k = "TargetPersisted"
        BY <1>7, <4>2, <4>3, <4>5 DEF HasVerdict, HasReceipt, Terminal
      <4> QED
        BY <2>1, <3>2, <4>2, <4>4, <4>5 DEF NobodyElse
    <3> QED
      BY <1>9, <3>1, <3>2 DEF Undisturbed, HasVerdict, HasReceipt
  <2> QED
    BY <1>9, <2>1, KeepsHands
<1>13. \A m \in Node, h \in Gateway : UnheardIsNew(m, h)'
  <2>1. op \in Op \cup {NoOp}
    BY <1>1 DEF Session
  <2> QED
    BY <1>1, <1>6, <2>1, KeepsUnheard
<1>14. SourceIsTold'
  BY <1>1, <1>9, Holdings, KeepsTold
<1>15. \A q \in Op : InboxKeepsOrder(q)'
  <2>1. \A m \in Node, h \in Gateway :
          session'[m][h].at \in {"persisting", "persisted"} =>
              /\ session[m][h].at \in {"persisting", "persisted"}
              /\ session'[m][h].op = session[m][h].op
    BY <1>1 DEF OthersKeep
  <2>2. /\ consumed' \in [Key -> Nat] /\ \A c \in Key : consumed[c] <= consumed'[c]
        /\ active' \in [Node -> 0..MaxGateway] /\ \A m \in Node : active[m] <= active'[m]
    BY <1>9, Holdings, Constants
  <2> QED
    BY <1>6, <1>9, <2>1, <2>2, KeepsOrder
<1>16. \A q \in Op : RunsAfterItsClaim(q)'
  BY <1>9 DEF IndInv, RunsAfterItsClaim, ClaimedOrLater, HasReceipt
<1>17. ASSUME NEW q \in Op PROVE VerdictIsTrue(q)' /\ PersistedStaysPersisted(q)'
  <2>1. CASE q = o
    BY <1>3, <1>5, <2>1 DEF PersistedStaysPersisted, Accepted, Latest
  <2>2. CASE q # o
    <3>1. VerdictIsTrue(q) /\ PersistedStaysPersisted(q)
      BY DEF IndInv
    <3> QED
      BY <1>5, <1>8, <1>9, <2>2, <3>1
      DEF VerdictIsTrue, PersistedStaysPersisted, Accepted, Latest, Kind
  <2> QED
    BY <2>1, <2>2
<1>18. \A q \in Op : WellRouted(route'[q])
  BY <1>3, <1>5 DEF IndInv
<1>19. \A q \in Op : HasItsPlace(q)'
  BY <1>6 DEF IndInv, HasItsPlace
<1>20. \A m \in Node : Cardinality(InQueue(m))' <= MaxQueue
  <2>1. ASSUME NEW m \in Node PROVE InQueue(m)' \subseteq InQueue(m)
    BY <1>5 DEF InQueue, Accepted, Latest
  <2> QED
    BY <2>1, QueueKeeps
<1> QED
  BY <1>10, <1>11, <1>12, <1>13, <1>14, <1>15, <1>16, <1>17, <1>18, <1>19, <1>20 DEF IndInv

\* The target's reports: persisted, applied or not, expired.
LEMMA Reports ==
    ASSUME IndInv, NEW n \in Node, NEW g \in Gateway,
           RecordTargetPersisted(n, g) \/ RecordReceipt(n, g) \/ RecordExpired(n, g)
    PROVE  IndInv'
<1> DEFINE s == session[n][g]
<1>1. s.at \in {"persisting", "reporting", "expiring"}
  BY DEF RecordTargetPersisted, RecordReceipt, RecordExpired, At
<1>2. PICK o \in Op : o = s.op /\ TargetOf[o] = n
  BY <1>1, TargetHand
<1>3. /\ session \in [Node -> [Gateway -> Session]] /\ InHand(n, g)
  BY Holdings
<1>4. /\ Accepted(o) /\ Latest(o).state # "Ended"
      /\ UNCHANGED <<cpGen, lease, routeSeq, keySeq, storeVars, native>>
  BY <1>2 DEF RecordTargetPersisted, RecordReceipt, RecordExpired, AttemptIs
<1>5. \A k \in Kind : Receipt(o, k, g).op = o /\ Receipt(o, k, g).kind = k
  BY DEF Receipt
<1>6. ASSUME Latest(o).state = "Queued" 
      PROVE  \A k \in Kind \ {"ControlPlaneAccepted"} : ~HasReceipt(o, {k})
  BY <1>6 DEF IndInv, PersistedStaysPersisted, HasReceipt
<1>7. RunsAfterItsClaim(o) /\ VerdictIsTrue(o) /\ native' = native /\ inbox' = inbox
  BY <1>4 DEF IndInv, storeVars
<1>8. CASE RecordTargetPersisted(n, g)
  <2>1. /\ s.at = "persisting" /\ Latest(o).state = "Queued" /\ Goes(n, g, "persisted")
        /\ route' = [route EXCEPT ![o] = Moved(@, "TargetPersisted")]
        /\ receipts' = receipts \cup {Receipt(o, "TargetPersisted", g)}
    BY <1>2, <1>8 DEF RecordTargetPersisted, At, AttemptIs
  <2>2. SessionGoes(n, g, "persisted", o, s.effect, s.reply)
    BY <1>2, <1>3, <2>1, SessionSteps
  <2>3. /\ HasReceipt(o, {"TargetPersisted"})'
        /\ \A k \in Kind \ {"ControlPlaneAccepted", "TargetPersisted"} : ~HasReceipt(o, {k})'
    BY <1>5, <1>6, <2>1 DEF HasReceipt, Kind
  <2>4. ~HasVerdict(o)' /\ VerdictIsTrue(o)'
    BY <2>3 DEF HasVerdict, HasReceipt, VerdictIsTrue, Terminal, Kind
  <2>5. InHand(n, g)'
    <3>1. session'[n][g].at = "persisted" /\ session'[n][g].op = o
      BY <2>2 DEF SessionGoes
    <3>2. inbox[o] = [state |-> "Persisted", gw |-> g]
      BY <1>2, <1>3, <2>1 DEF InHand
    <3> QED
      BY <1>2, <1>7, <2>3, <2>4, <3>1, <3>2 DEF InHand
  <2>6. s.at # "none" /\ s.op = o /\ s.at = "persisting"
    BY <1>2, <2>1
  <2>7. "TargetPersisted" \in Kind \ {"ControlPlaneAccepted"}
    BY DEF Kind
  <2> HIDE DEF s
  <2> QED
    BY <1>4, <2>1, <2>2, <2>4, <2>5, <2>6, <2>7, ReportStep DEF s
<1>9. CASE RecordReceipt(n, g)
  <2> DEFINE k == KindOf(s.effect)
             st == IF s.effect = "Unknown" THEN "TargetPersisted" ELSE "Ended"
  <2>1. /\ s.at = "reporting" /\ session' = Rests(n, g)
        /\ route' = [route EXCEPT ![o] = Moved(@, st)]
        /\ receipts' = receipts \cup {Receipt(o, k, g)}
    BY <1>2, <1>9 DEF RecordReceipt, At
  <2>2. SessionGoes(n, g, "idle", NoOp, "None", "None")
    BY <1>3, <2>1, SessionSteps
  <2>3. /\ s.effect \in Effect /\ native[o].effect = s.effect /\ ~HasVerdict(o)
        /\ inbox[o].gw = g
    BY <1>2, <1>3, <2>1 DEF InHand
  <2>4. k \in Kind \ {"ControlPlaneAccepted"} /\ k \in Terminal \cup {"RecoveryRequired"}
        /\ (k = "OperationApplied" => s.effect = "Applied")
        /\ (k = "OperationRejected" => s.effect = "NotApplied")
        /\ (k = "RecoveryRequired" => s.effect = "Unknown")
    BY <2>3 DEF KindOf, Effect, Kind, Terminal
  <2>5. st \in {"TargetPersisted", "Ended"}
    OBVIOUS
  <2> HIDE DEF k, st
  <2>6. \A x \in Terminal \cup {"RecoveryRequired"} : HasReceipt(o, {x})' => x = k
    BY <1>5, <2>1, <2>3, <2>4 DEF HasReceipt, HasVerdict
  <2>7. VerdictIsTrue(o)'
    BY <1>7, <2>3, <2>4, <2>6 DEF VerdictIsTrue, Terminal
  <2>8. NobodyElse(n, g, o)
    BY <1>2, <2>3, OwnRow DEF NobodyElse
  <2>9. InHand(n, g)'
    <3>1. session'[n][g].at = "idle"
      BY <2>2 DEF SessionGoes
    <3> QED
      BY <3>1 DEF InHand
  <2>10. s.at # "none"
    BY <2>1
  <2> HIDE DEF s
  <2> QED
    BY <1>4, <2>1, <2>2, <2>4, <2>5, <2>7, <2>8, <2>9, <2>10, ReportStep DEF s
<1>10. CASE RecordExpired(n, g)
  <2>1. /\ s.at = "expiring" /\ session' = Rests(n, g) /\ Latest(o).state = "Queued"
        /\ route' = [route EXCEPT ![o] = Moved(@, "Ended")]
        /\ receipts' = receipts \cup {Receipt(o, "OperationRejected", g)}
    BY <1>2, <1>10 DEF RecordExpired, At, AttemptIs
  <2>2. SessionGoes(n, g, "idle", NoOp, "None", "None")
    BY <1>3, <2>1, SessionSteps
  <2>3. ~HasReceipt(o, {"TargetPersisted"})
    BY <1>6, <2>1 DEF Kind
  <2>4. native[o].effect = "None"
    BY <1>7, <2>3 DEF RunsAfterItsClaim
  <2>5. VerdictIsTrue(o)'
    <3>1. ~HasReceipt(o, {"OperationApplied"})' /\ ~HasReceipt(o, {"RecoveryRequired"})'
      BY <1>5, <1>6, <2>1 DEF HasReceipt, Kind
    <3> QED
      BY <1>7, <2>4, <3>1 DEF VerdictIsTrue
  <2>6. NobodyElse(n, g, o)
    <3>1. ASSUME NEW m \in Node, NEW h \in Gateway,
                 session[m][h].at \in {"persisted", "claimed", "applied", "reporting"}
          PROVE  session[m][h].op # o
      <4>1. InHand(m, h)
        BY DEF IndInv
      <4>2. HasReceipt(session[m][h].op, {"TargetPersisted"})
        BY <3>1, <4>1 DEF InHand
      <4> QED
        BY <2>3, <4>2
    <3> QED
      BY <3>1 DEF NobodyElse
  <2>7. InHand(n, g)'
    <3>1. session'[n][g].at = "idle"
      BY <2>2 DEF SessionGoes
    <3> QED
      BY <3>1 DEF InHand
  <2>8. s.at # "none" /\ "OperationRejected" \in Kind \ {"ControlPlaneAccepted"}
    BY <2>1 DEF Kind
  <2> HIDE DEF s
  <2> QED
    BY <1>4, <2>1, <2>2, <2>5, <2>6, <2>7, <2>8, ReportStep DEF s
<1> QED
  BY <1>8, <1>9, <1>10

\* The Control Plane is succeeded: no gateway is current any more.
LEMMA Succession ==
    ASSUME IndInv, SucceedControlPlane
    PROVE  IndInv'
<1>1. /\ cpGen \in 1..MaxControlPlane /\ cpGen' = cpGen + 1 /\ cpGen < MaxControlPlane
      /\ UNCHANGED <<lease, route, receipts, routeSeq, keySeq, session, native>>
      /\ UNCHANGED <<active, inbox, tombstone, consumed, outbox>>
  BY DEF IndInv, TypeOK, SucceedControlPlane, storeVars
<1>2. cpGen \in Nat /\ cpGen' \in 1..MaxControlPlane
  BY <1>1, Constants
<1>3. \A n \in Node : lease[n].cp \in Nat /\ lease[n].cp <= cpGen
  BY Constants DEF IndInv, TypeOK, SessionsSucceed
<1>4. TypeOK'
  BY <1>1, <1>2 DEF IndInv, TypeOK
<1>5. SessionsSucceed'
  <2>1. \A n \in Node : lease[n].cp <= cpGen'
    BY <1>1, <1>2, <1>3
  <2> QED
    BY <1>1, <2>1 DEF IndInv, SessionsSucceed
<1>6. ASSUME NEW n \in Node, NEW g \in Gateway PROVE InHand(n, g)'
  <2>1. InHand(n, g)
    BY DEF IndInv
  <2> QED
    BY <1>1, <2>1 DEF InHand, HasReceipt, HasVerdict, ClaimedOrLater
<1>7. ASSUME NEW n \in Node, NEW g \in Gateway PROVE UnheardIsNew(n, g)'
  <2>1. lease'[n].cp # cpGen'
    BY <1>1, <1>2, <1>3
  <2> QED
    BY <2>1 DEF UnheardIsNew, CurrentGateway
<1>8. SourceIsTold'
  BY <1>1 DEF IndInv, SourceIsTold, At, HasReceipt
<1>9. \A o \in Op : InboxKeepsOrder(o)'
  BY <1>1 DEF IndInv, InboxKeepsOrder, Accepted, OrdOf, Latest
<1>10. \A o \in Op : RunsAfterItsClaim(o)' /\ VerdictIsTrue(o)' /\ PersistedStaysPersisted(o)'
  BY <1>1 DEF IndInv, RunsAfterItsClaim, VerdictIsTrue, HasReceipt, ClaimedOrLater,
              PersistedStaysPersisted, Accepted, Latest
<1>11. \A o \in Op : WellRouted(route'[o]) /\ HasItsPlace(o)'
  BY <1>1 DEF IndInv, HasItsPlace, Accepted, OrdOf, Latest
<1>12. ASSUME NEW n \in Node PROVE Cardinality(InQueue(n))' <= MaxQueue
  <2>1. InQueue(n)' = InQueue(n)
    BY <1>1 DEF InQueue, Accepted, Latest
  <2> QED
    BY <2>1, QueueKeeps
<1> QED
  BY <1>4, <1>5, <1>6, <1>7, <1>8, <1>9, <1>10, <1>11, <1>12 DEF IndInv

\* The gateway of m and h is told that o, which it submits, is accepted.
Told(m, h, o) ==
    /\ session'[m][h].at = "answered" /\ session'[m][h].reply = "ControlPlaneAccepted"
    /\ session'[m][h].op = o /\ session'[m][h].cp = session[m][h].cp
    /\ session[m][h].at = "submitting" /\ session[m][h].op = o /\ CurrentGateway(m, h)

\* An operation that is new to the Store takes the next place of its key.
LEMMA EnqueueStep ==
    ASSUME IndInv, NEW o \in Op, Enqueue(o), UNCHANGED <<storeVars, native>>,
           session' \in [Node -> [Gateway -> Session]],
           \A m \in Node, h \in Gateway : session'[m][h] = session[m][h] \/ Told(m, h, o),
           SourceOf[o] = ControlPlane \/ \E h \in Gateway : Told(SourceOf[o], h, o)
    PROVE  IndInv'
<1> DEFINE n == TargetOf[o]
           k == KeyOf[o]
           b == [gw |-> lease[n].gen, cp |-> cpGen, route |-> routeSeq[n] + 1,
                 ord |-> keySeq[k] + 1, state |-> "Queued"]
           rc == Receipt(o, "ControlPlaneAccepted", lease[n].gen)
<1>1. /\ ~Accepted(o) /\ lease[n].cp = cpGen /\ HasRoom(n)
      /\ route' = [route EXCEPT ![o] = <<b>>] /\ receipts' = receipts \cup {rc}
      /\ routeSeq' = [routeSeq EXCEPT ![n] = @ + 1] /\ keySeq' = [keySeq EXCEPT ![k] = @ + 1]
      /\ UNCHANGED <<cpGen, lease, active, inbox, tombstone, consumed, outbox, native>>
  BY DEF Enqueue, storeVars
<1>2. n \in Node /\ k \in Key
  BY Constants
<1>3. /\ lease[n].gen \in Gateway /\ cpGen \in 1..MaxControlPlane
      /\ routeSeq[n] \in Nat /\ keySeq[k] \in Nat
  <2>1. /\ lease[n] \in [gen : 0..MaxGateway, cp : 0..MaxControlPlane]
        /\ cpGen \in 1..MaxControlPlane /\ routeSeq[n] \in Nat /\ keySeq[k] \in Nat
    BY <1>2 DEF IndInv, TypeOK
  <2>2. lease[n].gen # 0
    BY <1>1, <1>2, <2>1, Constants DEF IndInv, SessionsSucceed
  <2> QED
    BY <2>1, <2>2, Constants DEF Gateway
<1>4. b \in Attempt /\ b.ord = keySeq[k] + 1 /\ b.state = "Queued"
  BY <1>3 DEF Attempt
<1>5. rc \in [op : Op, kind : Kind, gw : Gateway] /\ rc.op = o /\ rc.kind = "ControlPlaneAccepted"
  BY <1>3 DEF Receipt, Kind
<1> HIDE DEF b, rc
<1>6. /\ route' \in [Op -> Seq(Attempt)] /\ route'[o] = <<b>>
      /\ \A q \in Op \ {o} : route'[q] = route[q]
  <2>1. <<b>> \in Seq(Attempt)
    BY <1>4
  <2> QED
    BY <1>1, <2>1 DEF IndInv, TypeOK
<1>7. /\ keySeq' \in [Key -> Nat] /\ keySeq'[k] = keySeq[k] + 1
      /\ \A c \in Key : keySeq[c] <= keySeq'[c]
      /\ routeSeq' \in [Node -> Nat]
  <2>1. keySeq[k] + 1 \in Nat /\ routeSeq[n] + 1 \in Nat
    BY <1>3
  <2>2. keySeq \in [Key -> Nat] /\ routeSeq \in [Node -> Nat]
    BY DEF IndInv, TypeOK
  <2> QED
    BY <1>1, <1>2, <2>1, <2>2
<1>8. TypeOK'
  BY <1>1, <1>5, <1>6, <1>7 DEF IndInv, TypeOK
<1>9. receipts \subseteq receipts'
      /\ \A q, K : K \subseteq Kind \ {"ControlPlaneAccepted"} =>
           (HasReceipt(q, K)' <=> HasReceipt(q, K))
  BY <1>1, <1>5 DEF HasReceipt
<1>10. /\ Len(<<b>>) = 1 /\ <<b>>[1] = b /\ <<b>> # <<>>
  OBVIOUS
<1>11. /\ Accepted(o)' /\ OrdOf(o)' = keySeq[k] + 1
       /\ \A q \in Op \ {o} : Accepted(q)' = Accepted(q) /\ OrdOf(q)' = OrdOf(q)
                              /\ Latest(q)' = Latest(q)
  <2>1. Accepted(o)' /\ OrdOf(o)' = keySeq[k] + 1
    BY <1>4, <1>6, <1>10 DEF Accepted, OrdOf, Latest
  <2> QED
    BY <1>6, <2>1 DEF Accepted, OrdOf, Latest
<1>12. \A m \in Node, h \in Gateway :
         /\ session'[m][h].cp = session[m][h].cp
         /\ session'[m][h].at # "none" <=> session[m][h].at # "none"
         /\ session'[m][h].at \in {"persisting", "persisted"} => session'[m][h] = session[m][h]
  BY DEF Told
<1>13. SessionsSucceed'
  <2>1. \A m \in Node : active[m] # 0 => active[m] \in Gateway
    BY Holdings, Constants DEF Gateway
  <2> QED
    BY <1>1, <1>12, <2>1 DEF IndInv, SessionsSucceed
<1>14. ASSUME NEW m \in Node, NEW h \in Gateway PROVE InHand(m, h)'
  <2>1. InHand(m, h)
    BY DEF IndInv
  <2>2. CASE Told(m, h, o)
    BY <2>1, <2>2 DEF InHand, Told
  <2>3. CASE session'[m][h] = session[m][h]
    <3>1. \A q : /\ HasReceipt(q, {"TargetPersisted"}) => HasReceipt(q, {"TargetPersisted"})'
                 /\ HasVerdict(q)' => HasVerdict(q)
      BY <1>9 DEF HasReceipt, HasVerdict, Terminal, Kind
    <3> QED
      BY <1>1, <2>1, <2>3, <3>1 DEF InHand, ClaimedOrLater
  <2> QED
    BY <2>2, <2>3
<1>15. ASSUME NEW m \in Node, NEW h \in Gateway PROVE UnheardIsNew(m, h)'
  <2>1. InHand(m, h) /\ UnheardIsNew(m, h)
    BY DEF IndInv
  <2>2. CASE Told(m, h, o)
    BY <2>2 DEF Told, UnheardIsNew, At
  <2>3. CASE ~Told(m, h, o)
    <3>1. SUFFICES ASSUME CurrentGateway(m, h)',
                          \/ session[m][h].at = "submitting"
                          \/ session[m][h].at = "answered" /\ session[m][h].reply = "None"
                   PROVE  ~Accepted(session[m][h].op)'
      BY <2>3 DEF UnheardIsNew, At
    <3>2. CurrentGateway(m, h) /\ session'[m][h] = session[m][h]
      BY <1>1, <2>3, <3>1 DEF CurrentGateway
    <3>3. PICK q \in Op : q = session[m][h].op /\ SourceOf[q] = m
      BY <2>1, <3>1 DEF InHand
    <3>4. q # o
      <4>1. SUFFICES ASSUME q = o PROVE FALSE
        OBVIOUS
      <4>2. SourceOf[o] # ControlPlane
        BY <3>3, <4>1, FabricAssumption DEF FabricAssumption
      <4>3. PICK i \in Gateway : Told(m, i, o)
        BY <3>3, <4>1, <4>2
      <4>4. i = h
        BY <3>2, <4>3 DEF CurrentGateway, Told
      <4> QED
        BY <2>3, <4>3, <4>4
    <3>5. ~Accepted(q)
      BY <2>1, <3>1, <3>2, <3>3 DEF UnheardIsNew, At
    <3>6. ~Accepted(q)'
      BY <1>11, <3>4, <3>5
    <3> QED
      BY <3>2, <3>3, <3>6 DEF Accepted
  <2> QED
    BY <2>2, <2>3
<1>16. SourceIsTold'
  <2>1. \A q \in Op : outbox'[q].truth \in Terminal =>
          \E x \in receipts' : x.op = q /\ x.kind = outbox'[q].truth
    <3>1. \A q \in Op : outbox[q].truth \in Terminal => HasReceipt(q, {outbox[q].truth})
      BY Holdings
    <3> QED
      BY <1>1, <1>9, <3>1 DEF HasReceipt
  <2>2. ASSUME NEW m \in Node, NEW h \in Gateway, At(m, h, "answered")',
               session'[m][h].reply \in Terminal
        PROVE  \E x \in receipts' :
                 x.op = session'[m][h].op /\ x.kind = session'[m][h].reply
    <3>1. session'[m][h] = session[m][h]
      BY <2>2 DEF Told, Terminal, At
    <3>2. HasReceipt(session[m][h].op, {session[m][h].reply})
      BY <2>2, <3>1 DEF IndInv, SourceIsTold, At
    <3> QED
      BY <1>9, <3>1, <3>2 DEF HasReceipt
  <2> QED
    BY <2>1, <2>2 DEF SourceIsTold, HasReceipt
<1>17. \A q \in Op : InboxKeepsOrder(q)'
  <2>1. /\ consumed' \in [Key -> Nat] /\ \A c \in Key : consumed[c] <= consumed'[c]
        /\ active' \in [Node -> 0..MaxGateway] /\ \A m \in Node : active[m] <= active'[m]
    BY <1>1, Holdings, Constants
  <2>2. \A q \in Op : Accepted(q) => Accepted(q)' /\ OrdOf(q)' = OrdOf(q)
    BY <1>1, <1>11
  <2> QED
    BY <1>1, <1>12, <2>1, <2>2, KeepsOrder
<1>18. ASSUME NEW q \in Op
       PROVE  RunsAfterItsClaim(q)' /\ VerdictIsTrue(q)' /\ PersistedStaysPersisted(q)'
  <2>1. RunsAfterItsClaim(q) /\ VerdictIsTrue(q) /\ PersistedStaysPersisted(q)
    BY DEF IndInv
  <2>2. \A x \in Kind \ {"ControlPlaneAccepted"} : HasReceipt(q, {x})' <=> HasReceipt(q, {x})
    BY <1>9
  <2>3. HasReceipt(q, Kind \ {"ControlPlaneAccepted"})' <=>
          HasReceipt(q, Kind \ {"ControlPlaneAccepted"})
    BY <1>9
  <2>4. RunsAfterItsClaim(q)' /\ VerdictIsTrue(q)'
    BY <1>1, <2>1, <2>2 DEF RunsAfterItsClaim, VerdictIsTrue, ClaimedOrLater, Kind
  <2>5. PersistedStaysPersisted(q)'
    BY <1>1, <1>11, <2>1, <2>3 DEF PersistedStaysPersisted
  <2> QED
    BY <2>4, <2>5
<1>19. \A q \in Op : WellRouted(route'[q])
  <2>1. WellRouted(<<b>>)
    BY <1>10 DEF WellRouted
  <2> QED
    BY <1>6, <2>1 DEF IndInv
<1>20. ASSUME NEW q \in Op, Accepted(q)' PROVE HasItsPlace(q)'
  <2>1. \A x \in Op : x # o /\ Accepted(x) =>
          /\ OrdOf(x) \in Nat /\ OrdOf(x) <= keySeq[KeyOf[x]] /\ KeyOf[x] \in Key
          /\ \A y \in Op : y # x /\ Accepted(y) /\ KeyOf[y] = KeyOf[x] => OrdOf(y) # OrdOf(x)
    BY Places, Constants DEF IndInv, HasItsPlace
  <2>2. \A x \in Op : x # o /\ Accepted(x) /\ KeyOf[x] = k => OrdOf(x)' # OrdOf(o)'
    BY <1>3, <1>11, <2>1
  <2>3. CASE q = o
    BY <1>3, <1>7, <1>11, <2>2, <2>3 DEF HasItsPlace
  <2>4. CASE q # o
    <3>1. OrdOf(q)' <= keySeq'[KeyOf[q]]
      <4>1. keySeq[KeyOf[q]] \in Nat /\ keySeq'[KeyOf[q]] \in Nat
        BY <1>7, Constants DEF IndInv, TypeOK
      <4> QED
        BY <1>7, <1>11, <1>20, <2>1, <2>4, <4>1
    <3>2. \A y \in Op : y # q /\ Accepted(y)' /\ KeyOf[y] = KeyOf[q] => OrdOf(y)' # OrdOf(q)'
      BY <1>11, <1>20, <2>1, <2>2, <2>4
    <3> QED
      BY <3>1, <3>2 DEF HasItsPlace
  <2> QED
    BY <2>3, <2>4
<1>21. ASSUME NEW m \in Node PROVE Cardinality(InQueue(m))' <= MaxQueue
  <2>1. \A q \in Op \ {o} : q \in InQueue(m)' => q \in InQueue(m)
    BY <1>11 DEF InQueue
  <2>2. CASE m # n
    <3>1. InQueue(m)' \subseteq InQueue(m)
      BY <2>1, <2>2 DEF InQueue
    <3> QED
      BY <3>1, QueueKeeps
  <2>3. CASE m = n
    <3> DEFINE Q == InQueue(n)
    <3>1. Q \subseteq Op
      BY DEF InQueue
    <3>2. IsFiniteSet(Q) /\ Cardinality(Q) \in Nat /\ Cardinality(Q) < MaxQueue
      BY <1>1, <3>1, Constants, FS_Subset, FS_CardinalityType DEF HasRoom
    <3>3. o \notin Q
      BY <1>1 DEF InQueue
    <3>4. IsFiniteSet(Q \cup {o}) /\ Cardinality(Q \cup {o}) = Cardinality(Q) + 1
      BY <3>2, <3>3, FS_AddElement
    <3>5. InQueue(n)' \subseteq Q \cup {o}
      <4>1. InQueue(n)' \subseteq Op
        BY DEF InQueue
      <4> QED
        BY <2>1, <2>3, <4>1
    <3>6. IsFiniteSet(InQueue(n)') /\ Cardinality(InQueue(n)') <= Cardinality(Q \cup {o})
      BY <3>4, <3>5, FS_Subset
    <3>7. Cardinality(InQueue(n)') \in Nat
      BY <3>6, FS_CardinalityType
    <3> HIDE DEF Q
    <3>8. Cardinality(InQueue(n)') <= MaxQueue
      BY <3>2, <3>4, <3>6, <3>7, Constants
    <3> QED
      BY <2>3, <3>8
  <2> QED
    BY <2>2, <2>3
<1>22. \A q \in Op : HasItsPlace(q)'
  BY <1>20 DEF HasItsPlace
<1> QED
  BY <1>8, <1>13, <1>14, <1>15, <1>16, <1>17, <1>18, <1>19, <1>21, <1>22 DEF IndInv

\* Operations are accepted from their source, or are the Control Plane's own.
LEMMA Acceptances ==
    ASSUME IndInv,
           \/ \E o \in Op : AcceptControlPlaneOperation(o)
           \/ \E n \in Node, g \in Gateway : AcceptOperation(n, g)
    PROVE  IndInv'
<1>1. session \in [Node -> [Gateway -> Session]]
  BY Holdings
<1>2. ASSUME NEW o \in Op, AcceptControlPlaneOperation(o) PROVE IndInv'
  BY <1>1, <1>2, EnqueueStep DEF AcceptControlPlaneOperation
<1>3. ASSUME NEW n \in Node, NEW g \in Gateway, AcceptOperation(n, g) PROVE IndInv'
  <2>1. /\ session[n][g].at = "submitting" /\ CurrentGateway(n, g)
        /\ UNCHANGED <<storeVars, native>>
        /\ session' = [session EXCEPT ![n][g].at = "answered",
                                      ![n][g].reply = "ControlPlaneAccepted"]
    BY <1>3 DEF AcceptOperation, At
  <2>2. PICK o \in Op : o = session[n][g].op /\ SourceOf[o] = n
    <3>1. InHand(n, g)
      BY Holdings
    <3> QED
      BY <2>1, <3>1 DEF InHand
  <2>3. Enqueue(o)
    BY <1>3, <2>2 DEF AcceptOperation
  <2>4. SessionGoes(n, g, "answered", o, session[n][g].effect, "ControlPlaneAccepted")
    <3>1. "ControlPlaneAccepted" \in Kind \cup {"None"}
      BY DEF Kind
    <3> QED
      BY <1>1, <2>1, <2>2, <3>1, SessionSteps
  <2>5. Told(n, g, o)
    BY <2>1, <2>2, <2>4 DEF Told, SessionGoes
  <2>6. session' \in [Node -> [Gateway -> Session]]
    BY <2>4 DEF SessionGoes
  <2>7. \A m \in Node, h \in Gateway : session'[m][h] = session[m][h] \/ Told(m, h, o)
    BY <2>4, <2>5 DEF SessionGoes, OthersKeep
  <2> QED
    BY <2>1, <2>2, <2>3, <2>5, <2>6, <2>7, EnqueueStep
<1> QED
  BY <1>2, <1>3

\* What reconnecting does to the routes and the receipts: E is given up, R is
\* tried again.
LEMMA ConnectRoutes ==
    ASSUME IndInv, NEW n \in Node, NEW E \in SUBSET Op, Connect(n, E)
    PROVE  LET R == Waiting(n) \ E IN
           /\ route' \in [Op -> Seq(Attempt)] /\ routeSeq' \in [Node -> Nat]
           /\ receipts' \subseteq [op : Op, kind : Kind, gw : Gateway]
           /\ receipts \subseteq receipts'
           /\ \A o \in E \cup R : Accepted(o) /\ Latest(o).state = "Queued" /\ TargetOf[o] = n
                                  /\ ~HasReceipt(o, Kind \ {"ControlPlaneAccepted"})
           /\ \A o \in Op : /\ Accepted(o)' = Accepted(o)
                            /\ Accepted(o) => OrdOf(o)' = OrdOf(o)
                            /\ WellRouted(route'[o])
                            /\ o \notin E \cup R => route'[o] = route[o]
                            /\ o \in E => Latest(o)'.state = "Ended"
           /\ \A o \in Op, K \in SUBSET (Kind \ {"ControlPlaneAccepted"}) :
                HasReceipt(o, K)' <=>
                  HasReceipt(o, K) \/ (o \in E /\ "OperationRejected" \in K)
<1> DEFINE g == lease[n].gen + 1
           R == Waiting(n) \ E
<1>1. /\ g <= MaxGateway /\ E \subseteq Waiting(n)
      /\ route' = [o \in Op |-> IF o \in E THEN Moved(route[o], "Ended")
                                ELSE IF o \in R THEN Retried(n, o, g, R)
                                ELSE route[o]]
      /\ receipts' = receipts
           \cup {Receipt(o, "OperationRejected", g) : o \in E}
           \cup {Receipt(o, "ControlPlaneAccepted", g) : o \in R}
      /\ routeSeq' = [routeSeq EXCEPT ![n] = @ + Cardinality(R)]
  BY DEF Connect
<1>2. /\ lease[n].gen \in 0..MaxGateway /\ cpGen \in 1..MaxControlPlane
      /\ routeSeq \in [Node -> Nat] /\ routeSeq[n] \in Nat
      /\ route \in [Op -> Seq(Attempt)]
      /\ receipts \subseteq [op : Op, kind : Kind, gw : Gateway]
  BY DEF IndInv, TypeOK
<1>3. g \in Gateway
  BY <1>1, <1>2, Constants DEF Gateway
<1>4. \A S \in SUBSET R : Cardinality(S) \in Nat
  <2>1. R \subseteq Op
    BY DEF Waiting
  <2>2. ASSUME NEW S \in SUBSET R PROVE Cardinality(S) \in Nat
    BY <2>1, Constants, FS_Subset, FS_CardinalityType
  <2> QED
    BY <2>2
<1>5. \A o \in E \cup R : /\ o \in Op /\ Accepted(o) /\ Latest(o).state = "Queued"
                          /\ TargetOf[o] = n
                          /\ ~HasReceipt(o, Kind \ {"ControlPlaneAccepted"})
  BY <1>1 DEF Waiting, Unpersisted
<1> HIDE DEF R, g
<1>6. routeSeq' \in [Node -> Nat]
  <2>1. routeSeq[n] + Cardinality(R) \in Nat
    BY <1>2, <1>4
  <2> QED
    BY <1>1, <1>2, <2>1
<1>7. ASSUME NEW o \in Op
      PROVE  /\ route'[o] \in Seq(Attempt) /\ Accepted(o)' = Accepted(o)
             /\ Accepted(o) => OrdOf(o)' = OrdOf(o)
             /\ WellRouted(route'[o])
             /\ o \notin E \cup R => route'[o] = route[o]
             /\ o \in E => Latest(o)'.state = "Ended"
  <2>1. route[o] \in Seq(Attempt) /\ WellRouted(route[o])
    BY <1>2 DEF IndInv
  <2>2. CASE o \in E
    <3> DEFINE z == Moved(route[o], "Ended")
    <3>1. route'[o] = z
      BY <1>1, <2>2
    <3>2. Accepted(o) /\ route[o] # <<>>
      BY <1>5, <2>2 DEF Accepted
    <3>3. /\ z \in Seq(Attempt) /\ z # <<>> /\ WellRouted(z) /\ z[Len(z)].state = "Ended"
          /\ z[Len(z)].ord = route[o][Len(route[o])].ord
      BY <2>1, <3>2, MovedRoute
    <3> HIDE DEF z
    <3> QED
      BY <2>2, <3>1, <3>2, <3>3 DEF Accepted, OrdOf, Latest
  <2>3. CASE o \notin E /\ o \in R
    <3> DEFINE c == Cardinality({q \in R : q <= o})
               b == [gw |-> g, cp |-> cpGen, route |-> routeSeq[n] + c,
                     ord |-> Latest(o).ord, state |-> "Queued"]
               z == Append(Moved(route[o], "Ended"), b)
    <3>1. route'[o] = z
      BY <1>1, <2>3 DEF Retried
    <3>2. Accepted(o) /\ route[o] # <<>>
      BY <1>5, <2>3 DEF Accepted
    <3>3. Latest(o).ord \in Nat
      BY <3>2, Places DEF OrdOf
    <3>4. c \in Nat
      BY <1>4
    <3> HIDE DEF c
    <3>5. b \in Attempt /\ b.ord = Latest(o).ord
      BY <1>2, <1>3, <3>3, <3>4 DEF Attempt
    <3> HIDE DEF b
    <3>6. b.ord = route[o][Len(route[o])].ord
      BY <3>5 DEF Latest
    <3>7. z \in Seq(Attempt) /\ z # <<>> /\ WellRouted(z) /\ z[Len(z)] = b
      BY <2>1, <3>2, <3>5, <3>6, RetriedRoute
    <3> HIDE DEF z
    <3> QED
      BY <2>3, <3>1, <3>2, <3>5, <3>7 DEF Accepted, OrdOf, Latest
  <2>4. CASE o \notin E /\ o \notin R
    <3>1. route'[o] = route[o]
      BY <1>1, <2>4
    <3> QED
      BY <2>1, <2>4, <3>1 DEF Accepted, OrdOf, Latest
  <2> QED
    BY <2>2, <2>3, <2>4
<1>8. route' \in [Op -> Seq(Attempt)]
  <2>1. \A o \in Op : route'[o] \in Seq(Attempt)
    BY <1>7
  <2>2. route' = [o \in Op |-> route'[o]]
    BY <1>1
  <2> QED
    BY <2>1, <2>2
<1>9. \A o \in Op : /\ Receipt(o, "OperationRejected", g) \in [op : Op, kind : Kind, gw : Gateway]
                    /\ Receipt(o, "ControlPlaneAccepted", g) \in [op : Op, kind : Kind, gw : Gateway]
                    /\ Receipt(o, "OperationRejected", g).op = o
                    /\ Receipt(o, "ControlPlaneAccepted", g).op = o
                    /\ Receipt(o, "OperationRejected", g).kind = "OperationRejected"
                    /\ Receipt(o, "ControlPlaneAccepted", g).kind = "ControlPlaneAccepted"
  BY <1>3 DEF Receipt, Kind
<1>10. receipts' \subseteq [op : Op, kind : Kind, gw : Gateway] /\ receipts \subseteq receipts'
  BY <1>1, <1>2, <1>5, <1>9
<1>11. ASSUME NEW o \in Op, NEW K \in SUBSET (Kind \ {"ControlPlaneAccepted"})
       PROVE  HasReceipt(o, K)' <=>
                HasReceipt(o, K) \/ (o \in E /\ "OperationRejected" \in K)
  <2>1. HasReceipt(o, K)' => HasReceipt(o, K) \/ (o \in E /\ "OperationRejected" \in K)
    BY <1>1, <1>5, <1>9, <1>11 DEF HasReceipt
  <2>2. HasReceipt(o, K) => HasReceipt(o, K)'
    BY <1>10 DEF HasReceipt
  <2>3. o \in E /\ "OperationRejected" \in K => HasReceipt(o, K)'
    BY <1>1, <1>9 DEF HasReceipt
  <2> QED
    BY <2>1, <2>2, <2>3
<1> QED
  BY <1>5, <1>6, <1>7, <1>8, <1>10, <1>11 DEF R

\* A gateway connects, and what waited for its predecessor is settled or bound
\* to it.
LEMMA Connecting ==
    ASSUME IndInv, NEW n \in Node, NEW E \in SUBSET Op, Connect(n, E)
    PROVE  IndInv'
<1>0. PICK g \in Gateway : g = lease[n].gen + 1
  <2>1. lease[n].gen \in 0..MaxGateway /\ lease[n].gen + 1 <= MaxGateway
    BY DEF IndInv, TypeOK, Connect
  <2> QED
    BY <2>1, Constants DEF Gateway
<1> DEFINE R == Waiting(n) \ E
           w == [NoSession EXCEPT !.at = "welcome", !.cp = cpGen]
           l == [gen |-> g, cp |-> cpGen]
<1>1. /\ g <= MaxGateway /\ lease' = [lease EXCEPT ![n] = l]
      /\ session' = [session EXCEPT ![n][g] = w]
      /\ UNCHANGED <<cpGen, keySeq, active, inbox, tombstone, consumed, outbox, native>>
  BY <1>0 DEF Connect, storeVars
<1>2. /\ lease[n].gen \in 0..MaxGateway /\ cpGen \in 1..MaxControlPlane
      /\ lease \in [Node -> [gen : 0..MaxGateway, cp : 0..MaxControlPlane]]
      /\ session \in [Node -> [Gateway -> Session]]
  BY DEF IndInv, TypeOK
<1>3. g \in Gateway /\ g \in Nat /\ lease[n].gen \in Nat /\ g > lease[n].gen /\ g # 0
      /\ cpGen \in Nat /\ cpGen \in 0..MaxControlPlane
  BY <1>0, <1>1, <1>2, Constants
<1>4. w \in Session /\ w.at = "welcome" /\ w.cp = cpGen
  BY <1>3 DEF Session, NoSession
<1>5. l \in [gen : 0..MaxGateway, cp : 0..MaxControlPlane] /\ l.gen = g /\ l.cp = cpGen
  BY <1>1, <1>2, <1>3, Constants
<1> HIDE DEF w, l
<1>6. /\ session' \in [Node -> [Gateway -> Session]] /\ session'[n][g] = w /\ OthersKeep(n, g)
  BY <1>1, <1>2, <1>3, <1>4, SessionWrite
<1>7. /\ lease' \in [Node -> [gen : 0..MaxGateway, cp : 0..MaxControlPlane]]
      /\ lease'[n] = l /\ \A m \in Node \ {n} : lease'[m] = lease[m]
  BY <1>1, <1>2, <1>5
<1>8. /\ route' \in [Op -> Seq(Attempt)] /\ routeSeq' \in [Node -> Nat]
      /\ receipts' \subseteq [op : Op, kind : Kind, gw : Gateway]
      /\ receipts \subseteq receipts'
  BY ConnectRoutes
<1>9. \A o \in E \cup R : Accepted(o) /\ Latest(o).state = "Queued" /\ TargetOf[o] = n
                          /\ ~HasReceipt(o, Kind \ {"ControlPlaneAccepted"})
  BY ConnectRoutes
<1>10. \A o \in Op : /\ Accepted(o)' = Accepted(o)
                     /\ Accepted(o) => OrdOf(o)' = OrdOf(o)
                     /\ WellRouted(route'[o])
                     /\ o \notin E \cup R => route'[o] = route[o]
                     /\ o \in E => Latest(o)'.state = "Ended"
  BY ConnectRoutes
<1>11. \A o \in Op, K \in SUBSET (Kind \ {"ControlPlaneAccepted"}) :
         HasReceipt(o, K)' <=> HasReceipt(o, K) \/ (o \in E /\ "OperationRejected" \in K)
  BY ConnectRoutes
<1> HIDE DEF R
<1>12. TypeOK'
  BY <1>1, <1>6, <1>7, <1>8 DEF IndInv, TypeOK
<1>13. SessionsSucceed'
  <2>1. \A m \in Node : lease'[m].gen = 0 => lease'[m].cp = 0
    BY <1>3, <1>5, <1>7 DEF IndInv, SessionsSucceed
  <2>2. \A m \in Node : lease'[m].cp <= cpGen'
    BY <1>1, <1>3, <1>5, <1>7 DEF IndInv, SessionsSucceed
  <2>3. ASSUME NEW m \in Node, active'[m] # 0 PROVE session'[m][active'[m]].at # "none"
    <3>1. active[m] \in Gateway /\ session[m][active[m]].at # "none"
      BY <1>1, <2>3, Holdings, Constants DEF Gateway, IndInv, SessionsSucceed
    <3> QED
      BY <1>1, <1>4, <1>6, <3>1 DEF OthersKeep
  <2>4. \A m \in Node, h \in Gateway :
          /\ session[m][h].cp \in Nat /\ h \in Nat /\ lease[m].cp \in Nat /\ lease[m].gen \in Nat
          /\ session[m][h].at # "none" => h <= lease[m].gen
          /\ session[m][h].cp <= lease[m].cp /\ lease[m].cp <= cpGen
    <3>1. \A m \in Node, h \in Gateway : session[m][h] \in Session
      BY <1>2
    <3>2. \A m \in Node, h \in Gateway :
            session[m][h].cp \in Nat /\ h \in Nat /\ lease[m].cp \in Nat /\ lease[m].gen \in Nat
      BY <1>2, <3>1, Constants DEF Session
    <3> QED
      BY <3>2 DEF IndInv, SessionsSucceed
  <2>5. ASSUME NEW m \in Node, NEW h \in Gateway
        PROVE  /\ session'[m][h].at # "none" => h <= lease'[m].gen
               /\ session'[m][h].cp <= lease'[m].cp
    <3>1. CASE m = n /\ h = g
      BY <1>3, <1>4, <1>5, <1>6, <1>7, <3>1
    <3>2. CASE m = n /\ h # g
      <4>1. session'[m][h] = session[m][h]
        BY <1>6, <3>2 DEF OthersKeep
      <4>2. lease'[m].gen = g /\ lease'[m].cp = cpGen
        BY <1>5, <1>7, <3>2
      <4> QED
        BY <1>3, <2>4, <3>2, <4>1, <4>2
    <3>3. CASE m # n
      <4>1. session'[m][h] = session[m][h] /\ lease'[m] = lease[m]
        BY <1>6, <1>7, <3>3 DEF OthersKeep
      <4> QED
        BY <2>4, <4>1
    <3> QED
      BY <3>1, <3>2, <3>3
  <2>6. ASSUME NEW m \in Node, NEW h \in Gateway, NEW i \in Gateway,
               h < i, session'[m][i].at # "none"
        PROVE  session'[m][h].cp <= session'[m][i].cp
    <3>1. CASE m = n /\ i = g
      <4>1. session'[m][h] = session[m][h] /\ session'[m][i].cp = cpGen
        BY <1>3, <1>4, <1>6, <2>4, <2>6, <3>1 DEF OthersKeep
      <4> QED
        BY <1>3, <2>4, <4>1
    <3>2. CASE m = n /\ h = g /\ i # g
      <4>1. session[m][i].at # "none"
        BY <1>6, <2>6, <3>2 DEF OthersKeep
      <4> QED
        BY <1>3, <2>4, <2>6, <3>2, <4>1
    <3>3. CASE m # n \/ (h # g /\ i # g)
      <4>1. session'[m][h] = session[m][h] /\ session'[m][i] = session[m][i]
        BY <1>6, <3>3 DEF OthersKeep
      <4> QED
        BY <2>6, <4>1 DEF IndInv, SessionsSucceed
    <3> QED
      BY <3>1, <3>2, <3>3
  <2> QED
    BY <2>1, <2>2, <2>3, <2>5, <2>6 DEF SessionsSucceed
<1>14. \A m \in Node, h \in Gateway : InHand(m, h)'
  <2>1. InHand(n, g)'
    BY <1>4, <1>6 DEF InHand
  <2>2. ASSUME NEW m \in Node, NEW h \in Gateway, m # n \/ h # g
        PROVE  Undisturbed(m, h)
    <3> DEFINE s == session[m][h]
    <3>1. session'[m][h] = s
      BY <1>6, <2>2 DEF OthersKeep
    <3>2. ASSUME s.at \in {"persisted", "claimed", "applied", "reporting"}, HasVerdict(s.op)'
          PROVE  HasVerdict(s.op)
      <4>1. InHand(m, h)
        BY DEF IndInv
      <4>2. PICK q \in Op : q = s.op
        BY <3>2, <4>1 DEF InHand
      <4>3. HasVerdict(q)'
        BY <3>1, <3>2, <4>2 DEF HasVerdict, HasReceipt
      <4>4. HasReceipt(q, {"TargetPersisted"})
        BY <3>2, <4>1, <4>2 DEF InHand
      <4>5. q \notin E
        BY <1>9, <4>4 DEF HasReceipt, Kind
      <4> QED
        BY <1>11, <4>2, <4>3, <4>5 DEF HasVerdict, Terminal, Kind
    <3> QED
      BY <1>1, <3>1, <3>2 DEF Undisturbed, HasVerdict, HasReceipt
  <2> QED
    BY <1>3, <1>8, <2>1, <2>2, KeepsHands
<1>15. ASSUME NEW m \in Node, NEW h \in Gateway PROVE UnheardIsNew(m, h)'
  <2>1. InHand(m, h) /\ UnheardIsNew(m, h)
    BY DEF IndInv
  <2>2. CASE m = n
    <3>1. CASE h = g
      BY <1>4, <1>6, <2>2, <3>1 DEF UnheardIsNew, At
    <3>2. CASE h # g
      <4>1. lease'[m].gen # h
        BY <1>5, <1>7, <2>2, <3>2
      <4> QED
        BY <4>1 DEF UnheardIsNew, CurrentGateway
    <3> QED
      BY <3>1, <3>2
  <2>3. CASE m # n
    <3>1. session'[m][h] = session[m][h] /\ lease'[m] = lease[m] /\ cpGen' = cpGen
      BY <1>1, <1>6, <1>7, <2>3 DEF OthersKeep
    <3> QED
      BY <1>10, <2>1, <3>1 DEF UnheardIsNew, CurrentGateway, At, InHand
  <2> QED
    BY <2>2, <2>3
<1>16. SourceIsTold'
  BY <1>1, <1>3, <1>4, <1>6, <1>8, Holdings, KeepsTold
<1>17. \A o \in Op : InboxKeepsOrder(o)'
  <2>1. \A m \in Node, h \in Gateway :
          session'[m][h].at \in {"persisting", "persisted"} =>
              /\ session[m][h].at \in {"persisting", "persisted"}
              /\ session'[m][h].op = session[m][h].op
    BY <1>4, <1>6 DEF OthersKeep
  <2>2. /\ consumed' \in [Key -> Nat] /\ \A c \in Key : consumed[c] <= consumed'[c]
        /\ active' \in [Node -> 0..MaxGateway] /\ \A m \in Node : active[m] <= active'[m]
    BY <1>1, Holdings, Constants
  <2> QED
    BY <1>1, <1>10, <2>1, <2>2, KeepsOrder
<1>18. ASSUME NEW o \in Op
       PROVE  RunsAfterItsClaim(o)' /\ VerdictIsTrue(o)' /\ PersistedStaysPersisted(o)'
  <2>1. RunsAfterItsClaim(o) /\ VerdictIsTrue(o) /\ PersistedStaysPersisted(o)
    BY DEF IndInv
  <2>2. HasReceipt(o, {"TargetPersisted"})' <=> HasReceipt(o, {"TargetPersisted"})
    BY <1>11 DEF Kind
  <2>3. RunsAfterItsClaim(o)'
    BY <1>1, <2>1, <2>2 DEF RunsAfterItsClaim, ClaimedOrLater
  <2>4. o \in E => native[o].effect = "None"
    <3>1. o \in E => ~HasReceipt(o, {"TargetPersisted"})
      BY <1>9 DEF HasReceipt, Kind
    <3> QED
      BY <2>1, <3>1 DEF RunsAfterItsClaim
  <2>5. /\ HasReceipt(o, {"OperationApplied"})' <=> HasReceipt(o, {"OperationApplied"})
        /\ HasReceipt(o, {"RecoveryRequired"})' <=> HasReceipt(o, {"RecoveryRequired"})
        /\ HasReceipt(o, {"OperationRejected"})' => o \in E \/ HasReceipt(o, {"OperationRejected"})
    BY <1>11 DEF Kind
  <2>6. VerdictIsTrue(o)'
    BY <1>1, <2>1, <2>4, <2>5 DEF VerdictIsTrue
  <2>7. PersistedStaysPersisted(o)'
    <3>1. SUFFICES ASSUME HasReceipt(o, Kind \ {"ControlPlaneAccepted"})'
                   PROVE  Accepted(o)' /\ Latest(o)'.state # "Queued"
      BY DEF PersistedStaysPersisted
    <3>2. CASE o \in E
      BY <1>9, <1>10, <3>2
    <3>3. CASE o \notin E
      <4>1. HasReceipt(o, Kind \ {"ControlPlaneAccepted"})
        BY <1>11, <3>1, <3>3
      <4>2. route'[o] = route[o]
        BY <1>9, <1>10, <3>3, <4>1
      <4> QED
        BY <2>1, <4>1, <4>2 DEF PersistedStaysPersisted, Accepted, Latest
    <3> QED
      BY <3>2, <3>3
  <2> QED
    BY <2>3, <2>6, <2>7
<1>19. \A o \in Op : WellRouted(route'[o]) /\ HasItsPlace(o)'
  BY <1>1, <1>10 DEF IndInv, HasItsPlace
<1>20. ASSUME NEW m \in Node PROVE Cardinality(InQueue(m))' <= MaxQueue
  <2>1. ASSUME NEW o \in InQueue(m)' PROVE o \in InQueue(m)
    <3>1. o \in Op /\ TargetOf[o] = m /\ Accepted(o)' /\ Latest(o)'.state # "Ended"
      BY <2>1 DEF InQueue
    <3>2. CASE o \in E \cup R
      BY <1>9, <3>1, <3>2 DEF InQueue
    <3>3. CASE o \notin E \cup R
      BY <1>10, <3>1, <3>3 DEF InQueue, Accepted, Latest
    <3> QED
      BY <3>2, <3>3
  <2> QED
    BY <2>1, QueueKeeps
<1> QED
  BY <1>12, <1>13, <1>14, <1>15, <1>16, <1>17, <1>18, <1>19, <1>20 DEF IndInv

-----------------------------------------------------------------------------
(* The invariant.                                                          *)

\* Nothing has happened yet.
LEMMA InitIndInv == Init => IndInv
<1> SUFFICES ASSUME Init PROVE IndInv
  OBVIOUS
<1>1. \A n \in Node, g \in Gateway : session[n][g] = NoSession
  BY DEF Init
<1>2. \A o \in Op : ~Accepted(o) /\ route[o] = <<>>
  BY DEF Init, Accepted
<1>3. TypeOK
  <2>1. cpGen \in 1..MaxControlPlane
    BY Constants DEF Init
  <2>2. 0 \in 0..MaxGateway /\ 0 \in 0..MaxControlPlane
    BY Constants
  <2>3. NoSession \in Session
    BY <2>2 DEF NoSession, Session
  <2>4. [state |-> "Absent", gw |-> 0, truth |-> "None"] \in Outbox
    BY <2>2 DEF Outbox
  <2>5. <<>> \in Seq(Attempt)
    OBVIOUS
  <2> QED
    BY <2>1, <2>2, <2>3, <2>4, <2>5 DEF Init, TypeOK
<1>4. SessionsSucceed
  <2>1. cpGen = 1 /\ \A n \in Node : lease[n] = [gen |-> 0, cp |-> 0] /\ active[n] = 0
    BY DEF Init
  <2> QED
    BY <1>1, <2>1 DEF SessionsSucceed, NoSession
<1>5. \A n \in Node, g \in Gateway : InHand(n, g) /\ UnheardIsNew(n, g)
  BY <1>1 DEF InHand, UnheardIsNew, At, NoSession
<1>6. SourceIsTold
  BY <1>1 DEF Init, SourceIsTold, At, NoSession, Terminal
<1>7. \A o \in Op : RunsAfterItsClaim(o) /\ PersistedStaysPersisted(o) /\ VerdictIsTrue(o)
  BY DEF Init, RunsAfterItsClaim, PersistedStaysPersisted, VerdictIsTrue, HasReceipt,
         ClaimedOrLater
<1>8. \A o \in Op : WellRouted(route[o]) /\ HasItsPlace(o) /\ InboxKeepsOrder(o)
  BY <1>2 DEF Init, WellRouted, HasItsPlace, InboxKeepsOrder
<1>9. ASSUME NEW n \in Node PROVE Cardinality(InQueue(n)) <= MaxQueue
  <2>1. InQueue(n) = {}
    BY <1>2 DEF InQueue
  <2> QED
    BY <2>1, Constants, FS_EmptySet
<1> QED
  BY <1>3, <1>4, <1>5, <1>6, <1>7, <1>8, <1>9 DEF IndInv

\* Every step keeps the invariant.
LEMMA NextKeeps == IndInv /\ [Next]_vars => IndInv'
<1> SUFFICES ASSUME IndInv, [Next]_vars PROVE IndInv'
  OBVIOUS
<1>1. ASSUME NEW n \in Node, NEW E \in SUBSET Op, Connect(n, E) PROVE IndInv'
  BY <1>1, Connecting
<1>2. CASE SucceedControlPlane
  BY <1>2, Succession
<1>3. ASSUME NEW o \in Op, PrepareOutbox(o) \/ AcceptControlPlaneOperation(o) PROVE IndInv'
  BY <1>3, OutboxSteps, Acceptances
<1>4. ASSUME NEW n \in Node, NEW g \in Gateway, BindSession(n, g) \/ SessionEnds(n, g)
      PROVE  IndInv'
  BY <1>4, GatewaySteps
<1>5. ASSUME NEW n \in Node, NEW g \in Gateway, TargetStep(n, g) PROVE IndInv'
  BY <1>5, GatewaySteps, Persisting, Applying, Reports DEF TargetStep
<1>6. ASSUME NEW n \in Node, NEW g \in Gateway, SourceStep(n, g) PROVE IndInv'
  BY <1>6, OutboxSteps, SourceSteps, Acceptances DEF SourceStep
<1>7. CASE UNCHANGED vars
  <2>1. /\ UNCHANGED <<cpVars, active, inbox, tombstone, consumed, session, native>>
        /\ outbox' = outbox
    BY <1>7 DEF vars, storeVars
  <2> QED
    BY <2>1, Holdings, OutboxStep
<1> QED
  BY <1>1, <1>2, <1>3, <1>4, <1>5, <1>6, <1>7 DEF Next

\* The invariant holds in every reachable state.
LEMMA IndInvHolds == Spec => []IndInv
  BY InitIndInv, NextKeeps, PTL DEF Spec

-----------------------------------------------------------------------------
(* The theorems.                                                           *)

\* Every variable keeps its type, whatever is lost, redelivered or succeeded.
THEOREM TypeCorrect == Spec => []TypeOK
<1>1. IndInv => TypeOK
  BY DEF IndInv
<1> QED
  BY <1>1, IndInvHolds, PTL

\* An application runs at most once (claim_inbox, NodeApplication::apply): a run
\* follows a claim, and a claim is made once.
THEOREM ApplicationsRunOnce == Spec => []AppliesAtMostOnce
<1>1. IndInv => AppliesAtMostOnce
  BY DEF IndInv, AppliesAtMostOnce, RunsAfterItsClaim
<1> QED
  BY <1>1, IndInvHolds, PTL

\* A source that holds a terminal receipt knows what the target did
\* (mark_outbox_receipt): what it wrote down is a receipt, and receipts are true.
THEOREM SourcesKnowTheEffect == Spec => []SourceKnowsEffect
<1>1. IndInv => SourceKnowsEffect
  <2> SUFFICES ASSUME IndInv, NEW o \in Op
               PROVE  /\ outbox[o].truth = "OperationApplied" => native[o].effect = "Applied"
                      /\ outbox[o].truth = "OperationRejected" =>
                           native[o].effect \in {"None", "NotApplied"}
    BY DEF SourceKnowsEffect
  <2>1. outbox[o].truth \in Terminal => HasReceipt(o, {outbox[o].truth})
    BY DEF IndInv, SourceIsTold
  <2>2. VerdictIsTrue(o)
    BY DEF IndInv
  <2> QED
    BY <2>1, <2>2 DEF VerdictIsTrue, Terminal
<1> QED
  BY <1>1, IndInvHolds, PTL

\* What a current session submits is new to the Control Plane (reconcile before
\* submit_operation, accept_and_enqueue).
THEOREM SubmissionsAreNew == Spec => []SubmitsOnlyTheUnaccepted
<1>1. IndInv => SubmitsOnlyTheUnaccepted
  BY DEF IndInv, SubmitsOnlyTheUnaccepted, UnheardIsNew
<1> QED
  BY <1>1, IndInvHolds, PTL

\* A target's queue stays within its limit (queue_capacity_exceeded), though a
\* retry does not ask for room: an operation has one attempt that has not ended.
THEOREM QueuesAreBounded == Spec => []QueueIsBounded
<1>1. ASSUME IndInv, NEW n \in Node
      PROVE  Cardinality({p \in Op \X (1..MaxGateway) :
                 LET o == p[1] i == p[2] IN
                 TargetOf[o] = n /\ i <= Len(route[o]) /\ route[o][i].state # "Ended"})
               <= MaxQueue
  <2> DEFINE S == {p \in Op \X (1..MaxGateway) :
                     LET o == p[1] i == p[2] IN
                     TargetOf[o] = n /\ i <= Len(route[o]) /\ route[o][i].state # "Ended"}
             f == [p \in S |-> p[1]]
  <2>1. ASSUME NEW p \in S
        PROVE  p[1] \in InQueue(n) /\ p[2] = Len(route[p[1]]) /\ p = <<p[1], p[2]>>
    <3>1. /\ p[1] \in Op /\ p[2] \in 1..MaxGateway /\ TargetOf[p[1]] = n
          /\ p[2] <= Len(route[p[1]]) /\ route[p[1]][p[2]].state # "Ended"
          /\ p = <<p[1], p[2]>>
      OBVIOUS
    <3>2. PICK o \in Op, i \in 1..MaxGateway : o = p[1] /\ i = p[2]
      BY <3>1
    <3>3. route[o] \in Seq(Attempt) /\ WellRouted(route[o])
      BY <1>1 DEF IndInv, TypeOK
    <3>4. Len(route[o]) \in Nat /\ i \in 1..Len(route[o])
      BY <3>1, <3>2, <3>3, Constants, LenProperties
    <3>5. i = Len(route[o])
      BY <3>1, <3>2, <3>3, <3>4 DEF WellRouted
    <3>6. Accepted(o)
      BY <3>3, <3>4, EmptySeq DEF Accepted
    <3> QED
      BY <3>1, <3>2, <3>5, <3>6 DEF InQueue, Latest
  <2>2. f \in [S -> InQueue(n)] /\ \A p, r \in S : f[p] = f[r] => p = r
    BY <2>1
  <2>3. DOMAIN f = S
    OBVIOUS
  <2> HIDE DEF S, f
  <2>4. f \in Injection(S, InQueue(n))
    BY <2>2, <2>3 DEF Injection, IsInjective
  <2>5. InQueue(n) \subseteq Op
    BY DEF InQueue
  <2>6. IsFiniteSet(InQueue(n))
    BY <2>5, Constants, FS_Subset
  <2>7. IsFiniteSet(S) /\ Cardinality(S) <= Cardinality(InQueue(n))
    BY <2>4, <2>6, FS_Injection
  <2>8. Cardinality(S) \in Nat /\ Cardinality(InQueue(n)) \in Nat
    BY <2>6, <2>7, FS_CardinalityType
  <2>9. Cardinality(InQueue(n)) <= MaxQueue
    BY <1>1 DEF IndInv
  <2>10. Cardinality(S) <= MaxQueue
    BY <2>7, <2>8, <2>9, Constants
  <2> QED
    BY <2>10 DEF S
<1>2. IndInv => QueueIsBounded
  BY <1>1 DEF QueueIsBounded
<1> QED
  BY <1>2, IndInvHolds, PTL

\* Only a claim brings an operation to the application's side.
LEMMA CrossingIsAClaim ==
    ASSUME IndInv, [Next]_vars, NEW o \in Op, ~ClaimedOrLater(o), ClaimedOrLater(o)'
    PROVE  \E n \in Node, g \in Gateway : ClaimInbox(n, g) /\ o = session[n][g].op
<1>1. inbox' # inbox
  BY DEF ClaimedOrLater
<1>2. ASSUME NEW n \in Node, NEW g \in Gateway, TargetStep(n, g)
      PROVE  PersistInbox(n, g) \/ ClaimInbox(n, g) \/ RecordResult(n, g)
  BY <1>1, <1>2 DEF TargetStep, Deliver, ConsumeTombstone, RecordTargetPersisted, Apply,
                    RecordReceipt, RecordExpired, storeVars
<1>3. ASSUME NEW n \in Node, NEW g \in Gateway
      PROVE  ~BindSession(n, g) /\ ~SessionEnds(n, g) /\ ~SourceStep(n, g)
  BY <1>1 DEF SourceStep, ExpireOutbox, Reconcile, MarkReceipt, RebindOutbox, Submit,
              AcceptOperation, BindSession, SessionEnds, storeVars
<1>4. /\ ~SucceedControlPlane /\ ~UNCHANGED vars
      /\ \A q \in Op : ~PrepareOutbox(q) /\ ~AcceptControlPlaneOperation(q)
      /\ \A n \in Node, E \in SUBSET Op : ~Connect(n, E)
  BY <1>1 DEF SucceedControlPlane, Connect, PrepareOutbox, AcceptControlPlaneOperation,
              vars, storeVars
<1>5. PICK n \in Node, g \in Gateway :
        PersistInbox(n, g) \/ ClaimInbox(n, g) \/ RecordResult(n, g)
  BY <1>2, <1>3, <1>4 DEF Next
<1>6. session[n][g].at \in {"delivered", "persisted", "applied"}
  BY <1>5 DEF PersistInbox, ClaimInbox, RecordResult, At
<1>7. PICK q \in Op : q = session[n][g].op
  BY <1>6, TargetHand
<1>8. inbox \in [Op -> [state : {"Absent", "Persisted", "Claimed", "Applied", "Rejected",
                                 "RecoveryRequired"}, gw : 0..MaxGateway]]
  BY DEF IndInv, TypeOK
<1>9. CASE PersistInbox(n, g)
  <2>1. inbox' = [inbox EXCEPT ![q] = [state |-> "Persisted", gw |-> g]]
    BY <1>7, <1>9 DEF PersistInbox
  <2> QED
    BY <1>8, <2>1 DEF ClaimedOrLater
<1>10. CASE ClaimInbox(n, g)
  <2>1. inbox' = [inbox EXCEPT ![q].state = "Claimed"]
    BY <1>7, <1>10 DEF ClaimInbox
  <2>2. q = o
    BY <1>8, <2>1 DEF ClaimedOrLater
  <2> QED
    BY <1>7, <1>10, <2>2
<1>11. CASE RecordResult(n, g)
  <2>1. /\ inbox' = [inbox EXCEPT ![q].state = InboxOf(session[n][g].effect)]
        /\ inbox[q] = [state |-> "Claimed", gw |-> g]
    BY <1>7, <1>11 DEF RecordResult
  <2> QED
    BY <1>8, <2>1 DEF ClaimedOrLater
<1> QED
  BY <1>5, <1>9, <1>10, <1>11

\* Operations of one key are claimed in the order of their places (persist_inbox,
\* claim_inbox): one that comes later has been taken by a later gateway, or by
\* the same one after it was done with the earlier.
THEOREM ClaimsAreInOrder == Spec => ClaimsKeepOrder
<1>1. ASSUME IndInv, [Next]_vars, NEW o \in Op, NEW q \in Op, KeyOf[o] = KeyOf[q],
             Accepted(o), Accepted(q), OrdOf(o) < OrdOf(q), ClaimedOrLater(q),
             ~ClaimedOrLater(o), ClaimedOrLater(o)'
      PROVE  FALSE
  <2>1. PICK n \in Node, g \in Gateway : ClaimInbox(n, g) /\ o = session[n][g].op
    BY <1>1, CrossingIsAClaim
  <2>2. /\ session[n][g].at = "persisted" /\ active[n] = g
        /\ inbox[o] = [state |-> "Persisted", gw |-> g]
    BY <2>1 DEF ClaimInbox, At, ActiveSession
  <2>3. TargetOf[o] = n /\ TargetOf[q] = n
    <3>1. \E x \in Op : x = session[n][g].op /\ TargetOf[x] = n
      BY <1>1, <2>2, TargetHand
    <3> QED
      BY <1>1, <2>1, <3>1, Constants
  <2>4. InboxKeepsOrder(o) /\ InboxKeepsOrder(q)
    BY <1>1 DEF IndInv
  <2>5. inbox[o].state = "Persisted" /\ inbox[o].gw = g /\ inbox[q].state # "Absent"
    BY <1>1, <2>2 DEF ClaimedOrLater
  <2>6. inbox[q].gw \in Gateway /\ inbox[q].gw <= g
    BY <2>2, <2>3, <2>4, <2>5 DEF InboxKeepsOrder
  <2>7. /\ g <= inbox[q].gw
        /\ g = inbox[q].gw =>
             ~(session[n][g].at \in {"persisting", "persisted"} /\ session[n][g].op = o)
    BY <1>1, <2>3, <2>4, <2>5 DEF InboxKeepsOrder
  <2>8. g = inbox[q].gw
    BY <2>6, <2>7, Constants
  <2> QED
    BY <2>1, <2>2, <2>7, <2>8
<1>2. IndInv /\ [Next]_vars =>
        [\A o, q \in Op :
           (/\ KeyOf[o] = KeyOf[q] /\ Accepted(o) /\ Accepted(q)
            /\ OrdOf(o) < OrdOf(q) /\ ClaimedOrLater(q))
               => ClaimedOrLater(o) \/ ~ClaimedOrLater(o)']_vars
  BY <1>1
<1> QED
  BY <1>2, IndInvHolds, PTL DEF Spec, ClaimsKeepOrder

-----------------------------------------------------------------------------
(* The refinement of RouteTruth.                                           *)

\* The verdict on an operation, from the receipts alone.
VerdictNow(o) ==
    IF HasReceipt(o, {"RecoveryRequired"}) THEN "RecoveryRequired"
    ELSE IF HasReceipt(o, {"OperationRejected"}) THEN "OperationRejected"
    ELSE IF HasReceipt(o, {"OperationApplied"}) THEN "OperationApplied"
    ELSE "None"

\* RouteTruth's variables, in terms of Fabric's, and the verdict as the refinement
\* mapping has it.
EffectMap == [o \in Op |-> native[o].effect]
VerdictMap == [o \in Op |-> VerdictNow(o)]
ReconciledMap ==
    [o \in Op |-> IF Accepted(o) /\ HasReceipt(o, Terminal \cup {"RecoveryRequired"})
                    THEN Reconciled(o) ELSE "None"]

\* An operation with a verdict has been accepted and has no other, so the
\* refinement mapping is what the receipts say.
LEMMA Mapping == IndInv => ReconciledMap = VerdictMap
<1>1. ASSUME IndInv, NEW o \in Op
      PROVE  (IF Accepted(o) /\ HasReceipt(o, Terminal \cup {"RecoveryRequired"})
                THEN Reconciled(o) ELSE "None") = VerdictNow(o)
  <2>1. PersistedStaysPersisted(o) /\ VerdictIsTrue(o)
    BY <1>1 DEF IndInv
  <2>2. HasReceipt(o, Terminal \cup {"RecoveryRequired"}) <=>
          \/ HasReceipt(o, {"RecoveryRequired"}) \/ HasReceipt(o, {"OperationRejected"})
          \/ HasReceipt(o, {"OperationApplied"})
    BY DEF HasReceipt, Terminal
  <2>3. HasReceipt(o, Terminal \cup {"RecoveryRequired"}) => Accepted(o)
    BY <2>1 DEF HasReceipt, Terminal, Kind, PersistedStaysPersisted
  <2>4. /\ ~(HasReceipt(o, {"RecoveryRequired"}) /\ HasReceipt(o, {"OperationRejected"}))
        /\ ~(HasReceipt(o, {"RecoveryRequired"}) /\ HasReceipt(o, {"OperationApplied"}))
        /\ ~(HasReceipt(o, {"OperationRejected"}) /\ HasReceipt(o, {"OperationApplied"}))
    BY <2>1 DEF VerdictIsTrue
  <2> QED
    BY <2>2, <2>3, <2>4 DEF Reconciled, VerdictNow
<1> QED
  BY <1>1 DEF VerdictMap, ReconciledMap

\* The steps of the route truth.
RunStep(o) ==
    /\ EffectMap[o] = "None" /\ VerdictMap[o] = "None"
    /\ \E e \in Effect : EffectMap' = [EffectMap EXCEPT ![o] = e]
    /\ VerdictMap' = VerdictMap

ConcludeStep(o) ==
    /\ EffectMap[o] \in Effect /\ VerdictMap[o] = "None"
    /\ VerdictMap' = [VerdictMap EXCEPT ![o] = KindOf(EffectMap[o])]
    /\ EffectMap' = EffectMap

ExpireStep(S) ==
    /\ \A o \in S : EffectMap[o] = "None" /\ VerdictMap[o] = "None"
    /\ VerdictMap' = [o \in Op |-> IF o \in S THEN "OperationRejected" ELSE VerdictMap[o]]
    /\ EffectMap' = EffectMap

\* They are RouteTruth's under the refinement mapping.
LEMMA TruthSteps ==
    ASSUME IndInv, IndInv',
           \/ UNCHANGED <<EffectMap, VerdictMap>>
           \/ \E o \in Op : RunStep(o) \/ ConcludeStep(o)
           \/ \E S \in SUBSET Op : ExpireStep(S)
    PROVE  [Truth!Next]_(Truth!vars)
<1>1. ReconciledMap = VerdictMap
  BY Mapping
<1>2. (ReconciledMap = VerdictMap)'
  BY Mapping, PTL
<1>3. ReconciledMap' = VerdictMap'
  BY <1>2
<1>4. CASE UNCHANGED <<EffectMap, VerdictMap>>
  BY <1>1, <1>3, <1>4 DEF Truth!vars, EffectMap, ReconciledMap
<1>5. ASSUME NEW o \in Op, RunStep(o) PROVE Truth!Run(o)
  <2>1. Effect = Truth!Effect \ {"None"}
    BY DEF Effect, Truth!Effect
  <2> QED
    BY <1>1, <1>3, <1>5, <2>1 DEF RunStep, Truth!Run, EffectMap, ReconciledMap
<1>6. ASSUME NEW o \in Op, ConcludeStep(o) PROVE Truth!Conclude(o)
  <2>1. EffectMap[o] # "None" /\ KindOf(EffectMap[o]) = Truth!VerdictOf(EffectMap[o])
    BY <1>6 DEF ConcludeStep, Effect, KindOf, Truth!VerdictOf
  <2> QED
    BY <1>1, <1>3, <1>6, <2>1 DEF ConcludeStep, Truth!Conclude, EffectMap, ReconciledMap
<1>7. ASSUME NEW S \in SUBSET Op, ExpireStep(S) PROVE Truth!Expire(S)
  BY <1>1, <1>3, <1>7 DEF ExpireStep, Truth!Expire, EffectMap, ReconciledMap
<1> QED
  BY <1>4, <1>5, <1>6, <1>7 DEF Truth!Next

\* A step that gives no verdict and runs nothing is none of the route truth's.
LEMMA QuietTruth ==
    ASSUME native' = native,
           \A o \in Op, k \in Terminal \cup {"RecoveryRequired"} :
               HasReceipt(o, {k})' <=> HasReceipt(o, {k})
    PROVE  UNCHANGED <<EffectMap, VerdictMap>>
<1>1. \A o \in Op : VerdictNow(o)' = VerdictNow(o)
  BY DEF VerdictNow, Terminal
<1> QED
  BY <1>1 DEF EffectMap, VerdictMap

\* The application's run.
LEMMA ApplyRuns ==
    ASSUME IndInv, NEW n \in Node, NEW g \in Gateway, NEW e \in Effect, Apply(n, g, e)
    PROVE  \E o \in Op : RunStep(o)
<1>1. session[n][g].at = "claimed" /\ receipts' = receipts
  BY DEF Apply, At, cpVars
<1>2. PICK o \in Op : o = session[n][g].op
  BY <1>1, TargetHand
<1>3. native[o].effect = "None" /\ ~HasVerdict(o)
  <2>1. InHand(n, g)
    BY Holdings
  <2> QED
    BY <1>1, <1>2, <2>1 DEF InHand
<1>4. VerdictNow(o) = "None"
  BY <1>3 DEF VerdictNow, HasVerdict, HasReceipt, Terminal
<1>5. EffectMap' = [EffectMap EXCEPT ![o] = e]
  <2>1. native' = [native EXCEPT ![o] = [runs |-> native[o].runs + 1, effect |-> e]]
    BY <1>2 DEF Apply
  <2>2. native \in [Op -> [runs : Nat, effect : Effect \cup {"None"}]]
    BY DEF IndInv, TypeOK
  <2>3. \A q \in Op : native'[q].effect = IF q = o THEN e ELSE native[q].effect
    BY <2>1, <2>2
  <2> QED
    BY <2>3 DEF EffectMap
<1>6. VerdictMap' = VerdictMap
  <2>1. \A q \in Op : VerdictNow(q)' = VerdictNow(q)
    BY <1>1 DEF VerdictNow, HasReceipt
  <2> QED
    BY <2>1 DEF VerdictMap
<1>7. RunStep(o)
  BY <1>3, <1>4, <1>5, <1>6 DEF RunStep, EffectMap, VerdictMap
<1> QED
  BY <1>7

\* The receipt of the application's result.
LEMMA ReceiptConcludes ==
    ASSUME IndInv, IndInv', NEW n \in Node, NEW g \in Gateway, RecordReceipt(n, g)
    PROVE  \E o \in Op : ConcludeStep(o)
<1> DEFINE s == session[n][g]
           k == KindOf(s.effect)
<1>1. s.at = "reporting" /\ native' = native
  BY DEF RecordReceipt, At
<1>2. PICK o \in Op : o = s.op
  BY <1>1, TargetHand
<1>3. receipts' = receipts \cup {Receipt(o, k, g)}
  BY <1>2 DEF RecordReceipt
<1>4. native[o].effect = s.effect /\ s.effect \in Effect /\ ~HasVerdict(o)
  <2>1. InHand(n, g)
    BY Holdings
  <2> QED
    BY <1>1, <1>2, <2>1 DEF InHand
<1>5. Receipt(o, k, g).op = o /\ Receipt(o, k, g).kind = k
  BY DEF Receipt
<1>6. k \in Terminal \cup {"RecoveryRequired"}
  BY DEF KindOf, Terminal
<1> HIDE DEF k
<1>7. VerdictNow(o) = "None"
  BY <1>4 DEF VerdictNow, HasVerdict, HasReceipt, Terminal
<1>8. \A x \in Terminal \cup {"RecoveryRequired"} : HasReceipt(o, {x})' <=> x = k
  BY <1>3, <1>4, <1>5, <1>6 DEF HasReceipt, HasVerdict
<1>9. VerdictNow(o)' = k
  BY <1>6, <1>8 DEF VerdictNow, Terminal
<1>10. \A q \in Op : q # o => VerdictNow(q)' = VerdictNow(q)
  BY <1>3, <1>5 DEF VerdictNow, HasReceipt
<1>11. VerdictMap' = [VerdictMap EXCEPT ![o] = KindOf(EffectMap[o])]
  <2>1. KindOf(EffectMap[o]) = k
    BY <1>4 DEF EffectMap, k
  <2> QED
    BY <1>9, <1>10, <2>1 DEF VerdictMap
<1>12. ConcludeStep(o)
  BY <1>1, <1>4, <1>7, <1>11 DEF ConcludeStep, EffectMap, VerdictMap
<1> QED
  BY <1>12

\* What expired on its way, found by the target or by its successor's connection.
LEMMA ExpiryCloses ==
    ASSUME IndInv, NEW S \in SUBSET Op, native' = native,
           \A o \in S : ~HasReceipt(o, Kind \ {"ControlPlaneAccepted"}),
           \A o \in Op, k \in Terminal \cup {"RecoveryRequired"} :
               HasReceipt(o, {k})' <=>
                   HasReceipt(o, {k}) \/ (o \in S /\ k = "OperationRejected")
    PROVE  ExpireStep(S)
<1>1. ASSUME NEW o \in S
      PROVE  /\ VerdictNow(o) = "None" /\ native[o].effect = "None"
             /\ VerdictNow(o)' = "OperationRejected"
  <2>1. \A k \in Kind \ {"ControlPlaneAccepted"} : ~HasReceipt(o, {k})
    BY DEF HasReceipt
  <2>2. RunsAfterItsClaim(o)
    BY DEF IndInv
  <2> QED
    BY <2>1, <2>2 DEF VerdictNow, RunsAfterItsClaim, Kind, Terminal
<1>2. \A o \in Op : o \notin S => VerdictNow(o)' = VerdictNow(o)
  BY DEF VerdictNow, Terminal
<1> QED
  BY <1>1, <1>2 DEF ExpireStep, EffectMap, VerdictMap

\* Every step of the Fabric is a step of the route truth, or none.
LEMMA NextRefines ==
    ASSUME IndInv, IndInv', [Next]_vars
    PROVE  [Truth!Next]_(Truth!vars)
<1>1. ASSUME receipts' = receipts, native' = native PROVE [Truth!Next]_(Truth!vars)
  <2>1. \A o \in Op, k \in Terminal \cup {"RecoveryRequired"} :
          HasReceipt(o, {k})' <=> HasReceipt(o, {k})
    BY <1>1 DEF HasReceipt
  <2> QED
    BY <1>1, <2>1, QuietTruth, TruthSteps
<1>2. ASSUME NEW r, r.kind \notin Terminal \cup {"RecoveryRequired"},
             receipts' = receipts \cup {r}, native' = native
      PROVE  [Truth!Next]_(Truth!vars)
  <2>1. \A o \in Op, k \in Terminal \cup {"RecoveryRequired"} :
          HasReceipt(o, {k})' <=> HasReceipt(o, {k})
    BY <1>2 DEF HasReceipt
  <2> QED
    BY <1>2, <2>1, QuietTruth, TruthSteps
<1>3. \A o, g : Receipt(o, "ControlPlaneAccepted", g).kind \notin Terminal \cup {"RecoveryRequired"}
                /\ Receipt(o, "TargetPersisted", g).kind \notin Terminal \cup {"RecoveryRequired"}
  BY DEF Receipt, Terminal
<1>4. ASSUME NEW n \in Node, NEW E \in SUBSET Op, Connect(n, E)
      PROVE  [Truth!Next]_(Truth!vars)
  <2>1. E \subseteq Waiting(n) /\ native' = native
    BY <1>4 DEF Connect
  <2>2. \A o \in E : ~HasReceipt(o, Kind \ {"ControlPlaneAccepted"})
    BY <2>1 DEF Waiting, Unpersisted
  <2>3. \A o \in Op, K \in SUBSET (Kind \ {"ControlPlaneAccepted"}) :
          HasReceipt(o, K)' <=> HasReceipt(o, K) \/ (o \in E /\ "OperationRejected" \in K)
    BY <1>4, ConnectRoutes
  <2>4. \A o \in Op, k \in Terminal \cup {"RecoveryRequired"} :
          HasReceipt(o, {k})' <=> HasReceipt(o, {k}) \/ (o \in E /\ k = "OperationRejected")
    BY <2>3 DEF Terminal, Kind
  <2> QED
    BY <2>1, <2>2, <2>4, ExpiryCloses, TruthSteps
<1>5. CASE SucceedControlPlane
  BY <1>1, <1>5 DEF SucceedControlPlane
<1>6. ASSUME NEW o \in Op, PrepareOutbox(o) PROVE [Truth!Next]_(Truth!vars)
  BY <1>1, <1>6 DEF PrepareOutbox, cpVars
<1>7. ASSUME NEW o \in Op, AcceptControlPlaneOperation(o) PROVE [Truth!Next]_(Truth!vars)
  BY <1>2, <1>3, <1>7 DEF AcceptControlPlaneOperation, Enqueue
<1>8. ASSUME NEW n \in Node, NEW g \in Gateway,
             BindSession(n, g) \/ SessionEnds(n, g) PROVE [Truth!Next]_(Truth!vars)
  BY <1>1, <1>8 DEF BindSession, SessionEnds, cpVars
<1>9. ASSUME NEW n \in Node, NEW g \in Gateway, TargetStep(n, g)
      PROVE  [Truth!Next]_(Truth!vars)
  <2>1. ASSUME NEW o \in Op, Deliver(n, g, o) PROVE [Truth!Next]_(Truth!vars)
    BY <1>1, <2>1 DEF Deliver, cpVars
  <2>2. CASE PersistInbox(n, g) \/ ConsumeTombstone(n, g) \/ ClaimInbox(n, g) \/ RecordResult(n, g)
    BY <1>1, <2>2 DEF PersistInbox, ConsumeTombstone, ClaimInbox, RecordResult, cpVars
  <2>3. CASE RecordTargetPersisted(n, g)
    BY <1>2, <1>3, <2>3 DEF RecordTargetPersisted
  <2>4. ASSUME NEW e \in Effect, Apply(n, g, e) PROVE [Truth!Next]_(Truth!vars)
    BY <2>4, ApplyRuns, TruthSteps
  <2>5. CASE RecordReceipt(n, g)
    BY <2>5, ReceiptConcludes, TruthSteps
  <2>6. CASE RecordExpired(n, g)
    <3>1. session[n][g].at = "expiring" /\ native' = native
      BY <2>6 DEF RecordExpired, At
    <3>2. PICK o \in Op : o = session[n][g].op
      BY <3>1, TargetHand
    <3>3. /\ Latest(o).state = "Queued"
          /\ receipts' = receipts \cup {Receipt(o, "OperationRejected", g)}
      BY <2>6, <3>2 DEF RecordExpired, AttemptIs
    <3>4. ~HasReceipt(o, Kind \ {"ControlPlaneAccepted"})
      BY <3>3 DEF IndInv, PersistedStaysPersisted
    <3>5. \A q \in Op, k \in Terminal \cup {"RecoveryRequired"} :
            HasReceipt(q, {k})' <=>
              HasReceipt(q, {k}) \/ (q \in {o} /\ k = "OperationRejected")
      <4>1. Receipt(o, "OperationRejected", g).op = o
            /\ Receipt(o, "OperationRejected", g).kind = "OperationRejected"
        BY DEF Receipt
      <4> QED
        BY <3>3, <4>1 DEF HasReceipt
    <3>6. ExpireStep({o})
      BY <3>1, <3>2, <3>4, <3>5, ExpiryCloses
    <3> QED
      BY <3>2, <3>6, TruthSteps
  <2> QED
    BY <1>9, <2>1, <2>2, <2>3, <2>4, <2>5, <2>6 DEF TargetStep
<1>10. ASSUME NEW n \in Node, NEW g \in Gateway, SourceStep(n, g)
       PROVE  [Truth!Next]_(Truth!vars)
  <2>1. CASE AcceptOperation(n, g)
    BY <1>2, <1>3, <2>1 DEF AcceptOperation, Enqueue
  <2>2. CASE ~AcceptOperation(n, g)
    <3>1. receipts' = receipts /\ native' = native
      BY <1>10, <2>2 DEF SourceStep, ExpireOutbox, Reconcile, MarkReceipt, RebindOutbox,
                         Submit, cpVars
    <3> QED
      BY <1>1, <3>1
  <2> QED
    BY <2>1, <2>2
<1>11. CASE UNCHANGED vars
  BY <1>1, <1>11 DEF vars, cpVars
<1> QED
  BY <1>4, <1>5, <1>6, <1>7, <1>8, <1>9, <1>10, <1>11 DEF Next

\* Fabric implements RouteTruth: the receipts of the Control Plane and the
\* target's application are one route truth, in which an operation runs at most
\* once and before any verdict, the verdict is what the application said, and
\* what was closed as expired never runs (claim_inbox, record_application_receipt,
\* connect_gateway_mtls).
THEOREM FabricImplementsRouteTruth == Spec => RouteTruthHolds
<1>1. Init => Truth!Init
  <2> SUFFICES ASSUME Init PROVE Truth!Init
    OBVIOUS
  <2>1. \A o \in Op : ~Accepted(o) /\ native[o].effect = "None"
    BY DEF Init, Accepted
  <2> QED
    BY <2>1 DEF Truth!Init
<1>2. IndInv /\ IndInv' /\ [Next]_vars => [Truth!Next]_(Truth!vars)
  BY NextRefines
<1> QED
  BY <1>1, <1>2, IndInvHolds, PTL DEF Spec, RouteTruthHolds, Truth!Spec

=============================================================================
