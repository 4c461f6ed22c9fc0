---------------------------- MODULE TimelineProofs ----------------------------
(***************************************************************************)
(* The tables of ServicePairs implement the timeline of Attribution, for   *)
(* every calendar, every set of orchestrators and pairs, every cutoff and  *)
(* every length of the chain.                                              *)
(***************************************************************************)
EXTENDS ServicePairsProofs

(* The last position of the timeline.                                      *)
Last == At(ACTIVATION_EPOCH + MaxEpoch + EPOCHS_PER_QUARTER, MaxLog + 1)

(* Ends are positions of events and beginnings positions of the timeline.  *)
RowsOnChain ==
  /\ pos \in EventPosition
  /\ \A r \in service_pair :
       /\ r.from \in Horizon
       /\ r.to # None => r.to \in EventPosition

(* A row that ended before it began covers nothing; the row written with   *)
(* it takes up where it ended, and does cover its own beginning.           *)
DeadFollowed ==
  \A r \in service_pair :
    r.to # None /\ Before(r.to, r.from) =>
      \E s \in service_pair :
        /\ s.pair = r.pair
        /\ s.from = NextLog(r.to)
        /\ s.to = None \/ AtOrBefore(s.from, s.to)

TimelineInv == IInv /\ RowsOnChain /\ DeadFollowed
-----------------------------------------------------------------------------
(* Positions of the timeline.                                              *)

(* Events lie on the timeline, and so does the position after one.         *)
LEMMA HorizonFacts ==
  /\ EventPosition \subseteq Horizon
  /\ Horizon \subseteq Position
  /\ Last \in Horizon
  /\ \A x \in Horizon : AtOrBefore(x, Last)
  /\ \A p \in EventPosition : Before(p, Last) /\ NextLog(p) \in Horizon
  <1>1. /\ ACTIVATION_EPOCH \in Nat /\ MaxEpoch \in Nat /\ MaxLog \in Nat
        /\ EPOCHS_PER_QUARTER \in Nat /\ EPOCHS_PER_QUARTER >= 1
    BY ServicePairsAssumption, CalendarAssumption
  <1> QED
    BY <1>1 DEF EventPosition, Horizon, Position, Last, AtOrBefore, Before, NextLog, At

(* The quarter an event acts on, and the one after it, begin on the        *)
(* timeline.                                                               *)
LEMMA QuarterInHorizon ==
  ASSUME NEW p \in EventPosition
  PROVE  /\ At(QuarterStart(EffectiveQuarter(p.epoch)), 0) \in Horizon
         /\ At(QuarterEnd(EffectiveQuarter(p.epoch)) + 1, 0) \in Horizon
  <1> DEFINE start == QuarterStart(EffectiveQuarter(p.epoch))
             end   == QuarterEnd(EffectiveQuarter(p.epoch))
  <1>1. /\ ACTIVATION_EPOCH \in Nat /\ MaxEpoch \in Nat /\ MaxLog \in Nat
        /\ EPOCHS_PER_QUARTER \in Nat /\ EPOCHS_PER_QUARTER >= 1
        /\ p.epoch \in Nat /\ p.epoch <= MaxEpoch
    BY ServicePairsAssumption, CalendarAssumption DEF EventPosition
  <1>2. start \in Nat /\ end = start + EPOCHS_PER_QUARTER - 1
    BY <1>1, EffectiveQuarterBounds DEF QuarterEnd
  <1>3. start <= ACTIVATION_EPOCH + MaxEpoch
    <2>1. CASE p.epoch < ACTIVATION_EPOCH
      <3>1. start = ACTIVATION_EPOCH
        BY <1>1, <2>1 DEF EffectiveQuarter, QuarterOf, QuarterStart
      <3> QED BY <1>1, <3>1
    <2>2. CASE p.epoch >= ACTIVATION_EPOCH
      <3>1. /\ QuarterStart(QuarterOf(p.epoch)) <= p.epoch
            /\ EffectiveQuarter(p.epoch) = QuarterOf(p.epoch)
        BY <1>1, <2>2, QuarterBounds DEF EffectiveQuarter
      <3> QED BY <1>1, <1>2, <3>1
    <2> QED BY <1>1, <2>1, <2>2
  <1> HIDE DEF start, end
  <1>4. /\ start \in 0 .. ACTIVATION_EPOCH + MaxEpoch + EPOCHS_PER_QUARTER
        /\ end + 1 \in 0 .. ACTIVATION_EPOCH + MaxEpoch + EPOCHS_PER_QUARTER
        /\ 0 \in 0 .. MaxLog + 1
    BY <1>1, <1>2, <1>3
  <1> QED BY <1>4 DEF Horizon, At, start, end

-----------------------------------------------------------------------------
(* What the handlers make of the rows.                                     *)

(* Of the rows that end, those not begun are deleted and the others        *)
(* closed.                                                                 *)
LEMMA EndedTable ==
  ASSUME service_pair \subseteq PairRow,
         NEW S \in SUBSET Active(service_pair), NEW p \in Position,
         service_pair' = EndBindings(S, p)
  PROVE  /\ service_pair \ S \subseteq service_pair'
         /\ \A r \in S : ~Before(p, r.from) =>
              \E c \in service_pair' :
                c.pair = r.pair /\ c.orch = r.orch /\ c.from = r.from /\ c.to = p
         /\ \A c \in service_pair' :
              \/ c \in service_pair \ S
              \/ \E r \in S : /\ c.pair = r.pair /\ c.orch = r.orch
                              /\ c.from = r.from /\ c.to = p
                              /\ ~Before(p, r.from)
  <1> DEFINE begun == S \ NotStarted(S, p)
  <1>1. service_pair' = (service_pair \ S) \cup Unbind(begun, p)
    BY DEF EndBindings
  <1>2. /\ begun \in SUBSET PairRow
        /\ \A r \in S : ~Before(p, r.from) <=> r \in begun
        /\ begun \subseteq S
    BY DEF Active, NotStarted
  <1> HIDE DEF begun
  <1>3. \A r \in begun : \E c \in Unbind(begun, p) :
          c.pair = r.pair /\ c.orch = r.orch /\ c.from = r.from /\ c.to = p
    BY <1>2, UnbindWitness
  <1>4. \A c \in Unbind(begun, p) : \E r \in begun :
          c.pair = r.pair /\ c.orch = r.orch /\ c.from = r.from /\ c.to = p
    BY <1>2 DEF Unbind, PairRow
  <1> QED BY <1>1, <1>2, <1>3, <1>4

(* A pair the actor has bound has exactly one open row.                    *)
LEMMA TheOpenRow ==
  ASSUME IInv, NEW pr \in Pairs, owner[pr] # None
  PROVE  \E r \in service_pair :
           /\ ActiveOf(pr) = {r}
           /\ r \in PairRow /\ r.pair = pr /\ r.to = None /\ r.orch = owner[pr]
  <1>1. PICK r \in Active(service_pair) : r.pair = pr
    BY DEF IInv, BindingsMatch, ActiveOf
  <1>2. ActiveOf(pr) = {r}
    BY <1>1, OneOpenRow DEF ActiveOf, IInv
  <1>3. r \in service_pair /\ r \in PairRow /\ r.to = None /\ r.orch = owner[r.pair]
    BY DEF IInv, TypeOK, BindingsMatch, Active
  <1> QED BY <1>1, <1>2, <1>3

(* The heir takes the row r over when the binding is not older than the    *)
(* quarter of p.                                                           *)
Inherited(r, p, inherit) ==
  inherit /\ r.from.epoch >= QuarterStart(EffectiveQuarter(p.epoch))

(* The heir of a recent binding takes its row; any other reassignment ends *)
(* that row at p and begins a new one.                                     *)
LEMMA ReassignedTable ==
  ASSUME NEW o \in Orchestrators, NEW pr \in Pairs, NEW p \in Position,
         NEW inherit \in BOOLEAN,
         NEW r \in PairRow, r.pair = pr, r.to = None, ActiveOf(pr) = {r},
         service_pair' = Reassigned(o, pr, p, inherit)
  PROVE  /\ Inherited(r, p, inherit) =>
              \E heir \in PairRow :
                /\ heir.pair = pr /\ heir.orch = o
                /\ heir.from = r.from /\ heir.to = None
                /\ service_pair' = (service_pair \ {r}) \cup {heir}
         /\ ~Inherited(r, p, inherit) =>
              \E ended, row \in PairRow :
                /\ ended.pair = pr /\ ended.orch = r.orch
                /\ ended.from = r.from /\ ended.to = p
                /\ row.pair = pr /\ row.orch = o
                /\ row.from = NextLog(p) /\ row.to = None
                /\ service_pair' = (service_pair \ {r}) \cup {ended, row}
  <1> DEFINE recent == {s \in ActiveOf(pr) :
                          s.from.epoch >= QuarterStart(EffectiveQuarter(p.epoch))}
             heir   == [r EXCEPT !.orch = o]
             ended  == [r EXCEPT !.to = p]
             row    == Bind(o, pr, NextLog(p))
  <1>1. CASE Inherited(r, p, inherit)
    <2>1. inherit /\ recent = {r}
      BY <1>1 DEF Inherited
    <2>2. service_pair' = (service_pair \ {r}) \cup {heir}
      BY <2>1 DEF Reassigned
    <2>3. /\ heir \in PairRow /\ heir.pair = pr /\ heir.orch = o
          /\ heir.from = r.from /\ heir.to = None
      BY DEF PairRow
    <2> QED BY <1>1, <2>2, <2>3
  <1>2. CASE ~Inherited(r, p, inherit)
    <2>1. ~(inherit /\ recent # {})
      BY <1>2 DEF Inherited
    <2>2. service_pair' = (service_pair \ {r}) \cup {ended, row}
      BY <2>1 DEF Reassigned, Unbind
    <2>3. /\ ended \in PairRow /\ ended.pair = pr /\ ended.orch = r.orch
          /\ ended.from = r.from /\ ended.to = p
      BY DEF PairRow
    <2>4. /\ row \in PairRow /\ row.pair = pr /\ row.orch = o
          /\ row.from = NextLog(p) /\ row.to = None
      BY NextLogType, BindType DEF Bind
    <2> QED BY <1>2, <2>2, <2>3, <2>4
  <1> QED BY <1>1, <1>2

-----------------------------------------------------------------------------
(* Every event keeps the rows on the chain, and dead rows followed.        *)

(* A declaration begins on the timeline.                                   *)
LEMMA DeclaredOnTimeline ==
  ASSUME IInv, RowsOnChain, NEW p \in EventPosition,
         NEW pr \in Pairs, NEW from \in DeclaredFrom(pr, p)
  PROVE  from \in Horizon
  <1>1. \A x \in PreviousRelease(pr) : NextLog(x) \in Horizon
    BY HorizonFacts DEF PreviousRelease, Releases, OfPair, RowsOnChain
  <1> QED BY <1>1, QuarterInHorizon DEF DeclaredFrom

(* Rows that end do so at an event, and none of them before it began.      *)
LEMMA EndedOnTimeline ==
  ASSUME TimelineInv, NEW p \in EventPosition, Before(pos, p), pos' = p,
         NEW S \in SUBSET Active(service_pair), service_pair' = EndBindings(S, p)
  PROVE  RowsOnChain' /\ DeadFollowed'
  <1>1. /\ p \in Position /\ p # None /\ pos \in Position
        /\ service_pair \subseteq PairRow
    BY EventPositionType, ServicePairsAssumption DEF TimelineInv, IInv, TypeOK
  <1>2. /\ service_pair \ S \subseteq service_pair'
        /\ \A r \in S : ~Before(p, r.from) =>
              \E c \in service_pair' :
                c.pair = r.pair /\ c.orch = r.orch /\ c.from = r.from /\ c.to = p
        /\ \A c \in service_pair' :
              \/ c \in service_pair \ S
              \/ \E r \in S : /\ c.pair = r.pair /\ c.orch = r.orch
                              /\ c.from = r.from /\ c.to = p
                              /\ ~Before(p, r.from)
    BY <1>1, EndedTable
  <1>3. S \subseteq service_pair
    BY DEF Active
  <1>4. RowsOnChain'
    BY <1>1, <1>2, <1>3 DEF TimelineInv, RowsOnChain
  <1>5. DeadFollowed'
    <2> SUFFICES ASSUME NEW d \in service_pair', d.to # None, Before(d.to, d.from)
                 PROVE  \E s \in service_pair' :
                          /\ s.pair = d.pair
                          /\ s.from = NextLog(d.to)
                          /\ s.to = None \/ AtOrBefore(s.from, s.to)
      BY DEF DeadFollowed
    <2>1. d \in service_pair
      BY <1>2
    <2>2. PICK s \in service_pair : /\ s.pair = d.pair
                                    /\ s.from = NextLog(d.to)
                                    /\ s.to = None \/ AtOrBefore(s.from, s.to)
      BY <2>1 DEF TimelineInv, DeadFollowed
    <2>3. CASE s \notin S
      BY <1>2, <2>2, <2>3
    <2>4. CASE s \in S
      <3>1. /\ d.to \in Position /\ AtOrBefore(d.to, pos)
            /\ s.from \in Position
        BY <1>1, <2>1, <2>2 DEF TimelineInv, IInv, RowsInTime, PairRow
      <3>2. Before(d.to, p)
        BY <1>1, <3>1, BeforeFacts
      <3>3. AtOrBefore(s.from, p) /\ ~Before(p, s.from)
        BY <1>1, <2>2, <3>1, <3>2 DEF NextLog, At, Before, AtOrBefore, Position
      <3> QED BY <1>2, <2>2, <2>4, <3>3
    <2> QED BY <2>3, <2>4
  <1> QED BY <1>4, <1>5

(* A declaration adds an open row.                                         *)
LEMMA DeclaredKeepsTimeline ==
  ASSUME TimelineInv, NEW o \in Orchestrators, NEW pr \in Pairs,
         NEW p \in EventPosition, Before(pos, p), BindingDeclared(o, pr, p)
  PROVE  RowsOnChain' /\ DeadFollowed'
  <1>1. PICK from \in DeclaredFrom(pr, p) :
          service_pair' = service_pair \cup {Bind(o, pr, from)}
    BY DEF BindingDeclared
  <1>2. from \in Horizon /\ pos' = p
    BY DeclaredOnTimeline DEF TimelineInv, BindingDeclared
  <1>3. Bind(o, pr, from).from = from /\ Bind(o, pr, from).to = None
    BY DEF Bind
  <1>4. RowsOnChain'
    BY <1>1, <1>2, <1>3 DEF TimelineInv, RowsOnChain
  <1>5. DeadFollowed'
    BY <1>1, <1>3 DEF TimelineInv, DeadFollowed
  <1> QED BY <1>4, <1>5

(* A row closed before it began is followed by that of the heir.           *)
LEMMA ReassignedKeepsTimeline ==
  ASSUME TimelineInv, NEW o \in Orchestrators, NEW pr \in Pairs,
         NEW inherit \in BOOLEAN, NEW p \in EventPosition, Before(pos, p),
         BindingReassigned(o, pr, p, inherit)
  PROVE  RowsOnChain' /\ DeadFollowed'
  <1>1. /\ owner[pr] # None /\ pos' = p
        /\ service_pair' = Reassigned(o, pr, p, inherit)
        /\ p \in Position /\ p # None
    BY EventPositionType, ServicePairsAssumption DEF BindingReassigned
  <1>2. PICK r \in service_pair : /\ ActiveOf(pr) = {r} /\ r \in PairRow
                                  /\ r.pair = pr /\ r.to = None
    BY <1>1, TheOpenRow DEF TimelineInv
  <1>3. CASE Inherited(r, p, inherit)
    <2>1. PICK heir \in PairRow :
            /\ heir.pair = pr /\ heir.orch = o /\ heir.from = r.from /\ heir.to = None
            /\ service_pair' = (service_pair \ {r}) \cup {heir}
      BY <1>1, <1>2, <1>3, ReassignedTable
    <2>2. RowsOnChain'
      BY <1>1, <1>2, <2>1 DEF TimelineInv, RowsOnChain
    <2>3. DeadFollowed'
      BY <1>2, <2>1 DEF TimelineInv, DeadFollowed
    <2> QED BY <2>2, <2>3
  <1>4. CASE ~Inherited(r, p, inherit)
    <2>1. PICK ended \in PairRow, row \in PairRow :
            /\ ended.pair = pr /\ ended.orch = r.orch
            /\ ended.from = r.from /\ ended.to = p
            /\ row.pair = pr /\ row.orch = o /\ row.from = NextLog(p) /\ row.to = None
            /\ service_pair' = (service_pair \ {r}) \cup {ended, row}
      BY <1>1, <1>2, <1>4, ReassignedTable
    <2>2. RowsOnChain'
      BY <1>1, <1>2, <2>1, HorizonFacts DEF TimelineInv, RowsOnChain
    <2>3. DeadFollowed'
      <3> SUFFICES ASSUME NEW d \in service_pair', d.to # None, Before(d.to, d.from)
                   PROVE  \E s \in service_pair' :
                            /\ s.pair = d.pair
                            /\ s.from = NextLog(d.to)
                            /\ s.to = None \/ AtOrBefore(s.from, s.to)
        BY DEF DeadFollowed
      <3>1. CASE d = ended
        BY <2>1, <3>1
      <3>2. CASE d # ended
        <4>1. d \in service_pair
          BY <2>1, <3>2
        <4>2. PICK s \in service_pair : /\ s.pair = d.pair
                                        /\ s.from = NextLog(d.to)
                                        /\ s.to = None \/ AtOrBefore(s.from, s.to)
          BY <4>1 DEF TimelineInv, DeadFollowed
        <4>3. CASE s # r
          BY <2>1, <4>2, <4>3
        <4>4. CASE s = r
          <5>1. /\ d.to \in Position /\ AtOrBefore(d.to, pos)
                /\ pos \in Position /\ r.from \in Position
            BY <1>2, <4>1 DEF TimelineInv, IInv, TypeOK, RowsInTime, PairRow
          <5>2. Before(d.to, p)
            BY <1>1, <5>1, BeforeFacts
          <5>3. AtOrBefore(r.from, p)
            BY <1>1, <4>2, <4>4, <5>1, <5>2
               DEF NextLog, At, Before, AtOrBefore, Position
          <5> QED BY <1>2, <2>1, <4>2, <4>4, <5>3
        <4> QED BY <4>3, <4>4
      <3> QED BY <3>1, <3>2
    <2> QED BY <2>2, <2>3
  <1> QED BY <1>3, <1>4

(* Every step keeps the invariant.                                         *)
LEMMA TimelineStep == TimelineInv /\ [Next]_vars => TimelineInv'
  <1> SUFFICES ASSUME TimelineInv, [Next]_vars PROVE TimelineInv'
    OBVIOUS
  <1>1. IInv'
    BY StepInvariant DEF TimelineInv
  <1>2. ASSUME UNCHANGED service_pair, pos' = pos \/ pos' \in EventPosition
        PROVE  RowsOnChain' /\ DeadFollowed'
    BY <1>2 DEF TimelineInv, RowsOnChain, DeadFollowed
  <1>3. ASSUME NEW p \in EventPosition, Before(pos, p), Event(p)
        PROVE  RowsOnChain' /\ DeadFollowed'
    <2>1. CASE \E o \in Orchestrators, w \in Wallets :
                 OrchestratorAdmitted(o, w, p) \/ OrchestratorWalletReplaced(o, w, p)
      BY <1>2, <2>1 DEF OrchestratorAdmitted, OrchestratorWalletReplaced
    <2>2. CASE \E o \in Orchestrators : OrchestratorRemoved(o, p)
      <3>1. PICK o \in Orchestrators :
              /\ pos' = p
              /\ service_pair' = EndBindings({r \in Active(service_pair) : r.orch = o}, p)
        BY <2>2 DEF OrchestratorRemoved
      <3>2. {r \in Active(service_pair) : r.orch = o} \in SUBSET Active(service_pair)
        OBVIOUS
      <3> QED BY <1>3, <3>1, <3>2, EndedOnTimeline
    <2>3. CASE \E c \in Cutoffs : PricingParamsUpdated(c, p)
      BY <1>2, <2>3 DEF PricingParamsUpdated
    <2>4. CASE \E o \in Orchestrators, pr \in Pairs : BindingDeclared(o, pr, p)
      BY <1>3, <2>4, DeclaredKeepsTimeline
    <2>5. CASE \E o \in Orchestrators, pr \in Pairs : BindingRejected(o, pr, p)
      BY <1>2, <2>5 DEF BindingRejected, tables
    <2>6. CASE \E o \in Orchestrators, pr \in Pairs, inherit \in BOOLEAN :
                 BindingReassigned(o, pr, p, inherit)
      BY <1>3, <2>6, ReassignedKeepsTimeline
    <2>7. CASE \E pr \in Pairs : BindingCanceled(pr, p)
      <3>1. PICK pr \in Pairs :
              /\ pos' = p
              /\ service_pair' = EndBindings({r \in ActiveOf(pr) : r.orch = owner[pr]}, p)
        BY <2>7 DEF BindingCanceled
      <3>2. {r \in ActiveOf(pr) : r.orch = owner[pr]} \in SUBSET Active(service_pair)
        BY DEF ActiveOf
      <3> QED BY <1>3, <3>1, <3>2, EndedOnTimeline
    <2> QED
      BY <1>3, <2>1, <2>2, <2>3, <2>4, <2>5, <2>6, <2>7 DEF Event
  <1>4. RowsOnChain' /\ DeadFollowed'
    BY <1>2, <1>3 DEF Next, vars
  <1> QED BY <1>1, <1>4 DEF TimelineInv

(* The invariant holds in every reachable state.                           *)
LEMMA TimelineInvariant == Spec => []TimelineInv
  <1>1. Init => TimelineInv
    BY InitInvariant, ServicePairsAssumption
       DEF Init, TimelineInv, RowsOnChain, DeadFollowed, EventPosition, At
  <1> QED BY <1>1, TimelineStep, PTL DEF Spec
-----------------------------------------------------------------------------
(* What the rows say of the timeline.                                      *)

CreditByRows ==
  \A pr \in Pairs, x \in Position :
    /\ \A r \in service_pair :
         r.pair = pr /\ Covers(r, x) => CreditAt(pr, x) = r.orch
    /\ (\A r \in service_pair : r.pair = pr => ~Covers(r, x)) => CreditAt(pr, x) = None

BoundByRows ==
  \A pr \in Pairs :
    /\ \A r \in service_pair :
         r.pair = pr /\ r.to = None => BoundSince(pr) = r.from
    /\ (\A r \in service_pair : r.pair = pr => r.to # None) => BoundSince(pr) = None

(* Rows that are separated credit one orchestrator at most.                *)
LEMMA RowsDecide == IInv => CreditByRows /\ BoundByRows
  <1> SUFFICES ASSUME IInv PROVE CreditByRows /\ BoundByRows
    OBVIOUS
  <1>1. CreditByRows
    <2> SUFFICES ASSUME NEW pr \in Pairs, NEW x \in Position
                 PROVE
                   /\ \A r \in service_pair :
                        r.pair = pr /\ Covers(r, x) => CreditAt(pr, x) = r.orch
                   /\ (\A r \in service_pair : r.pair = pr => ~Covers(r, x))
                        => CreditAt(pr, x) = None
      BY DEF CreditByRows
    <2>1. ASSUME NEW r \in service_pair, r.pair = pr, Covers(r, x)
          PROVE  CreditAt(pr, x) = r.orch
      <3>1. ASSUME NEW s \in service_pair, s.pair = pr, Covers(s, x)
            PROVE  s = r
        <4>1. /\ r.from \in Position /\ (r.to # None => r.to \in Position)
              /\ s.from \in Position /\ (s.to # None => s.to \in Position)
          BY DEF IInv, TypeOK, PairRow
        <4>2. s # r => Separated(r, s)
          BY <2>1, <3>1 DEF IInv, RowsSeparated
        <4> QED
          BY <2>1, <3>1, <4>1, <4>2 DEF Separated, Covers, Before, AtOrBefore, Position
      <3>2. CreditedTo(pr, x) = {r.orch}
        BY <2>1, <3>1 DEF CreditedTo, OfPair
      <3>3. r.orch \in Orchestrators
        BY DEF IInv, TypeOK, PairRow
      <3> QED BY <3>2, <3>3 DEF CreditAt
    <2>2. ASSUME \A r \in service_pair : r.pair = pr => ~Covers(r, x)
          PROVE  CreditAt(pr, x) = None
      <3>1. CreditedTo(pr, x) = {}
        BY <2>2 DEF CreditedTo, OfPair
      <3> QED BY <3>1 DEF CreditAt
    <2> QED BY <2>1, <2>2
  <1>2. BoundByRows
    <2> SUFFICES ASSUME NEW pr \in Pairs
                 PROVE
                   /\ \A r \in service_pair :
                        r.pair = pr /\ r.to = None => BoundSince(pr) = r.from
                   /\ (\A r \in service_pair : r.pair = pr => r.to # None)
                        => BoundSince(pr) = None
      BY DEF BoundByRows
    <2>1. ASSUME NEW r \in service_pair, r.pair = pr, r.to = None
          PROVE  BoundSince(pr) = r.from
      <3>1. r \in Active(service_pair)
        BY <2>1 DEF Active
      <3>2. ActiveOf(pr) = {r}
        BY <2>1, <3>1, OneOpenRow DEF ActiveOf, IInv
      <3> QED BY <3>2 DEF BoundSince
    <2>2. ASSUME \A r \in service_pair : r.pair = pr => r.to # None
          PROVE  BoundSince(pr) = None
      BY <2>2 DEF BoundSince, ActiveOf, Active
    <2> QED BY <2>1, <2>2
  <1> QED BY <1>1, <1>2

(* A pair whose rows are what they were is credited and bound as it was.   *)
LEMMA SameRows ==
  ASSUME NEW pr \in Pairs, \A r : r.pair = pr => (r \in service_pair' <=> r \in service_pair)
  PROVE  /\ \A x : CreditAt(pr, x)' = CreditAt(pr, x)
         /\ BoundSince(pr)' = BoundSince(pr)
  <1>1. OfPair(pr)' = OfPair(pr) /\ ActiveOf(pr)' = ActiveOf(pr)
    BY DEF OfPair, ActiveOf, Active
  <1>2. ASSUME NEW x PROVE CreditedTo(pr, x)' = CreditedTo(pr, x)
    BY <1>1 DEF CreditedTo, Covers
  <1>3. ASSUME NEW x PROVE CreditAt(pr, x)' = CreditAt(pr, x)
    <2>1. CreditedTo(pr, x)' = CreditedTo(pr, x)
      BY <1>2
    <2> QED BY <2>1 DEF CreditAt
  <1>4. BoundSince(pr)' = BoundSince(pr)
    <2> DEFINE begin(S) == IF S = {} THEN None ELSE (CHOOSE r \in S : TRUE).from
    <2>1. BoundSince(pr) = begin(ActiveOf(pr)) /\ BoundSince(pr)' = begin(ActiveOf(pr)')
      BY DEF BoundSince
    <2> HIDE DEF begin
    <2> QED BY <1>1, <2>1
  <1> QED BY <1>3, <1>4

(* The bindings that end at p are credited for nothing after p, and for    *)
(* what they were up to there.                                             *)
LEMMA EndedView ==
  ASSUME TimelineInv, CreditByRows', BoundByRows',
         NEW p \in EventPosition, Before(pos, p),
         NEW S \in SUBSET Active(service_pair), service_pair' = EndBindings(S, p),
         NEW pr \in Pairs
  PROVE  /\ (\E r \in S : r.pair = pr) =>
              /\ BoundSince(pr)' = None
              /\ \A x \in Position :
                   CreditAt(pr, x)' = IF Before(p, x) THEN None ELSE CreditAt(pr, x)
         /\ ~(\E r \in S : r.pair = pr) =>
              /\ BoundSince(pr)' = BoundSince(pr)
              /\ \A x \in Position : CreditAt(pr, x)' = CreditAt(pr, x)
  <1>1. /\ p \in Position /\ p # None /\ pos \in Position
        /\ service_pair \subseteq PairRow
    BY EventPositionType, ServicePairsAssumption DEF TimelineInv, IInv, TypeOK
  <1>2. /\ service_pair \ S \subseteq service_pair'
        /\ \A r \in S : ~Before(p, r.from) =>
              \E c \in service_pair' :
                c.pair = r.pair /\ c.orch = r.orch /\ c.from = r.from /\ c.to = p
        /\ \A c \in service_pair' :
              \/ c \in service_pair \ S
              \/ \E r \in S : /\ c.pair = r.pair /\ c.orch = r.orch
                              /\ c.from = r.from /\ c.to = p
                              /\ ~Before(p, r.from)
    BY <1>1, EndedTable
  <1>3. S \subseteq service_pair /\ \A r \in S : r.to = None
    BY DEF Active
  <1>4. CASE ~(\E r \in S : r.pair = pr)
    <2>1. \A r : r.pair = pr => (r \in service_pair' <=> r \in service_pair)
      BY <1>2, <1>3, <1>4
    <2> QED BY <1>4, <2>1, SameRows
  <1>5. CASE \E r \in S : r.pair = pr
    <2>1. PICK r \in S : r.pair = pr
      BY <1>5
    <2>2. ASSUME NEW s \in service_pair \ S, s.pair = pr
          PROVE  s.to # None /\ s.to \in Position /\ Before(s.to, p)
      <3>1. s.to # None
        BY <1>3, <2>1, <2>2, OneOpenRow DEF TimelineInv, IInv, Active
      <3>2. s.to \in Position /\ AtOrBefore(s.to, pos)
        BY <1>1, <2>2, <3>1 DEF TimelineInv, IInv, RowsInTime, PairRow
      <3> QED BY <1>1, <3>1, <3>2, BeforeFacts
    <2>3. ASSUME NEW c \in service_pair', c.pair = pr
          PROVE  c.to # None /\ c.to \in Position /\ AtOrBefore(c.to, p)
      <3>1. CASE c \in service_pair \ S
        BY <1>1, <2>2, <2>3, <3>1, BeforeFacts
      <3>2. CASE c.to = p
        BY <1>1, <3>2 DEF AtOrBefore, Position
      <3> QED BY <1>2, <3>1, <3>2
    <2>4. BoundSince(pr)' = None
      BY <2>3 DEF BoundByRows
    <2>5. ASSUME NEW x \in Position, Before(p, x)
          PROVE  CreditAt(pr, x)' = None
      <3>1. ASSUME NEW c \in service_pair', c.pair = pr PROVE ~Covers(c, x)
        BY <1>1, <2>3, <2>5, <3>1 DEF Covers, Before, AtOrBefore, Position
      <3>2. \A c \in service_pair' : c.pair = pr => ~Covers(c, x)'
        BY <3>1 DEF Covers
      <3> QED BY <3>2 DEF CreditByRows
    <2>6. ASSUME NEW x \in Position, ~Before(p, x)
          PROVE  CreditAt(pr, x)' = CreditAt(pr, x)
      <3>1. ASSUME NEW s \in service_pair, s.pair = pr, Covers(s, x)
            PROVE  \E c \in service_pair' : c.pair = pr /\ Covers(c, x) /\ c.orch = s.orch
        <4>1. CASE s \notin S
          BY <1>2, <3>1, <4>1
        <4>2. CASE s \in S
          <5>1. s.from \in Position /\ AtOrBefore(s.from, x) /\ AtOrBefore(x, p)
            BY <1>1, <2>6, <3>1, BeforeFacts DEF Covers, PairRow
          <5>2. ~Before(p, s.from)
            BY <1>1, <2>6, <5>1 DEF Before, AtOrBefore, Position
          <5> QED BY <1>2, <3>1, <4>2, <5>1, <5>2 DEF Covers
        <4> QED BY <4>1, <4>2
      <3>2. ASSUME NEW c \in service_pair', c.pair = pr, Covers(c, x)
            PROVE  \E s \in service_pair : s.pair = pr /\ Covers(s, x) /\ c.orch = s.orch
        BY <1>2, <1>3, <3>2 DEF Covers
      <3>3. CreditedTo(pr, x)' = CreditedTo(pr, x)
        BY <3>1, <3>2, SameCover
      <3> QED BY <3>3 DEF CreditAt
    <2> QED BY <1>5, <2>4, <2>5, <2>6
  <1> QED BY <1>4, <1>5

(* A declaration is credited from where its row begins.                    *)
LEMMA DeclaredView ==
  ASSUME TimelineInv, CreditByRows', BoundByRows',
         NEW o \in Orchestrators, NEW pr \in Pairs, NEW from \in Position,
         \A r \in service_pair : r.pair = pr => r.to # None /\ Before(r.to, from),
         service_pair' = service_pair \cup {Bind(o, pr, from)},
         NEW q \in Pairs
  PROVE  /\ BoundSince(q)' = IF q = pr THEN from ELSE BoundSince(q)
         /\ \A x \in Position :
              CreditAt(q, x)' = IF q = pr /\ AtOrBefore(from, x)
                                THEN o ELSE CreditAt(q, x)
  <1> DEFINE row == Bind(o, pr, from)
  <1>1. row.pair = pr /\ row.orch = o /\ row.from = from /\ row.to = None
    BY DEF Bind
  <1>2. service_pair' = service_pair \cup {row}
    OBVIOUS
  <1> HIDE DEF row
  <1>3. CASE q # pr
    <2>1. \A r : r.pair = q => (r \in service_pair' <=> r \in service_pair)
      BY <1>1, <1>2, <1>3
    <2> QED BY <1>3, <2>1, SameRows
  <1>4. CASE q = pr
    <2>1. BoundSince(pr)' = from
      BY <1>1, <1>2 DEF BoundByRows
    <2>2. ASSUME NEW x \in Position, AtOrBefore(from, x)
          PROVE  CreditAt(pr, x)' = o
      <3>1. row \in service_pair' /\ row.pair = pr /\ Covers(row, x)'
        BY <1>1, <1>2, <2>2 DEF Covers
      <3> QED BY <1>1, <3>1 DEF CreditByRows
    <2>3. ASSUME NEW x \in Position, ~AtOrBefore(from, x)
          PROVE  CreditAt(pr, x)' = CreditAt(pr, x)
      <3>1. ~Covers(row, x)
        BY <1>1, <2>3 DEF Covers
      <3>2. CreditedTo(pr, x)' = CreditedTo(pr, x)
        BY <1>2, <3>1, SameCover
      <3> QED BY <3>2 DEF CreditAt
    <2> QED BY <1>4, <2>1, <2>2, <2>3
  <1> QED BY <1>3, <1>4

(* A reassignment gives the new orchestrator everything from the beginning *)
(* of the binding, or everything after the event.                          *)
LEMMA ReassignedView ==
  ASSUME TimelineInv, CreditByRows', BoundByRows',
         NEW o \in Orchestrators, NEW pr \in Pairs, NEW inherit \in BOOLEAN,
         NEW p \in EventPosition, Before(pos, p),
         NEW r \in service_pair, r.pair = pr, r.to = None, ActiveOf(pr) = {r},
         service_pair' = Reassigned(o, pr, p, inherit),
         NEW from \in Position,
         from = IF Inherited(r, p, inherit) THEN r.from ELSE NextLog(p),
         NEW q \in Pairs
  PROVE  /\ BoundSince(q)' = IF q = pr THEN from ELSE BoundSince(q)
         /\ \A x \in Position :
              CreditAt(q, x)' = IF q = pr /\ AtOrBefore(from, x)
                                THEN o ELSE CreditAt(q, x)
  <1>1. /\ p \in Position /\ p # None /\ pos \in Position
        /\ service_pair \subseteq PairRow /\ r \in PairRow /\ r.from \in Position
    BY EventPositionType, ServicePairsAssumption DEF TimelineInv, IInv, TypeOK, PairRow
  <1>2. CASE Inherited(r, p, inherit)
    <2>1. PICK heir \in PairRow :
            /\ heir.pair = pr /\ heir.orch = o
            /\ heir.from = r.from /\ heir.to = None
            /\ service_pair' = (service_pair \ {r}) \cup {heir}
      BY <1>1, <1>2, ReassignedTable
    <2>2. from = r.from
      BY <1>2
    <2>3. CASE q # pr
      <3>1. \A s : s.pair = q => (s \in service_pair' <=> s \in service_pair)
        BY <2>1, <2>3
      <3> QED BY <2>3, <3>1, SameRows
    <2>4. CASE q = pr
      <3>1. BoundSince(pr)' = from
        BY <2>1, <2>2 DEF BoundByRows
      <3>2. ASSUME NEW x \in Position, AtOrBefore(from, x)
            PROVE  CreditAt(pr, x)' = o
        <4>1. heir \in service_pair' /\ Covers(heir, x)'
          BY <2>1, <2>2, <3>2 DEF Covers
        <4> QED BY <2>1, <4>1 DEF CreditByRows
      <3>3. ASSUME NEW x \in Position, ~AtOrBefore(from, x)
            PROVE  CreditAt(pr, x)' = CreditAt(pr, x)
        <4>1. ~Covers(heir, x) /\ ~Covers(r, x)
          BY <2>1, <2>2, <3>3 DEF Covers
        <4>2. CreditedTo(pr, x)' = CreditedTo(pr, x)
          BY <2>1, <4>1, SameCover
        <4> QED BY <4>2 DEF CreditAt
      <3> QED BY <2>4, <3>1, <3>2, <3>3
    <2> QED BY <2>3, <2>4
  <1>3. CASE ~Inherited(r, p, inherit)
    <2>1. PICK ended \in PairRow, row \in PairRow :
            /\ ended.pair = pr /\ ended.orch = r.orch
            /\ ended.from = r.from /\ ended.to = p
            /\ row.pair = pr /\ row.orch = o
            /\ row.from = NextLog(p) /\ row.to = None
            /\ service_pair' = (service_pair \ {r}) \cup {ended, row}
      BY <1>1, <1>3, ReassignedTable
    <2>2. from = NextLog(p) /\ \A x \in Position : AtOrBefore(from, x) <=> Before(p, x)
      BY <1>1, <1>3 DEF NextLog, At, AtOrBefore, Before, Position
    <2>3. CASE q # pr
      <3>1. \A s : s.pair = q => (s \in service_pair' <=> s \in service_pair)
        BY <2>1, <2>3
      <3> QED BY <2>3, <3>1, SameRows
    <2>4. CASE q = pr
      <3>1. BoundSince(pr)' = from
        BY <2>1, <2>2 DEF BoundByRows
      <3>2. ASSUME NEW x \in Position, AtOrBefore(from, x)
            PROVE  CreditAt(pr, x)' = o
        <4>1. row \in service_pair' /\ Covers(row, x)'
          BY <2>1, <2>2, <3>2 DEF Covers
        <4> QED BY <2>1, <4>1 DEF CreditByRows
      <3>3. ASSUME NEW x \in Position, ~AtOrBefore(from, x)
            PROVE  CreditAt(pr, x)' = CreditAt(pr, x)
        <4>1. ~Covers(row, x)
          BY <2>1, <2>2, <3>3 DEF Covers
        <4>2. AtOrBefore(x, p)
          BY <1>1, <2>2, <3>3, BeforeFacts
        <4>3. Covers(ended, x) <=> Covers(r, x)
          BY <2>1, <4>2 DEF Covers
        <4>4. ended \in service_pair'
          BY <2>1
        <4>5. ASSUME NEW s \in service_pair, s.pair = pr, Covers(s, x)
              PROVE  \E c \in service_pair' :
                       c.pair = pr /\ Covers(c, x) /\ c.orch = s.orch
          <5>1. CASE s = r
            BY <2>1, <4>3, <4>4, <4>5, <5>1
          <5>2. CASE s # r
            BY <2>1, <4>5, <5>2
          <5> QED BY <5>1, <5>2
        <4>6. ASSUME NEW c \in service_pair', c.pair = pr, Covers(c, x)
              PROVE  \E s \in service_pair :
                       s.pair = pr /\ Covers(s, x) /\ c.orch = s.orch
          BY <2>1, <4>1, <4>3, <4>6
        <4>7. CreditedTo(pr, x)' = CreditedTo(pr, x)
          BY <4>5, <4>6, SameCover
        <4> QED BY <4>7 DEF CreditAt
      <3> QED BY <2>4, <3>1, <3>2, <3>3
    <2> QED BY <2>3, <2>4
  <1> QED BY <1>2, <1>3
-----------------------------------------------------------------------------
(* The operators of Attribution, read with the rows of ServicePairs.       *)

AdmittedSet    == {o \in Orchestrators : Admitted(o)}
TimelineCredit == [pr \in Pairs |-> [x \in Horizon |-> CreditAt(pr, x)]]
TimelineSince  == [pr \in Pairs |-> BoundSince(pr)]

Onwards(p) == {x \in Horizon : AtOrBefore(p, x)}

(* The abstract specification has the same calendar.                       *)
LEMMA SameCalendar ==
  /\ \A e, l : Timeline!At(e, l) = At(e, l)
  /\ \A p, q : Timeline!Before(p, q) <=> Before(p, q)
  /\ \A p, q : Timeline!AtOrBefore(p, q) <=> AtOrBefore(p, q)
  /\ \A e : Timeline!QuarterOf(e) = QuarterOf(e)
  /\ \A q : Timeline!QuarterStart(q) = QuarterStart(q)
  /\ \A q : Timeline!QuarterEnd(q) = QuarterEnd(q)
  /\ \A e : Timeline!EffectiveQuarter(e) = EffectiveQuarter(e)
  BY DEF Timeline!At, At, Timeline!Before, Before, Timeline!AtOrBefore, AtOrBefore,
         Timeline!QuarterOf, QuarterOf, Timeline!QuarterStart, QuarterStart,
         Timeline!QuarterEnd, QuarterEnd, Timeline!EffectiveQuarter, EffectiveQuarter

(* Its operators, said of the rows.                                        *)
LEMMA SameTimeline ==
  /\ Timeline!Timeline = Horizon
  /\ \A p : Timeline!From(p) = Onwards(p)
  /\ \A p : Timeline!After(p) = {x \in Horizon : Before(p, x)}
  /\ \A pr : Timeline!Bound(pr) <=> TimelineSince[pr] # None
  /\ \A pr : Timeline!Holder(pr) = TimelineCredit[pr][Last]
  <1>1. Timeline!Timeline = Horizon
    BY DEF Timeline!Timeline, Timeline!LastEpoch, Horizon
  <1>2. Timeline!At(Timeline!LastEpoch, MaxLog + 1) = Last
    BY DEF Timeline!At, At, Timeline!LastEpoch, Last
  <1> QED
    BY <1>1, <1>2, SameCalendar
       DEF Timeline!From, Timeline!After, Timeline!Bound, Timeline!Holder,
           Onwards, TimelineSince, TimelineCredit

(* A final part of the timeline begins where it says.                      *)
LEMMA OnwardsFacts ==
  ASSUME NEW p \in Horizon
  PROVE  /\ Timeline!Earliest(Onwards(p)) = p
         /\ \A x \in Horizon : x \in Onwards(p) <=> AtOrBefore(p, x)
  <1>1. p \in Onwards(p) /\ \A x \in Onwards(p) : AtOrBefore(p, x)
    BY HorizonFacts DEF Onwards, AtOrBefore, Position
  <1>2. \A x \in Onwards(p) : AtOrBefore(x, p) => x = p
    BY HorizonFacts DEF Onwards, AtOrBefore, Position
  <1>3. Timeline!Earliest(Onwards(p)) =
          CHOOSE x \in Onwards(p) : \A y \in Onwards(p) : AtOrBefore(x, y)
    BY SameCalendar DEF Timeline!Earliest
  <1> QED BY <1>1, <1>2, <1>3 DEF Onwards

(* After a position is from the next one on.                               *)
LEMMA AfterIsOnwards ==
  ASSUME NEW p \in Position
  PROVE  {x \in Horizon : Before(p, x)} = Onwards(NextLog(p))
  <1>1. \A x \in Horizon : Before(p, x) <=> AtOrBefore(NextLog(p), x)
    BY HorizonFacts DEF Before, AtOrBefore, NextLog, At, Position
  <1> QED BY <1>1 DEF Onwards

(* One pair is rewritten from a position on.                               *)
LEMMA RewriteView ==
  ASSUME NEW o \in Orchestrators, NEW pr \in Pairs, NEW from \in Horizon,
         \A q \in Pairs :
           /\ BoundSince(q)' = IF q = pr THEN from ELSE BoundSince(q)
           /\ \A x \in Position :
                CreditAt(q, x)' = IF q = pr /\ AtOrBefore(from, x)
                                  THEN o ELSE CreditAt(q, x)
  PROVE  /\ Timeline!Rewrite(pr, Onwards(from), o)
         /\ TimelineSince' = [TimelineSince EXCEPT ![pr] =
                                Timeline!Earliest(Onwards(from))]
  <1>1. TimelineSince' = [TimelineSince EXCEPT ![pr] = Timeline!Earliest(Onwards(from))]
    BY OnwardsFacts DEF TimelineSince
  <1>2. ASSUME NEW q \in Pairs, NEW x \in Horizon
        PROVE  CreditAt(q, x)' = IF q = pr /\ x \in Onwards(from)
                                 THEN o ELSE CreditAt(q, x)
    BY HorizonFacts, OnwardsFacts
  <1>3. TimelineCredit' =
          [TimelineCredit EXCEPT ![pr] =
             [x \in Horizon |-> IF x \in Onwards(from) THEN o ELSE @[x]]]
    BY <1>2 DEF TimelineCredit
  <1>4. Timeline!Rewrite(pr, Onwards(from), o)
    BY <1>3, SameTimeline DEF Timeline!Rewrite, TimelineCredit
  <1> QED BY <1>1, <1>4

(* The two ways to say that a declaration comes too late for its quarter.  *)
LEMMA SameCutoff ==
  ASSUME TypeOK, NEW p \in Position
  PROVE  Timeline!TooLate(p) <=> InCutoff(p)
  <1>1. /\ p.epoch \in Nat
        /\ QuarterOf(p.epoch) >= 1 => QuarterEnd(QuarterOf(p.epoch)) \in Nat
    <2>1. QuarterEnd(EffectiveQuarter(p.epoch)) \in Nat
      BY EffectiveQuarterBounds DEF Position
    <2>2. QuarterOf(p.epoch) >= 1 => EffectiveQuarter(p.epoch) = QuarterOf(p.epoch)
      BY DEF EffectiveQuarter
    <2> QED BY <2>1, <2>2 DEF Position
  <1>2. \A c \in cutoff : c.value \in Nat
    BY ServicePairsAssumption DEF TypeOK, CutoffRow
  <1>3. \A c \in cutoff : QuarterOf(p.epoch) >= 1 =>
          (p.epoch > QuarterEnd(QuarterOf(p.epoch)) - c.value
             <=> p.epoch >= QuarterEnd(QuarterOf(p.epoch)) - c.value + 1)
    BY <1>1, <1>2
  <1> DEFINE known == {c \in cutoff :
                         c.at.epoch < QuarterStart(EffectiveQuarter(p.epoch))}
  <1>4. Timeline!TooLate(p) <=>
          /\ QuarterOf(p.epoch) >= 1
          /\ \E c \in known :
               /\ \A d \in known : AtOrBefore(d.at, c.at)
               /\ p.epoch > QuarterEnd(QuarterOf(p.epoch)) - c.value
    BY SameCalendar DEF Timeline!TooLate
  <1>5. CutoffInForce(p) = {c \in known : \A d \in known : AtOrBefore(d.at, c.at)}
    BY DEF CutoffInForce
  <1>6. InCutoff(p) <=>
          /\ QuarterOf(p.epoch) >= 1
          /\ \E c \in known :
               /\ \A d \in known : AtOrBefore(d.at, c.at)
               /\ p.epoch >= QuarterEnd(QuarterOf(p.epoch)) - c.value + 1
    BY <1>5 DEF InCutoff
  <1> QED BY <1>3, <1>4, <1>6

(* What the pair was credited in the quarter of p ends with its last       *)
(* release: a declaration begins there, or at the start of the quarter.    *)
LEMMA DeclaredWhere ==
  ASSUME TimelineInv, CreditByRows, NEW p \in EventPosition, Before(pos, p),
         NEW pr \in Pairs, ActiveOf(pr) = {}, NEW from \in DeclaredFrom(pr, p),
         ~InCutoff(p)
  PROVE  Timeline!Unclaimed(pr, p) = Onwards(from)
  <1> DEFINE start   == At(QuarterStart(EffectiveQuarter(p.epoch)), 0)
             claimed == {y \in Horizon : /\ CreditAt(pr, y) # None
                                         /\ QuarterOf(y.epoch) = QuarterOf(p.epoch)}
  <1>1. Timeline!Unclaimed(pr, p) =
          IF claimed = {} THEN Onwards(start)
          ELSE {x \in Horizon : \A y \in claimed : Before(y, x)}
    BY SameTimeline, SameCalendar DEF Timeline!Unclaimed
  <1>2. p \in Position /\ pos \in Position /\ p.epoch \in Nat
    BY EventPositionType DEF TimelineInv, IInv, TypeOK, Position
  <1>3. ASSUME NEW r \in service_pair, r.pair = pr
        PROVE  /\ r.to # None /\ r.to \in Position /\ r.to \in Releases(pr)
               /\ r.to \in Horizon
               /\ Before(r.to, p)
    <2>1. r.to # None /\ r.to \in Position
      BY <1>3 DEF ActiveOf, Active, TimelineInv, IInv, TypeOK, PairRow
    <2>2. r.to \in Releases(pr) /\ r.to \in Horizon
      BY <1>3, <2>1, HorizonFacts DEF Releases, OfPair, TimelineInv, RowsOnChain
    <2>3. AtOrBefore(r.to, pos)
      BY <2>1 DEF TimelineInv, IInv, RowsInTime
    <2> QED BY <1>2, <2>1, <2>2, <2>3, BeforeFacts
  <1>4. ASSUME NEW y \in claimed
        PROVE  \E r \in service_pair : r.pair = pr /\ Covers(r, y) /\ AtOrBefore(y, r.to)
    <2>1. y \in Position
      BY HorizonFacts
    <2>2. PICK r \in service_pair : r.pair = pr /\ Covers(r, y)
      BY <2>1 DEF CreditByRows
    <2> QED BY <1>3, <2>2 DEF Covers
  <1>5. CASE Releases(pr) = {}
    <2>1. claimed = {}
      BY <1>3, <1>4, <1>5
    <2>2. from = start
      BY <1>5 DEF DeclaredFrom
    <2> QED BY <1>1, <2>1, <2>2
  <1>6. CASE Releases(pr) # {}
    <2>1. PICK x \in PreviousRelease(pr) :
            from = IF QuarterOf(x.epoch) # QuarterOf(p.epoch) THEN start ELSE NextLog(x)
      BY <1>6 DEF DeclaredFrom
    <2>2. /\ x \in Releases(pr)
          /\ \A z \in Releases(pr) : AtOrBefore(z, x)
      BY <2>1 DEF PreviousRelease
    <2>3. PICK r \in service_pair : r.pair = pr /\ r.to = x
      BY <2>2 DEF Releases, OfPair
    <2>4. x \in Position /\ x \in Horizon /\ Before(x, p)
      BY <1>3, <2>3
    <2>5. ASSUME NEW y \in claimed PROVE y \in Position /\ AtOrBefore(y, x)
      <3>1. PICK s \in service_pair : s.pair = pr /\ AtOrBefore(y, s.to)
        BY <1>4
      <3>2. y \in Position /\ s.to \in Position /\ AtOrBefore(s.to, x)
        BY <1>3, <2>2, <3>1, HorizonFacts
      <3> QED BY <2>4, <3>1, <3>2, BeforeFacts
    <2>6. CASE QuarterOf(x.epoch) # QuarterOf(p.epoch)
      <3>1. claimed = {}
        <4> SUFFICES ASSUME NEW y \in claimed PROVE FALSE
          OBVIOUS
        <4>1. y.epoch \in Nat /\ x.epoch \in Nat /\ y.epoch <= x.epoch /\ x.epoch <= p.epoch
          BY <1>2, <2>4, <2>5 DEF Position, AtOrBefore, Before
        <4>2. QuarterOf(y.epoch) <= QuarterOf(x.epoch) /\ QuarterOf(x.epoch) <= QuarterOf(p.epoch)
          BY <1>2, <4>1, QuarterMonotone
        <4>3. \A e \in Nat : QuarterOf(e) \in Int
          BY QuarterBounds, CalendarAssumption DEF QuarterOf
        <4>4. QuarterOf(y.epoch) = QuarterOf(p.epoch)
          OBVIOUS
        <4> QED BY <1>2, <2>6, <4>1, <4>2, <4>3, <4>4
      <3> QED BY <1>1, <2>1, <2>6, <3>1
    <2>7. CASE QuarterOf(x.epoch) = QuarterOf(p.epoch)
      <3>1. Covers(r, x)
        <4> SUFFICES ASSUME ~Covers(r, x) PROVE FALSE
          OBVIOUS
        <4>1. r.from \in Position
          BY DEF TimelineInv, IInv, TypeOK, PairRow
        <4>2. Before(x, r.from)
          BY <2>3, <2>4, <4>1 DEF Covers, Before, AtOrBefore, Position
        <4>3. PICK s \in service_pair : /\ s.pair = pr
                                        /\ s.from = NextLog(x)
                                        /\ s.to = None \/ AtOrBefore(s.from, s.to)
          BY <1>3, <2>3, <4>2 DEF TimelineInv, DeadFollowed
        <4>4. /\ AtOrBefore(s.from, s.to) /\ s.to \in Position
              /\ AtOrBefore(s.to, x)
          BY <1>3, <2>2, <4>3
        <4> QED BY <2>4, <4>3, <4>4 DEF AtOrBefore, NextLog, At, Position
      <3>2. x \in claimed
        <4>1. CreditAt(pr, x) = r.orch /\ r.orch # None
          BY <2>3, <2>4, <3>1, ServicePairsAssumption
             DEF CreditByRows, TimelineInv, IInv, TypeOK, PairRow
        <4> QED BY <2>4, <2>7, <4>1
      <3>3. {z \in Horizon : \A y \in claimed : Before(y, z)}
              = {z \in Horizon : Before(x, z)}
        <4>1. ASSUME NEW z \in Horizon, Before(x, z), NEW y \in claimed
              PROVE  Before(y, z)
          BY <2>4, <2>5, <4>1, HorizonFacts, BeforeFacts
        <4> HIDE DEF claimed
        <4> QED BY <3>2, <4>1
      <3>4. from = NextLog(x)
        BY <2>1, <2>7
      <3>5. {z \in Horizon : Before(x, z)} = Onwards(from)
        BY <2>4, <3>4, AfterIsOnwards
      <3> HIDE DEF claimed
      <3> QED BY <1>1, <3>2, <3>3, <3>5
    <2> QED BY <2>6, <2>7
  <1> QED BY <1>5, <1>6
-----------------------------------------------------------------------------
(* Every event is a step of the timeline.                                  *)

ViewInv == TimelineInv /\ CreditByRows /\ BoundByRows

(* What the timeline is built from does not move when the rows do not.     *)
LEMMA UnchangedView ==
  ASSUME UNCHANGED service_pair
  PROVE  UNCHANGED <<TimelineCredit, TimelineSince>>
  <1>1. ASSUME NEW pr \in Pairs
        PROVE  /\ \A x : CreditAt(pr, x)' = CreditAt(pr, x)
               /\ BoundSince(pr)' = BoundSince(pr)
    BY <1>1, SameRows
  <1> QED BY <1>1 DEF TimelineCredit, TimelineSince

(* An admission is one of the timeline.                                    *)
LEMMA AdmittedImplements ==
  ASSUME ViewInv, NEW o \in Orchestrators, NEW w \in Wallets,
         NEW p \in EventPosition, OrchestratorAdmitted(o, w, p)
  PROVE  Timeline!Admit(o)
  <1>1. /\ orchWallet' = [orchWallet EXCEPT ![o] = w]
        /\ UNCHANGED <<service_pair, cutoff>>
        /\ orchWallet \in [Orchestrators -> Wallets \cup {None}]
        /\ w # None
    BY ServicePairsAssumption DEF OrchestratorAdmitted, ViewInv, TimelineInv, IInv, TypeOK
  <1>2. AdmittedSet' = AdmittedSet \cup {o}
    BY <1>1 DEF AdmittedSet, Admitted
  <1>3. UNCHANGED <<TimelineCredit, TimelineSince>>
    BY <1>1, UnchangedView
  <1> QED
    BY <1>1, <1>2, <1>3 DEF Timeline!Admit, AdmittedSet, TimelineCredit, TimelineSince

(* Wallets are no concern of the timeline.                                 *)
LEMMA WalletReplacedImplements ==
  ASSUME ViewInv, NEW o \in Orchestrators, NEW w \in Wallets,
         NEW p \in EventPosition, OrchestratorWalletReplaced(o, w, p)
  PROVE  UNCHANGED <<AdmittedSet, cutoff, TimelineCredit, TimelineSince>>
  <1>1. /\ orchWallet' = [orchWallet EXCEPT ![o] = w]
        /\ orchWallet[o] # None
        /\ UNCHANGED <<service_pair, cutoff>>
        /\ orchWallet \in [Orchestrators -> Wallets \cup {None}]
        /\ w # None
    BY ServicePairsAssumption
       DEF OrchestratorWalletReplaced, Admitted, ViewInv, TimelineInv, IInv, TypeOK
  <1>2. AdmittedSet' = AdmittedSet
    BY <1>1 DEF AdmittedSet, Admitted
  <1> QED BY <1>1, <1>2, UnchangedView

(* Of the parameters only REGISTRATION_CUTOFF is.                          *)
LEMMA ParamsImplement ==
  ASSUME NEW c \in Cutoffs, NEW p \in EventPosition, PricingParamsUpdated(c, p)
  PROVE  Timeline!SetCutoff(p)
  <1>1. /\ cutoff' = cutoff \cup {[value |-> c, at |-> p]}
        /\ UNCHANGED <<service_pair, orchWallet>>
    BY DEF PricingParamsUpdated, actor
  <1>2. UNCHANGED <<AdmittedSet, TimelineCredit, TimelineSince>>
    BY <1>1, UnchangedView DEF AdmittedSet, Admitted
  <1> QED
    BY <1>1, <1>2 DEF Timeline!SetCutoff, AdmittedSet, TimelineCredit, TimelineSince

(* A handler that throws leaves the timeline alone.                        *)
LEMMA RejectedImplements ==
  ASSUME NEW o \in Orchestrators, NEW pr \in Pairs, NEW p \in EventPosition,
         BindingRejected(o, pr, p)
  PROVE  UNCHANGED <<AdmittedSet, cutoff, TimelineCredit, TimelineSince>>
  BY UnchangedView DEF BindingRejected, tables, actor, AdmittedSet, Admitted

(* A declaration rewrites what is unclaimed, or the quarters to come.      *)
LEMMA DeclaredImplements ==
  ASSUME ViewInv, CreditByRows', BoundByRows', NEW o \in Orchestrators,
         NEW pr \in Pairs, NEW p \in EventPosition, Before(pos, p),
         BindingDeclared(o, pr, p)
  PROVE  Timeline!Declare(o, pr, p)
  <1>1. PICK from \in DeclaredFrom(pr, p) :
          service_pair' = service_pair \cup {Bind(o, pr, from)}
    BY DEF BindingDeclared
  <1>2. /\ Admitted(o) /\ ActiveOf(pr) = {}
        /\ UNCHANGED <<cutoff, orchWallet>>
        /\ p \in Position
    BY EventPositionType DEF BindingDeclared, BindingError
  <1>3. /\ from \in Horizon /\ from \in Position
        /\ \A r \in service_pair : r.pair = pr => r.to # None /\ Before(r.to, from)
    BY <1>2, DeclaredOnTimeline, DeclaredBeginning DEF ViewInv, TimelineInv, IInv
  <1>4. \A q \in Pairs :
           /\ BoundSince(q)' = IF q = pr THEN from ELSE BoundSince(q)
           /\ \A x \in Position :
                CreditAt(q, x)' = IF q = pr /\ AtOrBefore(from, x)
                                  THEN o ELSE CreditAt(q, x)
    BY <1>1, <1>3, DeclaredView DEF ViewInv
  <1>5. /\ Timeline!Rewrite(pr, Onwards(from), o)
        /\ TimelineSince' = [TimelineSince EXCEPT ![pr] =
                               Timeline!Earliest(Onwards(from))]
    BY <1>3, <1>4, RewriteView
  <1>6. ~Timeline!Bound(pr)
    BY <1>3, SameTimeline DEF ViewInv, BoundByRows, TimelineSince
  <1>7. o \in AdmittedSet /\ UNCHANGED <<AdmittedSet, cutoff>>
    BY <1>2 DEF AdmittedSet, Admitted
  <1> DEFINE S == IF Timeline!TooLate(p)
                  THEN Timeline!From(Timeline!At(
                         Timeline!QuarterEnd(Timeline!EffectiveQuarter(p.epoch)) + 1, 0))
                  ELSE Timeline!Unclaimed(pr, p)
  <1>8. S = Onwards(from)
    <2>1. CASE InCutoff(p)
      <3>1. from = At(QuarterEnd(EffectiveQuarter(p.epoch)) + 1, 0)
        BY <2>1 DEF DeclaredFrom
      <3>2. Timeline!TooLate(p)
        BY <1>2, <2>1, SameCutoff DEF ViewInv, TimelineInv, IInv
      <3> QED BY <3>1, <3>2, SameTimeline, SameCalendar
    <2>2. CASE ~InCutoff(p)
      <3>1. ~Timeline!TooLate(p)
        BY <1>2, <2>2, SameCutoff DEF ViewInv, TimelineInv, IInv
      <3>2. Timeline!Unclaimed(pr, p) = Onwards(from)
        BY <1>2, <2>2, DeclaredWhere DEF ViewInv
      <3> QED BY <3>1, <3>2
    <2> QED BY <2>1, <2>2
  <1>9. Timeline!Declare(o, pr, p) <=>
          /\ o \in AdmittedSet
          /\ ~Timeline!Bound(pr)
          /\ Timeline!Rewrite(pr, S, o)
          /\ TimelineSince' = [TimelineSince EXCEPT ![pr] = Timeline!Earliest(S)]
          /\ UNCHANGED <<AdmittedSet, cutoff>>
    BY DEF Timeline!Declare, AdmittedSet, TimelineSince
  <1> HIDE DEF S
  <1> QED BY <1>5, <1>6, <1>7, <1>8, <1>9

(* A reassignment rewrites what the heir gets.                             *)
LEMMA ReassignedImplements ==
  ASSUME ViewInv, CreditByRows', BoundByRows', NEW o \in Orchestrators,
         NEW pr \in Pairs, NEW inherit \in BOOLEAN,
         NEW p \in EventPosition, Before(pos, p),
         BindingReassigned(o, pr, p, inherit)
  PROVE  Timeline!Reassign(o, pr, p, inherit)
  <1>1. /\ Admitted(o) /\ owner[pr] # None
        /\ service_pair' = Reassigned(o, pr, p, inherit)
        /\ UNCHANGED <<cutoff, orchWallet>>
        /\ p \in Position
    BY EventPositionType DEF BindingReassigned
  <1>2. PICK r \in service_pair : /\ ActiveOf(pr) = {r} /\ r \in PairRow
                                  /\ r.pair = pr /\ r.to = None
    BY <1>1, TheOpenRow DEF ViewInv, TimelineInv
  <1> DEFINE from == IF Inherited(r, p, inherit) THEN r.from ELSE NextLog(p)
  <1>3. from \in Horizon /\ from \in Position /\ r.from \in Position
    BY <1>2, HorizonFacts DEF ViewInv, TimelineInv, RowsOnChain, PairRow
  <1>4. \A q \in Pairs :
           /\ BoundSince(q)' = IF q = pr THEN from ELSE BoundSince(q)
           /\ \A x \in Position :
                CreditAt(q, x)' = IF q = pr /\ AtOrBefore(from, x)
                                  THEN o ELSE CreditAt(q, x)
    BY <1>1, <1>2, <1>3, ReassignedView DEF ViewInv
  <1> HIDE DEF from
  <1>5. /\ Timeline!Rewrite(pr, Onwards(from), o)
        /\ TimelineSince' = [TimelineSince EXCEPT ![pr] =
                               Timeline!Earliest(Onwards(from))]
    BY <1>3, <1>4, RewriteView
  <1>6. TimelineSince[pr] = r.from /\ r.from # None
    BY <1>2, <1>3, ServicePairsAssumption DEF ViewInv, BoundByRows, TimelineSince
  <1>7. Timeline!Bound(pr)
    BY <1>6, SameTimeline
  <1>8. o \in AdmittedSet /\ UNCHANGED <<AdmittedSet, cutoff>>
    BY <1>1 DEF AdmittedSet, Admitted
  <1> DEFINE S == IF /\ inherit
                     /\ TimelineSince[pr].epoch >=
                          Timeline!QuarterStart(Timeline!EffectiveQuarter(p.epoch))
                  THEN Timeline!From(TimelineSince[pr])
                  ELSE Timeline!After(p)
  <1>9. S = Onwards(from)
    <2>1. Timeline!QuarterStart(Timeline!EffectiveQuarter(p.epoch))
            = QuarterStart(EffectiveQuarter(p.epoch))
      BY SameCalendar
    <2>2. S = IF Inherited(r, p, inherit) THEN Timeline!From(r.from) ELSE Timeline!After(p)
      BY <1>6, <2>1 DEF Inherited
    <2>3. Timeline!After(p) = Onwards(NextLog(p))
      BY <1>1, SameTimeline, AfterIsOnwards
    <2>4. Timeline!From(r.from) = Onwards(r.from)
      BY SameTimeline
    <2> HIDE DEF S
    <2> QED BY <2>2, <2>3, <2>4 DEF from
  <1>10. Timeline!Reassign(o, pr, p, inherit) <=>
          /\ o \in AdmittedSet
          /\ Timeline!Bound(pr)
          /\ Timeline!Rewrite(pr, S, o)
          /\ TimelineSince' = [TimelineSince EXCEPT ![pr] = Timeline!Earliest(S)]
          /\ UNCHANGED <<AdmittedSet, cutoff>>
    BY DEF Timeline!Reassign, AdmittedSet, TimelineSince
  <1> HIDE DEF S
  <1> QED BY <1>5, <1>7, <1>8, <1>9, <1>10

(* Ending rows ends the bindings of their pairs.                           *)
LEMMA EndedImplements ==
  ASSUME ViewInv, CreditByRows', BoundByRows',
         NEW p \in EventPosition, Before(pos, p),
         NEW S \in SUBSET Active(service_pair), service_pair' = EndBindings(S, p),
         NEW P \in SUBSET Pairs,
         \A pr \in Pairs : pr \in P <=> \E r \in S : r.pair = pr
  PROVE  Timeline!End(P, p)
  <1>1. ASSUME NEW pr \in Pairs
        PROVE  /\ BoundSince(pr)' = IF pr \in P THEN None ELSE BoundSince(pr)
               /\ \A x \in Horizon :
                    CreditAt(pr, x)' = IF pr \in P /\ Before(p, x)
                                       THEN None ELSE CreditAt(pr, x)
    <2>1. /\ (\E r \in S : r.pair = pr) =>
               /\ BoundSince(pr)' = None
               /\ \A x \in Position :
                    CreditAt(pr, x)' = IF Before(p, x) THEN None ELSE CreditAt(pr, x)
          /\ ~(\E r \in S : r.pair = pr) =>
               /\ BoundSince(pr)' = BoundSince(pr)
               /\ \A x \in Position : CreditAt(pr, x)' = CreditAt(pr, x)
      BY EndedView DEF ViewInv
    <2>2. Horizon \subseteq Position
      BY HorizonFacts
    <2> QED BY <2>1, <2>2
  <1>2. TimelineCredit' =
          [pr \in Pairs |-> [x \in Horizon |-> IF pr \in P /\ Before(p, x)
                                               THEN None ELSE TimelineCredit[pr][x]]]
    BY <1>1 DEF TimelineCredit
  <1>3. TimelineSince' = [pr \in Pairs |-> IF pr \in P THEN None ELSE TimelineSince[pr]]
    BY <1>1 DEF TimelineSince
  <1>4. \A x \in Horizon : x \in Timeline!After(p) <=> Before(p, x)
    BY SameTimeline
  <1>5. TimelineCredit' =
          [pr \in Pairs |-> [x \in Timeline!Timeline |->
             IF pr \in P /\ x \in Timeline!After(p)
             THEN None ELSE TimelineCredit[pr][x]]]
    BY <1>2, <1>4, SameTimeline
  <1> QED BY <1>3, <1>5 DEF Timeline!End, TimelineCredit, TimelineSince

(* A cancelation ends one binding.                                         *)
LEMMA CanceledImplements ==
  ASSUME ViewInv, CreditByRows', BoundByRows', NEW pr \in Pairs,
         NEW p \in EventPosition, Before(pos, p), BindingCanceled(pr, p)
  PROVE  Timeline!Cancel(pr, p)
  <1> DEFINE rows == {r \in ActiveOf(pr) : r.orch = owner[pr]}
  <1>1. /\ owner[pr] # None
        /\ service_pair' = EndBindings(rows, p)
        /\ UNCHANGED <<cutoff, orchWallet>>
    BY DEF BindingCanceled
  <1>2. PICK r \in service_pair : /\ ActiveOf(pr) = {r} /\ r \in PairRow
                                  /\ r.pair = pr /\ r.to = None /\ r.orch = owner[pr]
    BY <1>1, TheOpenRow DEF ViewInv, TimelineInv
  <1>3. rows = {r}
    BY <1>2
  <1>4. rows \in SUBSET Active(service_pair)
    BY DEF ActiveOf
  <1>5. \A q \in Pairs : q \in {pr} <=> \E s \in rows : s.pair = q
    BY <1>2, <1>3
  <1> HIDE DEF rows
  <1>6. {pr} \in SUBSET Pairs
    OBVIOUS
  <1>7. Timeline!End({pr}, p)
    BY <1>1, <1>4, <1>5, <1>6, EndedImplements
  <1>8. Timeline!Bound(pr)
    BY <1>2, SameTimeline, ServicePairsAssumption
       DEF ViewInv, BoundByRows, TimelineSince, PairRow
  <1>9. UNCHANGED <<AdmittedSet, cutoff>>
    BY <1>1 DEF AdmittedSet, Admitted
  <1> QED BY <1>7, <1>8, <1>9 DEF Timeline!Cancel, AdmittedSet

(* The pairs of the orchestrator are those credited to it at the end.      *)
LEMMA RemovedImplements ==
  ASSUME ViewInv, CreditByRows', BoundByRows', NEW o \in Orchestrators,
         NEW p \in EventPosition, Before(pos, p), OrchestratorRemoved(o, p)
  PROVE  Timeline!Remove(o, p)
  <1> DEFINE rows == {r \in Active(service_pair) : r.orch = o}
             P    == {pr \in Pairs : Timeline!Holder(pr) = o}
  <1>1. /\ Admitted(o)
        /\ orchWallet' = [orchWallet EXCEPT ![o] = None]
        /\ service_pair' = EndBindings(rows, p)
        /\ UNCHANGED cutoff
        /\ orchWallet \in [Orchestrators -> Wallets \cup {None}]
        /\ o # None
    BY ServicePairsAssumption DEF OrchestratorRemoved, ViewInv, TimelineInv, IInv, TypeOK
  <1>2. \A pr \in Pairs : Timeline!Holder(pr) = CreditAt(pr, Last)
    BY SameTimeline, HorizonFacts DEF TimelineCredit
  <1>3. Last \in Position
    BY HorizonFacts
  <1>4. ASSUME NEW r \in service_pair
        PROVE  Covers(r, Last) <=> r.to = None
    <2>1. /\ r.from \in Horizon /\ AtOrBefore(r.from, Last)
          /\ r.to # None => r.to \in Position /\ Before(r.to, Last)
      BY HorizonFacts, EventPositionType DEF ViewInv, TimelineInv, RowsOnChain
    <2> QED BY <1>3, <2>1 DEF Covers, Before, AtOrBefore, Position
  <1>5. ASSUME NEW pr \in Pairs
        PROVE  pr \in P <=> \E r \in rows : r.pair = pr
    <2>1. CASE \E r \in Active(service_pair) : r.pair = pr
      <3>1. PICK r \in Active(service_pair) : r.pair = pr
        BY <2>1
      <3>2. Timeline!Holder(pr) = r.orch
        BY <1>2, <1>3, <1>4, <3>1 DEF ViewInv, CreditByRows, Active
      <3>3. \A s \in Active(service_pair) : s.pair = pr => s = r
        BY <3>1, OneOpenRow DEF ViewInv, TimelineInv, IInv
      <3> QED BY <3>1, <3>2, <3>3
    <2>2. CASE ~ \E r \in Active(service_pair) : r.pair = pr
      <3>1. \A r \in service_pair : r.pair = pr => ~Covers(r, Last)
        BY <1>4, <2>2 DEF Active
      <3>2. Timeline!Holder(pr) = None
        BY <1>2, <1>3, <3>1 DEF ViewInv, CreditByRows
      <3> QED BY <1>1, <2>2, <3>2
    <2> QED BY <2>1, <2>2
  <1>6. rows \in SUBSET Active(service_pair) /\ P \in SUBSET Pairs
    OBVIOUS
  <1>7. Timeline!End(P, p)
    <2> HIDE DEF rows, P
    <2> QED BY <1>1, <1>5, <1>6, EndedImplements
  <1>8. o \in AdmittedSet /\ AdmittedSet' = AdmittedSet \ {o}
    BY <1>1 DEF AdmittedSet, Admitted
  <1> QED BY <1>1, <1>7, <1>8 DEF Timeline!Remove, AdmittedSet

(* Both begin with nothing.                                                *)
LEMMA InitImplements == Init => Timeline!Init
  <1> SUFFICES ASSUME Init PROVE Timeline!Init
    OBVIOUS
  <1>1. AdmittedSet = {} /\ cutoff = {} /\ pos = Timeline!At(0, 0)
    BY SameCalendar DEF Init, AdmittedSet, Admitted
  <1>2. \A pr, x : CreditAt(pr, x) = None
    BY DEF Init, CreditAt, CreditedTo, OfPair
  <1>3. \A pr : BoundSince(pr) = None
    BY DEF Init, BoundSince, ActiveOf, Active
  <1> QED
    BY <1>1, <1>2, <1>3, SameTimeline DEF Timeline!Init, AdmittedSet

(* Every step is an abstract step or a stutter.                            *)
LEMMA StepImplements ==
  ViewInv /\ ViewInv' /\ [Next]_vars => [Timeline!Next]_(Timeline!avars)
  <1> SUFFICES ASSUME ViewInv, ViewInv', [Next]_vars
               PROVE  [Timeline!Next]_(Timeline!avars)
    OBVIOUS
  <1>0. CreditByRows' /\ BoundByRows'
    BY DEF ViewInv
  <1>1. CASE UNCHANGED vars
    <2>1. UNCHANGED <<AdmittedSet, cutoff, TimelineCredit, TimelineSince, pos>>
      BY <1>1, UnchangedView DEF vars, AdmittedSet, Admitted
    <2> QED BY <2>1 DEF Timeline!avars, AdmittedSet, TimelineCredit, TimelineSince
  <1>2. ASSUME NEW p \in EventPosition, Before(pos, p), Event(p)
        PROVE  Timeline!Next
    <2> DEFINE Unmoved == UNCHANGED <<AdmittedSet, cutoff, TimelineCredit, TimelineSince>>
    <2>1. /\ pos' = p
          /\ \/ \E o \in Orchestrators : Timeline!Admit(o) \/ Timeline!Remove(o, p)
             \/ Timeline!SetCutoff(p)
             \/ \E o \in Orchestrators, pr \in Pairs :
                  \/ Timeline!Declare(o, pr, p)
                  \/ \E inherit \in BOOLEAN : Timeline!Reassign(o, pr, p, inherit)
             \/ \E pr \in Pairs : Timeline!Cancel(pr, p)
             \/ Unmoved
      <3>1. ASSUME NEW o \in Orchestrators, NEW w \in Wallets, OrchestratorAdmitted(o, w, p)
            PROVE  pos' = p /\ Timeline!Admit(o)
        BY <3>1, AdmittedImplements DEF OrchestratorAdmitted
      <3>2. ASSUME NEW o \in Orchestrators, NEW w \in Wallets,
                   OrchestratorWalletReplaced(o, w, p)
            PROVE  pos' = p /\ Unmoved
        BY <3>2, WalletReplacedImplements DEF OrchestratorWalletReplaced
      <3>3. ASSUME NEW o \in Orchestrators, OrchestratorRemoved(o, p)
            PROVE  pos' = p /\ Timeline!Remove(o, p)
        BY <1>0, <1>2, <3>3, RemovedImplements DEF OrchestratorRemoved
      <3>4. ASSUME NEW c \in Cutoffs, PricingParamsUpdated(c, p)
            PROVE  pos' = p /\ Timeline!SetCutoff(p)
        BY <3>4, ParamsImplement DEF PricingParamsUpdated
      <3>5. ASSUME NEW o \in Orchestrators, NEW pr \in Pairs, BindingDeclared(o, pr, p)
            PROVE  pos' = p /\ Timeline!Declare(o, pr, p)
        BY <1>0, <1>2, <3>5, DeclaredImplements DEF BindingDeclared
      <3>6. ASSUME NEW o \in Orchestrators, NEW pr \in Pairs, BindingRejected(o, pr, p)
            PROVE  pos' = p /\ Unmoved
        BY <3>6, RejectedImplements DEF BindingRejected
      <3>7. ASSUME NEW o \in Orchestrators, NEW pr \in Pairs, NEW inherit \in BOOLEAN,
                   BindingReassigned(o, pr, p, inherit)
            PROVE  pos' = p /\ Timeline!Reassign(o, pr, p, inherit)
        BY <1>0, <1>2, <3>7, ReassignedImplements DEF BindingReassigned
      <3>8. ASSUME NEW pr \in Pairs, BindingCanceled(pr, p)
            PROVE  pos' = p /\ Timeline!Cancel(pr, p)
        BY <1>0, <1>2, <3>8, CanceledImplements DEF BindingCanceled
      <3> HIDE DEF Unmoved
      <3> QED
        BY <1>2, <3>1, <3>2, <3>3, <3>4, <3>5, <3>6, <3>7, <3>8 DEF Event
    <2>2. p \in [epoch : 0 .. MaxEpoch, log : 0 .. MaxLog] /\ Timeline!Before(pos, p)
      BY <1>2, SameCalendar DEF EventPosition
    <2> QED
      BY <2>1, <2>2 DEF Timeline!Next, AdmittedSet, TimelineCredit, TimelineSince
  <1> QED BY <1>1, <1>2 DEF Next

(* The tables implement the timeline: seen through the query that credits  *)
(* payments, every event handler rewrites a final part of one pair's       *)
(* timeline, as Attribution says, or ends it.                              *)
THEOREM TablesImplementTimeline == Spec => ImplementsTimeline
  <1>1. Spec => []ViewInv
    <2>1. TimelineInv => ViewInv
      BY RowsDecide DEF TimelineInv, ViewInv
    <2> QED BY <2>1, TimelineInvariant, PTL
  <1> QED
    BY <1>1, InitImplements, StepImplements, PTL
       DEF Spec, ImplementsTimeline, Timeline!Spec
=============================================================================
