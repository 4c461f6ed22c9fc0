----------------------------- MODULE VolumeProofs -----------------------------
(***************************************************************************)
(* Proofs about Volume, for every calendar, every set of contracts,        *)
(* tokens, pairs, amounts and prices, and every length of the chain.       *)
(*                                                                         *)
(* First which payments are summed, then that the sums add up, then what   *)
(* the pages of the listing show.                                          *)
(***************************************************************************)
EXTENDS Volume, AdmittedListsProofs

(***************************************************************************)
(* The lists keep their invariant among payments, periods and bindings.    *)
(***************************************************************************)
VolumeIInv == IInv /\ VolumeTypeOK

-----------------------------------------------------------------------------
(* Nothing is paid and nobody credited in the beginning.                   *)
LEMMA VolumeInitInvariant == VolumeInit => VolumeIInv
  <1> SUFFICES ASSUME VolumeInit PROVE VolumeIInv
    OBVIOUS
  <1>1. IInv
    BY InitInvariant DEF VolumeInit
  <1>2. VolumeTypeOK
    BY <1>1 DEF VolumeInit, VolumeTypeOK, IInv, PositionsUnique
  <1> QED BY <1>1, <1>2 DEF VolumeIInv

(* An inserted payment keeps the invariant: no other has its position.     *)
LEMMA PaymentStep ==
  ASSUME VolumeIInv, NEW m \in Payment, PaymentInserted(m)
  PROVE  VolumeIInv'
  <1>1. IInv'
    BY ListsUntouched DEF VolumeIInv, PaymentInserted
  <1>2. PositionsUnique(payments)'
    BY DEF PaymentInserted, VolumeIInv, VolumeTypeOK, PositionsUnique
  <1>3. PositionsUnique(periods)'
    BY DEF PaymentInserted, VolumeIInv, VolumeTypeOK, PositionsUnique
  <1> QED BY <1>1, <1>2, <1>3
          DEF VolumeIInv, VolumeTypeOK, PaymentInserted, IInv

(* A price period begins after all others.                                 *)
LEMMA PeriodStep ==
  ASSUME VolumeIInv, NEW d \in Period, PeriodOpened(d)
  PROVE  VolumeIInv'
  <1>1. IInv'
    BY ListsUntouched DEF VolumeIInv, PeriodOpened
  <1>2. d.at \in Position /\ \A e \in periods : e.at \in Position
    BY EventPositionType DEF VolumeIInv, VolumeTypeOK, Period
  <1>3. \A e \in periods : e.at # d.at
    BY <1>2 DEF PeriodOpened, Before, Position
  <1>4. PositionsUnique(periods)'
    BY <1>3 DEF PeriodOpened, VolumeIInv, VolumeTypeOK, PositionsUnique
  <1>5. PositionsUnique(payments)'
    BY DEF PeriodOpened, VolumeIInv, VolumeTypeOK, PositionsUnique
  <1> QED BY <1>1, <1>4, <1>5
          DEF VolumeIInv, VolumeTypeOK, PeriodOpened, IInv

(* A change of bindings is an event that leaves the lists as they are.     *)
LEMMA BindingStep ==
  ASSUME VolumeIInv, NEW pr \in Pairs, NEW o \in Orchestrators \cup {None},
         NEW x \in EventPosition, NEW p \in EventPosition, Before(pos, p),
         BindingChanged(pr, o, x, p)
  PROVE  VolumeIInv'
  <1>1. /\ contracts' = contracts /\ tokens' = tokens /\ parameters' = parameters
        /\ boundary' = boundary /\ payments' = payments /\ periods' = periods
        /\ pos' = p
        /\ credit' = [credit EXCEPT ![pr] =
                        [y \in EventPosition |-> IF AtOrBefore(x, y) THEN o ELSE @[y]]]
    BY DEF BindingChanged
  <1>2. p \in Position
    BY EventPositionType
  <1>3. IInv'
    BY <1>1, <1>2, ListsLater DEF VolumeIInv
  <1>4. credit' \in [Pairs -> [EventPosition -> Orchestrators \cup {None}]]
    BY <1>1 DEF VolumeIInv, VolumeTypeOK
  <1> QED BY <1>1, <1>3, <1>4
          DEF VolumeIInv, VolumeTypeOK, IInv, PositionsUnique

(* An event about lists or parameters is one of AdmittedLists.             *)
LEMMA ListsStep ==
  ASSUME VolumeIInv, NEW p \in EventPosition, Before(pos, p),
         \/ \E cs \in SUBSET PayContracts, ts \in SUBSET Stablecoins :
              ListsChanged(cs, ts, p)
         \/ \E v \in Values : ParametersChanged(v, p)
  PROVE  VolumeIInv'
  <1>1. credit' = credit /\ payments' = payments /\ periods' = periods
    BY DEF ListsChanged, ParametersChanged
  <1>2. Next
    BY DEF Next, ListsChanged, ParametersChanged
  <1>3. IInv'
    BY <1>2, NextInvariant DEF VolumeIInv
  <1> QED BY <1>1, <1>3 DEF VolumeIInv, VolumeTypeOK, IInv, PositionsUnique

(* Every step keeps the invariant.                                         *)
LEMMA VolumeStepInvariant == VolumeIInv /\ [VolumeNext]_volumeVars => VolumeIInv'
  <1> SUFFICES ASSUME VolumeIInv, [VolumeNext]_volumeVars PROVE VolumeIInv'
    OBVIOUS
  <1>1. CASE UNCHANGED volumeVars
    <2>1. UNCHANGED vars /\ UNCHANGED <<credit, payments, periods>>
      BY <1>1 DEF volumeVars
    <2>2. IInv'
      BY <2>1, ListsUntouched DEF VolumeIInv
    <2> QED BY <2>1, <2>2 DEF VolumeIInv, VolumeTypeOK, IInv, PositionsUnique
  <1>2. CASE \E m \in Payment : PaymentInserted(m)
    BY <1>2, PaymentStep
  <1>3. CASE \E d \in Period : PeriodOpened(d)
    BY <1>3, PeriodStep
  <1>4. CASE \E p \in EventPosition :
               /\ Before(pos, p)
               /\ \/ \E cs \in SUBSET PayContracts, ts \in SUBSET Stablecoins :
                       ListsChanged(cs, ts, p)
                  \/ \E v \in Values : ParametersChanged(v, p)
                  \/ \E pr \in Pairs, o \in Orchestrators \cup {None},
                        x \in EventPosition : BindingChanged(pr, o, x, p)
    BY <1>4, ListsStep, BindingStep
  <1> QED BY <1>1, <1>2, <1>3, <1>4 DEF VolumeNext

(* The invariant holds in every reachable state.                           *)
THEOREM VolumeInvariant == VolumeSpec => []VolumeIInv
  <1> QED BY VolumeInitInvariant, VolumeStepInvariant, PTL DEF VolumeSpec

(* The tables keep their types, and no two payments and no two periods     *)
(* have one position.                                                      *)
THEOREM VolumeTypeCorrect == VolumeSpec => []VolumeTypeOK
  <1>1. VolumeIInv => VolumeTypeOK
    BY DEF VolumeIInv
  <1> QED BY <1>1, VolumeInvariant, PTL

(* What is proved of the lists alone holds with bindings among the events: *)
(* the quarter's list, the SQL function's choice, the one row of a         *)
(* payment's token, and the parameters of the three queries.               *)
THEOREM ListsInComposition ==
  VolumeSpec => [](InForceIsBoundaryList /\ SqlAgrees /\ JoinedOnce /\ ParametersAgree)
  <1>1. VolumeIInv => InForceIsBoundaryList /\ SqlAgrees /\ JoinedOnce /\ ParametersAgree
    BY SqlFollows, JoinedFollows, ParametersFollow DEF VolumeIInv, IInv
  <1> QED BY <1>1, VolumeInvariant, PTL

-----------------------------------------------------------------------------
(* What is counted, and what is listed.                                    *)

(* The epochs of a quarter are those from its first to its last.           *)
LEMMA QuarterEpochs ==
  ASSUME NEW e \in Nat, NEW q \in Nat \ {0}
  PROVE  /\ QuarterOf(e) = q <=> e \in QuarterStart(q) .. QuarterEnd(q)
         /\ QuarterStart(q) \in Nat /\ QuarterEnd(q) \in Int
  <1> DEFINE n == q - 1
  <1>1. n \in Nat /\ EPOCHS_PER_QUARTER * n \in Nat
    BY CalendarAssumption
  <1>2. /\ QuarterStart(q) = ACTIVATION_EPOCH + EPOCHS_PER_QUARTER * n
        /\ QuarterStart(q + 1) = ACTIVATION_EPOCH + EPOCHS_PER_QUARTER * (n + 1)
    BY DEF QuarterStart
  <1>3. EPOCHS_PER_QUARTER * (n + 1) = EPOCHS_PER_QUARTER * n + EPOCHS_PER_QUARTER
    BY <1>1, CalendarAssumption
  <1>4. /\ QuarterOf(e) < q <=> e < QuarterStart(q)
        /\ QuarterOf(e) < q + 1 <=> e < QuarterStart(q + 1)
    BY BeforeQuarter
  <1>5. QuarterOf(e) \in Nat
    BY QuarterType
  <1> HIDE DEF n
  <1>6. /\ QuarterStart(q) \in Nat /\ QuarterEnd(q) \in Int
        /\ QuarterStart(q + 1) = QuarterEnd(q) + 1
    BY <1>1, <1>2, <1>3, CalendarAssumption DEF QuarterEnd
  <1> QED BY <1>4, <1>5, <1>6

(* Rows of payments and periods sit at positions.                          *)
LEMMA RowTypes ==
  ASSUME VolumeIInv
  PROVE  /\ \A m \in payments : /\ m \in Payment /\ m.at \in EventPosition
                                /\ m.at \in Position /\ m.at.epoch \in Nat
         /\ \A d \in periods : d.at \in Position /\ d.at.epoch \in Nat
  BY EventPositionType DEF VolumeIInv, VolumeTypeOK, Payment, Period, Position

(* Positions are ordered in a line.                                        *)
LEMMA PositionsComparable ==
  ASSUME NEW p \in Position, NEW q \in Position
  PROVE  /\ Before(p, q) \/ Before(q, p) \/ p = q
         /\ AtOrBefore(p, q) <=> ~Before(q, p)
  BY DEF Position, Before, AtOrBefore

(* One period prices a payment.                                            *)
LEMMA OnePrice ==
  ASSUME VolumeIInv, NEW m \in payments, NEW d \in periods, NEW e \in periods,
         PricedBy(m, d), PricedBy(m, e)
  PROVE  d = e
  <1>1. d.at \in Position /\ e.at \in Position
    BY RowTypes
  <1>2. d.at = e.at
    BY <1>1, PositionsComparable DEF PricedBy
  <1> QED BY <1>2 DEF VolumeIInv, VolumeTypeOK, PositionsUnique

(* No payment counts twice: in stablecoins it belongs to the one quarter   *)
(* of its settlement, in FIL to the one auction that comes next.           *)
THEOREM PaymentsCountOnce == VolumeSpec => []CountedOnce
  <1>1. VolumeIInv => CountedOnce
    <2> SUFFICES ASSUME VolumeIInv, NEW m \in payments
                 PROVE  /\ \A q, r \in Quarters :
                             /\ m \in StablecoinPayments(q, Orchestrators)
                             /\ m \in StablecoinPayments(r, Orchestrators)
                             => q = r
                        /\ \A d, e \in periods :
                             m \in FilPayments(d, Orchestrators)
                               /\ m \in FilPayments(e, Orchestrators) => d = e
      BY DEF CountedOnce
    <2>1. m.at.epoch \in Nat
      BY RowTypes
    <2>2. ASSUME NEW q \in Quarters, m \in StablecoinPayments(q, Orchestrators)
          PROVE  QuarterOf(m.at.epoch) = q
      <3>1. q \in Nat \ {0}
        BY QuartersType
      <3>2. m.at.epoch \in QuarterStart(q) .. QuarterEnd(q)
        BY <2>2 DEF StablecoinPayments
      <3> QED BY <2>1, <3>1, <3>2, QuarterEpochs
    <2>3. ASSUME NEW d \in periods, NEW e \in periods,
                 m \in FilPayments(d, Orchestrators),
                 m \in FilPayments(e, Orchestrators)
          PROVE  d = e
      BY <2>3, OnePrice DEF FilPayments
    <2> QED BY <2>2, <2>3
  <1> QED BY <1>1, VolumeInvariant, PTL

(* The period a payment in FIL is listed with is the one that prices it.   *)
LEMMA ListedWithItsPrice ==
  ASSUME VolumeIInv, NEW m \in payments, m.token = FIL, NEW d \in periods
  PROVE  /\ d \in ListedPeriod(m) <=> PricedBy(m, d)
         /\ PricedBy(m, d) => ListedPeriod(m) = {d}
  <1>1. \A e \in periods : e.at \in Position
    BY RowTypes
  <1>2. \A e \in periods : e \in ListedPeriod(m) <=> PricedBy(m, e)
    BY <1>1, PositionsComparable DEF ListedPeriod, PricedBy
  <1>3. ListedPeriod(m) \subseteq periods
    BY DEF ListedPeriod
  <1>4. PricedBy(m, d) => ListedPeriod(m) = {d}
    BY <1>2, <1>3, OnePrice
  <1> QED BY <1>2, <1>4

(* Unless the lists changed around a payment, the volume of a quarter and  *)
(* the listing of the quarter pick the same payments.                      *)
LEMMA ListingFollows ==
  ASSUME VolumeIInv, NEW q \in Quarters, NEW O \in AskedFor,
         NEW m \in payments, Undisturbed(m, q)
  PROVE  /\ m \in Listing(QuarterStart(q), QuarterEnd(q), O)
              <=> \/ m \in StablecoinPayments(q, O)
                  \/ \E d \in PeriodsOf(q) : m \in FilPayments(d, O)
         /\ \A d \in PeriodsOf(q) : m \in FilPayments(d, O) => ListedPeriod(m) = {d}
  <1>1. /\ q \in Nat \ {0} /\ m.at \in EventPosition /\ m.at.epoch \in Nat
        /\ m \in Payment
        /\ \A d \in periods : d.at.epoch \in Nat
    BY QuartersType, RowTypes
  <1>2. O \subseteq Orchestrators /\ None \notin O
    BY VolumeAssumption DEF AskedFor
  <1>3. /\ Credited(m, O) => credit[m.pair][m.at] # None
        /\ m.contract \in InForce(contracts, q) <=> m.contract \in CoveredAt(contracts, m.at)
        /\ m.at.epoch >= ACTIVATION_EPOCH
    BY <1>2 DEF Credited, Undisturbed
  <1>4. \A d \in PeriodsOf(q) : d \in periods /\ QuarterOf(d.at.epoch) = q
    BY DEF PeriodsOf
  <1>5. CASE m.token # FIL
    <2>1. m.token \in InForce(tokens, q) <=> m.token \in CoveredAt(tokens, m.at)
      BY <1>5 DEF Undisturbed
    <2>2. FilteredEpochs(m) = {m.at.epoch}
      BY <1>5 DEF FilteredEpochs
    <2>3. m \in Listing(QuarterStart(q), QuarterEnd(q), O) <=> m \in StablecoinPayments(q, O)
      BY <1>3, <1>5, <2>1, <2>2 DEF Listing, CountsTowardsVolume, StablecoinPayments
    <2>4. \A d \in PeriodsOf(q) : m \notin FilPayments(d, O)
      BY <1>5 DEF FilPayments
    <2> QED BY <2>3, <2>4
  <1>6. CASE m.token = FIL
    <2>1. m \notin StablecoinPayments(q, O)
      <3>1. tokens \subseteq RowOf(Stablecoins \ NotERC20)
        BY DEF VolumeIInv, IInv, TypeOK
      <3>2. InForce(tokens, q) \subseteq Stablecoins
        BY <3>1 DEF InForce, Entries, RowOf
      <3> QED BY <1>6, <3>2, VolumeAssumption DEF StablecoinPayments
    <2>2. ASSUME NEW d \in PeriodsOf(q)
          PROVE  m \in FilPayments(d, O)
                   <=> /\ m.contract \in CoveredAt(contracts, m.at)
                       /\ Credited(m, O)
                       /\ d \in ListedPeriod(m)
      BY <1>3, <1>4, <1>6, <2>2, ListedWithItsPrice DEF FilPayments
    <2>3. (\E d \in PeriodsOf(q) : d \in ListedPeriod(m))
            <=> FilteredEpochs(m) \cap (QuarterStart(q) .. QuarterEnd(q)) # {}
      <3>1. FilteredEpochs(m) = {d.at.epoch : d \in ListedPeriod(m)}
        BY <1>6 DEF FilteredEpochs
      <3>2. ListedPeriod(m) \subseteq periods
        BY DEF ListedPeriod
      <3>3. \A d \in periods :
              d \in PeriodsOf(q) <=> d.at.epoch \in QuarterStart(q) .. QuarterEnd(q)
        BY <1>1, QuarterEpochs DEF PeriodsOf
      <3> QED BY <3>1, <3>2, <3>3
    <2>4. ASSUME NEW d \in PeriodsOf(q), m \in FilPayments(d, O)
          PROVE  ListedPeriod(m) = {d}
      BY <1>4, <1>6, <2>4, ListedWithItsPrice DEF FilPayments
    <2>5. m \in Listing(QuarterStart(q), QuarterEnd(q), O)
            <=> \E d \in PeriodsOf(q) : m \in FilPayments(d, O)
      BY <1>3, <1>6, <2>2, <2>3 DEF Listing, CountsTowardsVolume
    <2> QED BY <2>1, <2>4, <2>5
  <1> QED BY <1>5, <1>6

(* Two queries written apart pick the same payments, in every state.       *)
THEOREM ListingIsTheVolume == VolumeSpec => []ListingShowsVolume
  <1>1. VolumeIInv => ListingShowsVolume
    BY ListingFollows DEF ListingShowsVolume
  <1> QED BY <1>1, VolumeInvariant, PTL

-----------------------------------------------------------------------------
(* Closed quarters.                                                        *)

(* An update does not change which entries are covered before it.          *)
LEMMA UpdatedKeepsCover ==
  ASSUME NEW S, NEW rows, NEW list \in SUBSET S,
         NEW z \in Position, NEW p \in Position, Before(z, p),
         Table(rows, S, z),
         NEW x \in Position, Before(x, p)
  PROVE  CoveredAt(Updated(rows, list, p), x) = CoveredAt(rows, x)
  <1> DEFINE removed == {r \in Open(rows) : r.entry \notin list}
             added   == list \ Entries(Open(rows))
             closed  == Closed(removed, p)
             new     == {Row(e, p) : e \in added}
  <1>1. Updated(rows, list, p) = (rows \ removed) \cup closed \cup new
    BY DEF Updated
  <1>2. p # None /\ AtOrBefore(x, p) /\ ~AtOrBefore(p, x)
    BY AdmittedListsAssumption, PositionOrder
  <1>3. removed \subseteq rows /\ \A r \in removed : r.to = None
    BY DEF Open
  <1>4. rows \subseteq RowOf(S)
    BY DEF Table
  <1>5. \A r \in new : ~Covers(r, x)
    BY <1>2 DEF Row, Covers
  <1>6. \A r \in removed : LET c == [r EXCEPT !.to = p]
                           IN  /\ c.entry = r.entry
                               /\ Covers(c, x) <=> Covers(r, x)
    <2> SUFFICES ASSUME NEW r \in removed
                 PROVE  LET c == [r EXCEPT !.to = p]
                        IN  c.entry = r.entry /\ (Covers(c, x) <=> Covers(r, x))
      OBVIOUS
    <2>1. r \in RowOf(S) /\ r.to = None
      BY <1>3, <1>4
    <2> HIDE DEF removed
    <2>2. LET c == [r EXCEPT !.to = p]
          IN  c.entry = r.entry /\ c.from = r.from /\ c.to = p
      BY <2>1 DEF RowOf
    <2> QED BY <1>2, <2>1, <2>2 DEF Covers
  <1>7. closed = {[r EXCEPT !.to = p] : r \in removed}
    BY DEF Closed
  <1> HIDE DEF removed, closed, new
  <1>8. ASSUME NEW e
        PROVE  (\E r \in (rows \ removed) \cup closed \cup new : e = r.entry /\ Covers(r, x))
                 <=> (\E r \in rows : e = r.entry /\ Covers(r, x))
    <2>1. ASSUME NEW r \in closed, Covers(r, x)
          PROVE  \E s \in rows : s.entry = r.entry /\ Covers(s, x)
      <3>1. PICK s \in removed : r = [s EXCEPT !.to = p]
        BY <1>7
      <3>2. r.entry = s.entry /\ Covers(s, x)
        BY <1>6, <2>1, <3>1
      <3> QED BY <1>3, <3>2
    <2>2. ASSUME NEW r \in removed, Covers(r, x)
          PROVE  \E s \in closed : s.entry = r.entry /\ Covers(s, x)
      <3>1. [r EXCEPT !.to = p] \in closed
        BY <1>7
      <3> QED BY <1>6, <2>2, <3>1
    <2> QED BY <1>5, <2>1, <2>2
  <1> QED BY <1>1, <1>8 DEF CoveredAt, Entries

(* A step that may not touch q: the actor's event, the payments and the    *)
(* periods it brings are of later quarters.                                *)
After(q) ==
  /\ pos' = pos \/ QuarterOf(pos'.epoch) > q
  /\ \A r \in (payments' \ payments) \cup (periods' \ periods) :
       QuarterOf(r.at.epoch) > q

(* Lists, payments, periods and credits of q are left as they are.         *)
LEMMA QuarterKept ==
  ASSUME VolumeIInv, [VolumeNext]_volumeVars, NEW q \in Quarters, After(q)
  PROVE  /\ InForce(contracts, q)' = InForce(contracts, q)
         /\ InForce(tokens, q)' = InForce(tokens, q)
         /\ \A x \in Position :
              QuarterOf(x.epoch) <= q => CoveredAt(tokens', x) = CoveredAt(tokens, x)
         /\ \A pr \in Pairs, y \in EventPosition :
              QuarterOf(y.epoch) <= q => credit'[pr][y] = credit[pr][y]
         /\ payments \subseteq payments' /\ periods \subseteq periods'
  <1>1. q \in Nat /\ pos \in Position
    BY QuartersType DEF VolumeIInv, IInv, TypeOK
  <1>2. CASE UNCHANGED <<contracts, tokens, credit>> /\ payments \subseteq payments'
             /\ periods \subseteq periods'
    BY <1>2 DEF InForce
  <1>3. CASE UNCHANGED volumeVars
    BY <1>2, <1>3 DEF volumeVars, vars
  <1>4. CASE \E m \in Payment : PaymentInserted(m)
    BY <1>2, <1>4 DEF PaymentInserted, vars
  <1>5. CASE \E d \in Period : PeriodOpened(d)
    BY <1>2, <1>5 DEF PeriodOpened, vars
  <1>6. ASSUME NEW p \in EventPosition, Before(pos, p), pos' = p
        PROVE  p \in Position /\ QuarterOf(p.epoch) > q
    BY <1>1, <1>6, EventPositionType DEF After, Before, Position
  <1>7. ASSUME NEW p \in EventPosition, Before(pos, p),
               NEW v \in Values, ParametersChanged(v, p)
        PROVE  UNCHANGED <<contracts, tokens, credit, payments, periods>>
    BY <1>7 DEF ParametersChanged, PricingParamsUpdated
  <1>8. ASSUME NEW p \in EventPosition, Before(pos, p),
               NEW cs \in SUBSET PayContracts, NEW ts \in SUBSET Stablecoins,
               ListsChanged(cs, ts, p)
        PROVE  /\ InForce(contracts, q)' = InForce(contracts, q)
               /\ InForce(tokens, q)' = InForce(tokens, q)
               /\ \A x \in Position :
                    QuarterOf(x.epoch) <= q => CoveredAt(tokens', x) = CoveredAt(tokens, x)
               /\ UNCHANGED <<credit, payments, periods>>
    <2>1. /\ contracts' = Updated(contracts, cs, p)
          /\ tokens' = Updated(tokens, ts \ NotERC20, p)
          /\ pos' = p
          /\ UNCHANGED <<credit, payments, periods>>
      BY <1>8 DEF ListsChanged, AdmittedListsUpdated
    <2>2. p \in Position /\ QuarterOf(p.epoch) > q /\ QuarterOf(p.epoch) \in Nat
      BY <1>6, <1>8, <2>1, QuarterType DEF Position
    <2>3. /\ Table(contracts, PayContracts, pos)
          /\ Table(tokens, Stablecoins \ NotERC20, pos)
          /\ ts \ NotERC20 \in SUBSET (Stablecoins \ NotERC20)
      BY DEF VolumeIInv, IInv
    <2>4. InForce(Updated(contracts, cs, p), q) = InForce(contracts, q)
      BY <1>1, <1>8, <2>2, <2>3, UpdatedKeepsQuarters
    <2>5. InForce(Updated(tokens, ts \ NotERC20, p), q) = InForce(tokens, q)
      BY <1>1, <1>8, <2>2, <2>3, UpdatedKeepsQuarters
    <2>6. ASSUME NEW x \in Position, QuarterOf(x.epoch) <= q
          PROVE  CoveredAt(Updated(tokens, ts \ NotERC20, p), x) = CoveredAt(tokens, x)
      <3>1. Before(x, p)
        <4>1. QuarterOf(x.epoch) \in Nat /\ x.epoch \in Nat
          BY QuarterType DEF Position
        <4>2. ~AtOrBefore(p, x)
          BY <1>1, <2>2, <2>6, <4>1, PositionQuarters
        <4> QED BY <2>2, <4>2, PositionsComparable
      <3> QED BY <1>1, <1>8, <2>2, <2>3, <3>1, UpdatedKeepsCover
    <2>7. InForce(contracts, q)' = InForce(contracts', q)
          /\ InForce(tokens, q)' = InForce(tokens', q)
      BY DEF InForce
    <2> QED BY <2>1, <2>4, <2>5, <2>6, <2>7
  <1>9. ASSUME NEW p \in EventPosition, Before(pos, p),
               NEW pr \in Pairs, NEW o \in Orchestrators \cup {None},
               NEW x \in EventPosition, BindingChanged(pr, o, x, p)
        PROVE  /\ \A pr2 \in Pairs, y \in EventPosition :
                    QuarterOf(y.epoch) <= q => credit'[pr2][y] = credit[pr2][y]
               /\ UNCHANGED <<contracts, tokens, payments, periods>>
    <2>1. /\ QuarterOf(x.epoch) >= QuarterOf(p.epoch)
          /\ credit' = [credit EXCEPT ![pr] =
                          [y \in EventPosition |-> IF AtOrBefore(x, y) THEN o ELSE @[y]]]
          /\ pos' = p /\ UNCHANGED <<contracts, tokens, payments, periods>>
      BY <1>9 DEF BindingChanged
    <2>2. QuarterOf(p.epoch) > q /\ p \in Position /\ x \in Position
      BY <1>6, <1>9, <2>1, EventPositionType
    <2>3. QuarterOf(p.epoch) \in Nat /\ QuarterOf(x.epoch) \in Nat
      BY <2>2, QuarterType DEF Position
    <2>4. ASSUME NEW y \in EventPosition, QuarterOf(y.epoch) <= q
          PROVE  ~AtOrBefore(x, y)
      <3>1. y \in Position /\ QuarterOf(y.epoch) \in Nat
        BY EventPositionType, QuarterType DEF Position
      <3> QED BY <1>1, <2>1, <2>2, <2>3, <2>4, <3>1, PositionQuarters
    <2> QED BY <2>1, <2>4 DEF VolumeIInv, VolumeTypeOK
  <1>10. CASE \E p \in EventPosition :
               /\ Before(pos, p)
               /\ \/ \E cs \in SUBSET PayContracts, ts \in SUBSET Stablecoins :
                       ListsChanged(cs, ts, p)
                  \/ \E v \in Values : ParametersChanged(v, p)
                  \/ \E pr \in Pairs, o \in Orchestrators \cup {None},
                        x \in EventPosition : BindingChanged(pr, o, x, p)
    <2> PICK p \in EventPosition :
               /\ Before(pos, p)
               /\ \/ \E cs \in SUBSET PayContracts, ts \in SUBSET Stablecoins :
                       ListsChanged(cs, ts, p)
                  \/ \E v \in Values : ParametersChanged(v, p)
                  \/ \E pr \in Pairs, o \in Orchestrators \cup {None},
                        x \in EventPosition : BindingChanged(pr, o, x, p)
      BY <1>10
    <2>1. CASE \E cs \in SUBSET PayContracts, ts \in SUBSET Stablecoins :
                 ListsChanged(cs, ts, p)
      BY <1>8, <2>1
    <2>2. CASE \E v \in Values : ParametersChanged(v, p)
      BY <1>2, <1>7, <2>2
    <2>3. CASE \E pr \in Pairs, o \in Orchestrators \cup {None},
                  x \in EventPosition : BindingChanged(pr, o, x, p)
      BY <1>9, <2>3 DEF InForce
    <2> QED BY <2>1, <2>2, <2>3
  <1> QED BY <1>3, <1>4, <1>5, <1>10 DEF VolumeNext

(* The sums of q are over the same payments.                               *)
LEMMA SumsKept ==
  ASSUME VolumeIInv, VolumeIInv', [VolumeNext]_volumeVars, NEW q \in Quarters,
         After(q), NEW O \in AskedFor
  PROVE  /\ NothingAdmitted(q)' = NothingAdmitted(q)
         /\ StablecoinPayments(q, O)' = StablecoinPayments(q, O)
         /\ PeriodsOf(q)' = PeriodsOf(q)
         /\ \A d \in PeriodsOf(q) : FilPayments(d, O)' = FilPayments(d, O)
  <1> USE QuarterKept
  <1>1. /\ q \in Nat \ {0}
        /\ \A m \in payments' : /\ m \in Payment /\ m.at \in EventPosition
                                /\ m.at \in Position /\ m.at.epoch \in Nat
        /\ \A d \in periods' : d.at \in Position /\ d.at.epoch \in Nat
    <2>1. \A m \in payments' : m \in Payment
      BY DEF VolumeIInv, VolumeTypeOK
    <2>2. \A d \in periods' : d \in Period
      BY DEF VolumeIInv, VolumeTypeOK
    <2> QED BY <2>1, <2>2, QuartersType, EventPositionType
            DEF Payment, Period, Position
  <1>2. /\ \A m \in payments' : m \notin payments => QuarterOf(m.at.epoch) > q
        /\ \A d \in periods' : d \notin periods => QuarterOf(d.at.epoch) > q
    BY DEF After
  <1>3. \A m \in payments' :
          QuarterOf(m.at.epoch) <= q => (Credited(m, O)' <=> Credited(m, O))
    <2> SUFFICES ASSUME NEW m \in payments', QuarterOf(m.at.epoch) <= q
                 PROVE  credit'[m.pair][m.at] = credit[m.pair][m.at]
      BY DEF Credited
    <2>1. m.pair \in Pairs /\ m.at \in EventPosition
      BY <1>1 DEF Payment
    <2> QED BY <2>1
  <1>4. NothingAdmitted(q)' = NothingAdmitted(q)
    BY DEF NothingAdmitted
  <1>5. PeriodsOf(q)' = PeriodsOf(q)
    <2>1. \A d \in periods' : QuarterOf(d.at.epoch) = q => d \in periods
      BY <1>1, <1>2
    <2> QED BY <2>1 DEF PeriodsOf
  <1>6. StablecoinPayments(q, O)' = StablecoinPayments(q, O)
    <2>1. ASSUME NEW m \in payments', m.at.epoch \in QuarterStart(q) .. QuarterEnd(q)
          PROVE  /\ m \in payments /\ QuarterOf(m.at.epoch) = q
                 /\ CoveredAt(tokens, m.at)' = CoveredAt(tokens, m.at)
                 /\ Credited(m, O)' <=> Credited(m, O)
      <3>1. m.at.epoch \in Nat /\ m.at \in Position
        BY <1>1
      <3>2. QuarterOf(m.at.epoch) = q
        BY <1>1, <2>1, <3>1, QuarterEpochs
      <3>3. m \in payments /\ QuarterOf(m.at.epoch) <= q
        BY <1>1, <1>2, <3>2
      <3>4. CoveredAt(tokens', m.at) = CoveredAt(tokens, m.at)
        BY <3>1, <3>3
      <3>5. CoveredAt(tokens, m.at)' = CoveredAt(tokens', m.at)
        BY DEF CoveredAt
      <3>6. Credited(m, O)' <=> Credited(m, O)
        BY <1>3, <3>3
      <3> QED BY <3>2, <3>3, <3>4, <3>5, <3>6
    <2>2. ASSUME NEW m
          PROVE  m \in StablecoinPayments(q, O)' <=> m \in StablecoinPayments(q, O)
      BY <2>1 DEF StablecoinPayments
    <2>3. /\ StablecoinPayments(q, O)' \subseteq payments'
          /\ StablecoinPayments(q, O) \subseteq payments
      BY DEF StablecoinPayments
    <2> QED BY <2>2, <2>3
  <1>7. ASSUME NEW d \in PeriodsOf(q)
        PROVE  FilPayments(d, O)' = FilPayments(d, O)
    <2>1. d \in periods /\ d \in periods' /\ QuarterOf(d.at.epoch) = q
      BY DEF PeriodsOf
    <2>2. /\ d.at \in Position
          /\ \A y \in Position : Before(y, d.at) => QuarterOf(y.epoch) <= q
      BY <1>1, <2>1, PositionOrder, PositionQuarters
    <2>3. \A e \in periods' : Before(e.at, d.at) => e \in periods
      <3> SUFFICES ASSUME NEW e \in periods', Before(e.at, d.at)
                   PROVE  e \in periods
        OBVIOUS
      <3>1. QuarterOf(e.at.epoch) <= q /\ QuarterOf(e.at.epoch) \in Nat
        BY <1>1, <2>2, QuarterType
      <3> QED BY <1>1, <1>2, <3>1
    <2>4. ASSUME NEW m \in payments', Before(m.at, d.at)
          PROVE  m \in payments /\ (Credited(m, O)' <=> Credited(m, O))
      <3>1. QuarterOf(m.at.epoch) <= q /\ QuarterOf(m.at.epoch) \in Nat
        BY <1>1, <2>2, <2>4, QuarterType
      <3>2. m \in payments
        BY <1>1, <1>2, <3>1
      <3>3. Credited(m, O)' <=> Credited(m, O)
        BY <1>3, <3>1
      <3> QED BY <3>2, <3>3
    <2>5. \A m \in payments' : PricedBy(m, d)' <=> PricedBy(m, d)
      BY <2>3 DEF PricedBy
    <2>6. InForce(contracts, QuarterOf(d.at.epoch))' = InForce(contracts, QuarterOf(d.at.epoch))
      BY <2>1
    <2>7. ASSUME NEW m
          PROVE  m \in FilPayments(d, O)' <=> m \in FilPayments(d, O)
      <3>1. PricedBy(m, d) => Before(m.at, d.at)
        BY DEF PricedBy
      <3> QED BY <2>4, <2>5, <2>6, <3>1 DEF FilPayments
    <2>8. /\ FilPayments(d, O)' \subseteq payments'
          /\ FilPayments(d, O) \subseteq payments
      BY DEF FilPayments
    <2> QED BY <2>7, <2>8
  <1> QED BY <1>4, <1>5, <1>6, <1>7

(* The reported volume is made of these sums and the ends of the periods.  *)
LEMMA VolumeKept ==
  ASSUME VolumeIInv, VolumeIInv', [VolumeNext]_volumeVars, NEW q \in Quarters,
         After(q), NEW O \in AskedFor
  PROVE  QuarterlyVolume(q, O)' = QuarterlyVolume(q, O)
  <1>1. /\ NothingAdmitted(q)' = NothingAdmitted(q)
        /\ StablecoinPayments(q, O)' = StablecoinPayments(q, O)
        /\ PeriodsOf(q)' = PeriodsOf(q)
        /\ \A d \in PeriodsOf(q) : FilPayments(d, O)' = FilPayments(d, O)
    BY SumsKept
  <1>2. TotalOf(StablecoinPayments(q, O))' = TotalOf(StablecoinPayments(q, O))
    BY <1>1 DEF TotalOf
  <1>3. ASSUME NEW d \in PeriodsOf(q)
        PROVE  FilVolume(d, O)' = FilVolume(d, O)
    <2>1. FilPayments(d, O)' = FilPayments(d, O)
      BY <1>1
    <2> QED BY <2>1 DEF FilVolume, TotalOf
  <1>4. ASSUME NEW d \in PeriodsOf(q)
        PROVE  ReportedStart(d)' = ReportedStart(d)
    <2>1. QuarterOf(d.at.epoch) = q
      BY DEF PeriodsOf
    <2> QED BY <1>1, <2>1 DEF ReportedStart
  <1>5. [d \in PeriodsOf(q) |-> FilVolume(d, O)]' = [d \in PeriodsOf(q) |-> FilVolume(d, O)]
    BY <1>1, <1>3
  <1>6. SumFunction([d \in PeriodsOf(q) |-> FilVolume(d, O)])'
          = SumFunction([d \in PeriodsOf(q) |-> FilVolume(d, O)])
    BY <1>5
  <1>7. {[end |-> d.at, start |-> ReportedStart(d), volume |-> FilVolume(d, O)] :
           d \in PeriodsOf(q)}'
          = {[end |-> d.at, start |-> ReportedStart(d), volume |-> FilVolume(d, O)] :
               d \in PeriodsOf(q)}
    BY <1>1, <1>3, <1>4
  <1>8. QuarterlyVolume(q, O)
          = IF NothingAdmitted(q)
            THEN [stablecoin |-> 0, fil |-> 0, pricingPeriods |-> {}]
            ELSE [stablecoin |-> TotalOf(StablecoinPayments(q, O)),
                  fil |-> SumFunction([d \in PeriodsOf(q) |-> FilVolume(d, O)]),
                  pricingPeriods |->
                    {[end |-> d.at, start |-> ReportedStart(d),
                      volume |-> FilVolume(d, O)] : d \in PeriodsOf(q)}]
    BY DEF QuarterlyVolume
  <1>9. QuarterlyVolume(q, O)'
          = IF NothingAdmitted(q)'
            THEN [stablecoin |-> 0, fil |-> 0, pricingPeriods |-> {}]
            ELSE [stablecoin |-> TotalOf(StablecoinPayments(q, O))',
                  fil |-> SumFunction([d \in PeriodsOf(q) |-> FilVolume(d, O)])',
                  pricingPeriods |->
                    {[end |-> d.at, start |-> ReportedStart(d),
                      volume |-> FilVolume(d, O)] : d \in PeriodsOf(q)}']
    BY DEF QuarterlyVolume
  <1> QED BY <1>1, <1>2, <1>6, <1>7, <1>8, <1>9

(* The volume of a closed quarter never changes.                           *)
THEOREM ClosedVolumesKept == VolumeSpec => ClosedVolumesFinal
  <1>1. VolumeIInv /\ VolumeIInv' /\ [VolumeNext]_volumeVars
          => [\A q \in Quarters :
                /\ pos' = pos \/ QuarterOf(pos'.epoch) > q
                /\ \A r \in (payments' \ payments) \cup (periods' \ periods) :
                     QuarterOf(r.at.epoch) > q
                => \A O \in AskedFor :
                     QuarterlyVolume(q, O)' = QuarterlyVolume(q, O)]_volumeVars
    BY VolumeKept DEF After
  <1> QED BY <1>1, VolumeInvariant, PTL DEF VolumeSpec, ClosedVolumesFinal

-----------------------------------------------------------------------------
(* The shares of the orchestrators.                                        *)

(* Payments and price periods are finitely many.                           *)
LEMMA TablesFinite ==
  ASSUME VolumeIInv
  PROVE  IsFiniteSet(payments) /\ IsFiniteSet(periods)
  <1>1. /\ \A m \in payments : m.at \in EventPosition
        /\ \A d \in periods : d.at \in EventPosition
        /\ PositionsUnique(payments) /\ PositionsUnique(periods)
    BY DEF VolumeIInv, VolumeTypeOK, Payment, Period
  <1> QED BY <1>1, RowsFinite DEF PositionsUnique

(* A payment is credited to one orchestrator or to none.                   *)
LEMMA CreditedToOne ==
  ASSUME VolumeIInv, NEW m \in payments
  PROVE  /\ Credited(m, Orchestrators) <=> \E o \in Orchestrators : Credited(m, {o})
         /\ \A o, p \in Orchestrators : Credited(m, {o}) /\ Credited(m, {p}) => o = p
  BY DEF Credited

AmountOf == [m \in payments |-> m.amount]

(* Amounts are numbers, and totals are sums of them.                       *)
LEMMA TotalIsSum ==
  ASSUME VolumeIInv, NEW M \in SUBSET payments
  PROVE  /\ TotalOf(M) = SumOver(AmountOf, M)
         /\ TotalOf(M) \in Nat
         /\ IsFiniteSet(M)
         /\ \A m \in M : AmountOf[m] \in Int
  <1>1. [m \in M |-> m.amount] = [m \in M |-> AmountOf[m]]
    BY DEF AmountOf
  <1>2. IsFiniteSet(M)
    BY TablesFinite, FS_Subset
  <1>3. \A m \in M : AmountOf[m] \in Nat
    <2>1. \A m \in payments : m.amount \in Nat
      BY VolumeAssumption DEF VolumeIInv, VolumeTypeOK, Payment
    <2> QED BY <2>1 DEF AmountOf
  <1>4. SumOver(AmountOf, M) \in Nat
    BY <1>2, <1>3, SumNat
  <1> QED BY <1>1, <1>2, <1>3, <1>4 DEF TotalOf, SumOver

(* A set of payments that counts those credited to the orchestrators asked *)
(* for is shared out among the orchestrators.                              *)
LEMMA SharesOfTotal ==
  ASSUME VolumeIInv, NEW M \in SUBSET payments, NEW part,
         \A o \in Orchestrators : part[o] = {m \in M : Credited(m, {o})},
         NEW n, \A o \in Orchestrators : n[o] = TotalOf(part[o])
  PROVE  SumOver(n, Orchestrators) = TotalOf({m \in M : Credited(m, Orchestrators)})
  <1> DEFINE U == UNION {part[o] : o \in Orchestrators}
  <1>1. U = {m \in M : Credited(m, Orchestrators)}
    <2>1. ASSUME NEW m \in M
          PROVE  m \in U <=> Credited(m, Orchestrators)
      <3>1. m \in U <=> \E o \in Orchestrators : Credited(m, {o})
        OBVIOUS
      <3>2. Credited(m, Orchestrators) <=> \E o \in Orchestrators : Credited(m, {o})
        BY CreditedToOne
      <3> QED BY <3>1, <3>2
    <2>2. U \subseteq M
      OBVIOUS
    <2> HIDE DEF U
    <2> QED BY <2>1, <2>2
  <1>2. \A o \in Orchestrators : part[o] \in SUBSET payments
    OBVIOUS
  <1>3. \A o \in Orchestrators : /\ IsFiniteSet(part[o])
                                 /\ \A m \in part[o] : AmountOf[m] \in Int
                                 /\ n[o] = SumOver(AmountOf, part[o])
    BY <1>2, TotalIsSum
  <1>4. \A o, p \in Orchestrators : o # p => part[o] \cap part[p] = {}
    BY CreditedToOne
  <1>5. IsFiniteSet(Orchestrators)
    BY VolumeAssumption
  <1>6. SumOver(n, Orchestrators) = SumOver(AmountOf, U)
    BY <1>3, <1>4, <1>5, SumOfParts
  <1>7. U \in SUBSET payments
    BY <1>2
  <1> HIDE DEF U
  <1>8. TotalOf(U) = SumOver(AmountOf, U)
    BY <1>7, TotalIsSum
  <1> QED BY <1>1, <1>6, <1>8

(* However a quotient is rounded, it is off by less than one.              *)
LEMMA QuotientBounds ==
  ASSUME NEW n \in Nat, NEW c \in Nat \ {0}
  PROVE  LET k == FloorOfQuotient(n, c)
         IN  /\ k \in Nat
             /\ -c <= 2 * n - 2 * (c * k)
             /\ 2 * n - 2 * (c * k) < 2 * c
  <1> DEFINE j == n \div c
             i == (2 * n + c) \div (2 * c)
  <1>1. j \in Nat /\ c * j <= n /\ n < c * j + c /\ c * j \in Nat
    BY DivBounds
  <1>2. /\ i \in Nat
        /\ (2 * c) * i <= 2 * n + c
        /\ 2 * n + c < (2 * c) * i + 2 * c
    <2>1. 2 * n + c \in Nat /\ 2 * c \in Nat \ {0}
      OBVIOUS
    <2> QED BY <2>1, DivBounds
  <1>3. (2 * c) * i = 2 * (c * i) /\ c * i \in Nat
    BY <1>2
  <1>4. FloorOfQuotient(n, c) = j \/ FloorOfQuotient(n, c) = i
    BY DEF FloorOfQuotient
  <1> HIDE DEF j, i
  <1>5. CASE FloorOfQuotient(n, c) = j
    BY <1>1, <1>5
  <1>6. CASE FloorOfQuotient(n, c) = i
    BY <1>2, <1>3, <1>6
  <1> QED BY <1>4, <1>5, <1>6

(* A comparison of multiples is one of the numbers.                        *)
LEMMA TimesCancel ==
  ASSUME NEW c \in Nat \ {0}, NEW x \in Int, NEW y \in Int, c * x < c * y
  PROVE  x < y
  <1>1. ASSUME y <= x PROVE FALSE
    <2>1. PICK j \in Nat : x = y + j
      <3>1. x - y \in Nat /\ x = y + (x - y)
        BY <1>1
      <3> QED BY <3>1
    <2>2. c * x = c * y + c * j
      BY <2>1
    <2>3. c * j \in Nat /\ c * y \in Int
      BY <2>1
    <2> QED BY <2>2, <2>3
  <1> QED BY <1>1

RoundedEach(k, n, lot, c, O) ==
  \A o \in O : n[o] \in Nat /\ k[o] = FloorOfQuotient(n[o] * lot, c)

(* Numbers rounded each on its own, and their sum rounded once.            *)
LEMMA RoundedShares ==
  ASSUME NEW O, IsFiniteSet(O), NEW c \in Nat \ {0}, NEW lot \in Nat,
         NEW n, NEW k,
         RoundedEach(k, n, lot, c, O),
         NEW N \in Nat, N = SumOver(n, O)
  PROVE  LET K == FloorOfQuotient(N * lot, c)
             d == SumOver(k, O) - K
         IN  d \in Int /\ -Cardinality(O) <= d /\ d <= Cardinality(O)
  <1> DEFINE K == FloorOfQuotient(N * lot, c)
             r == [o \in O |-> (2 * lot) * n[o] + (-(2 * c)) * k[o]]
             size == Cardinality(O)
  <1>1. \A o \in O : /\ n[o] \in Int /\ k[o] \in Int /\ r[o] \in Int
                     /\ r[o] = Combined(2 * lot, n[o], -(2 * c), k[o])
                     /\ -c <= r[o] /\ r[o] <= 2 * c
    <2> SUFFICES ASSUME NEW o \in O
                 PROVE  /\ n[o] \in Int /\ k[o] \in Int /\ r[o] \in Int
                        /\ r[o] = Combined(2 * lot, n[o], -(2 * c), k[o])
                        /\ -c <= r[o] /\ r[o] <= 2 * c
      OBVIOUS
    <2>0. n[o] \in Nat /\ k[o] = FloorOfQuotient(n[o] * lot, c)
      BY DEF RoundedEach
    <2>1. n[o] \in Nat /\ n[o] * lot \in Nat
      BY <2>0
    <2>2. /\ k[o] \in Nat
          /\ -c <= 2 * (n[o] * lot) - 2 * (c * k[o])
          /\ 2 * (n[o] * lot) - 2 * (c * k[o]) < 2 * c
      BY <2>0, <2>1, QuotientBounds
    <2>3. r[o] = (2 * lot) * n[o] + (-(2 * c)) * k[o]
      OBVIOUS
    <2> HIDE DEF r
    <2>4. /\ (2 * lot) * n[o] = 2 * (n[o] * lot)
          /\ (-(2 * c)) * k[o] = -(2 * (c * k[o]))
          /\ c * k[o] \in Int
      BY <2>1, <2>2
    <2> QED BY <2>1, <2>2, <2>3, <2>4 DEF Combined
  <1>2. /\ N * lot \in Nat /\ K \in Nat
        /\ -c <= 2 * (N * lot) - 2 * (c * K)
        /\ 2 * (N * lot) - 2 * (c * K) < 2 * c
    <2>1. N * lot \in Nat
      OBVIOUS
    <2> QED BY <2>1, QuotientBounds
  <1> HIDE DEF K, r
  <1>3. /\ SumOver(n, O) \in Int /\ SumOver(k, O) \in Int /\ SumOver(r, O) \in Int
        /\ size \in Nat
    BY <1>1, SumType, FS_CardinalityType
  <1>4. SumOver(r, O) = (2 * lot) * N + (-(2 * c)) * SumOver(k, O)
    <2> DEFINE a == 2 * lot
               b == -(2 * c)
    <2>1. a \in Int /\ b \in Int
      OBVIOUS
    <2>2. \A o \in O : n[o] \in Int /\ k[o] \in Int /\ r[o] = Combined(a, n[o], b, k[o])
      BY <1>1
    <2> HIDE DEF a, b
    <2>3. SumOver(r, O) = Combined(a, SumOver(n, O), b, SumOver(k, O))
      BY <2>1, <2>2, SumLinear
    <2> QED BY <2>3 DEF a, b, Combined
  <1>5. /\ (-c) * size <= SumOver(r, O)
        /\ SumOver(r, O) <= (2 * c) * size
    <2>1. -c \in Int /\ 2 * c \in Int
      OBVIOUS
    <2> QED BY <1>1, <2>1, SumBounds
  <1> DEFINE s == SumOver(k, O)
             t == SumOver(r, O)
  <1> HIDE DEF size, s, t
  <1>6. t \in Int /\ s \in Int /\ size \in Nat
    BY <1>3 DEF s, t
  <1>7. /\ t = 2 * (N * lot) - 2 * (c * s)
        /\ -(c * size) <= t /\ t <= 2 * (c * size)
        /\ c * s \in Int /\ c * size \in Nat /\ c * K \in Int
    <2>1. /\ (2 * lot) * N = 2 * (N * lot)
          /\ (-(2 * c)) * s = -(2 * (c * s))
          /\ (-c) * size = -(c * size)
          /\ (2 * c) * size = 2 * (c * size)
          /\ c * s \in Int /\ c * size \in Nat /\ c * K \in Int
      BY <1>2, <1>6
    <2> QED BY <1>4, <1>5, <1>6, <2>1 DEF s, t
  <1>8. /\ 2 * (c * s) - 2 * (c * K) < 2 * c + c * size
        /\ -c - 2 * (c * size) <= 2 * (c * s) - 2 * (c * K)
    BY <1>2, <1>6, <1>7
  <1>9. /\ c * (s - K) = c * s - c * K
        /\ c * (size + 1) = c * size + c
        /\ c * (K - s) = c * K - c * s
    BY <1>2, <1>6
  <1>10. /\ c * (s - K) < c * (size + 1)
         /\ c * (K - s) < c * (size + 1)
    BY <1>2, <1>6, <1>7, <1>8, <1>9
  <1>11. s - K < size + 1 /\ K - s < size + 1
    BY <1>2, <1>6, <1>10, TimesCancel
  <1>12. s - K \in Int /\ -size <= s - K /\ s - K <= size
    BY <1>2, <1>6, <1>11
  <1> QED BY <1>12 DEF K, s, size

(* What one price period is worth, shared out and in total.                *)
LEMMA SharesOfPeriod ==
  ASSUME VolumeIInv, NEW d \in periods, NEW k,
         \A o \in Orchestrators : k[o] = FilVolume(d, {o})
  PROVE  /\ \A o \in Orchestrators : k[o] \in Int
         /\ FilVolume(d, Orchestrators) \in Int
         /\ -Cardinality(Orchestrators)
              <= SumOver(k, Orchestrators) - FilVolume(d, Orchestrators)
         /\ SumOver(k, Orchestrators) - FilVolume(d, Orchestrators)
              <= Cardinality(Orchestrators)
  <1> DEFINE M == {m \in payments :
                     /\ m.contract \in InForce(contracts, QuarterOf(d.at.epoch))
                     /\ m.token = FIL
                     /\ m.at.epoch >= ACTIVATION_EPOCH
                     /\ PricedBy(m, d)}
             part == [o \in Orchestrators |-> FilPayments(d, {o})]
             n == [o \in Orchestrators |-> TotalOf(part[o])]
             c == d.price.claim
             lot == d.price.lot
             N == TotalOf(FilPayments(d, Orchestrators))
  <1>1. c \in Nat \ {0} /\ lot \in Nat
    BY VolumeAssumption DEF VolumeIInv, VolumeTypeOK, Period
  <1>2. /\ M \in SUBSET payments
        /\ \A O : FilPayments(d, O) = {m \in M : Credited(m, O)}
    BY DEF FilPayments
  <1>3. \A O : FilPayments(d, O) \in SUBSET payments
    BY DEF FilPayments
  <1>4. N \in Nat /\ \A o \in Orchestrators : n[o] \in Nat
    BY <1>3, TotalIsSum
  <1>5. SumOver(n, Orchestrators) = N
    <2>1. \A o \in Orchestrators : part[o] = {m \in M : Credited(m, {o})}
      BY <1>2
    <2>2. \A o \in Orchestrators : n[o] = TotalOf(part[o])
      OBVIOUS
    <2> HIDE DEF part, n, M
    <2>3. SumOver(n, Orchestrators) = TotalOf({m \in M : Credited(m, Orchestrators)})
      BY <1>2, <2>1, <2>2, SharesOfTotal
    <2> QED BY <1>2, <2>3
  <1>6. \A o \in Orchestrators : k[o] = FloorOfQuotient(n[o] * lot, c)
    BY DEF FilVolume
  <1>7. FilVolume(d, Orchestrators) = FloorOfQuotient(N * lot, c)
    BY DEF FilVolume
  <1>8. IsFiniteSet(Orchestrators)
    BY VolumeAssumption
  <1> HIDE DEF n, c, lot, N
  <1>9. \A o \in Orchestrators : k[o] \in Int
    <2> SUFFICES ASSUME NEW o \in Orchestrators PROVE k[o] \in Int
      OBVIOUS
    <2>1. n[o] * lot \in Nat
      BY <1>1, <1>4
    <2>2. FloorOfQuotient(n[o] * lot, c) \in Nat
      BY <1>1, <2>1, QuotientBounds
    <2> QED BY <1>6, <2>2
  <1>10. FilVolume(d, Orchestrators) \in Int
    <2>1. N * lot \in Nat
      BY <1>1, <1>4
    <2>2. FloorOfQuotient(N * lot, c) \in Nat
      BY <1>1, <2>1, QuotientBounds
    <2> QED BY <1>7, <2>2
  <1>11. /\ -Cardinality(Orchestrators)
              <= SumOver(k, Orchestrators) - FloorOfQuotient(N * lot, c)
         /\ SumOver(k, Orchestrators) - FloorOfQuotient(N * lot, c)
              <= Cardinality(Orchestrators)
    BY <1>1, <1>4, <1>5, <1>6, <1>8, RoundedShares DEF RoundedEach
  <1> QED BY <1>7, <1>9, <1>10, <1>11

(* The shares of a quarter, in stablecoins and in FIL.                     *)
LEMMA SharesFollow ==
  ASSUME VolumeIInv, NEW q \in Quarters, ~NothingAdmitted(q)
  PROVE  LET share == [o \in Orchestrators |-> QuarterlyVolume(q, {o})]
             total == QuarterlyVolume(q, Orchestrators)
         IN  /\ SumFunction([o \in Orchestrators |-> share[o].stablecoin])
                  = total.stablecoin
             /\ Difference(SumFunction([o \in Orchestrators |-> share[o].fil]), total.fil)
                  <= Cardinality(PeriodsOf(q)) * Cardinality(Orchestrators)
  <1> DEFINE D == PeriodsOf(q)
             M == {m \in payments :
                     /\ m.contract \in InForce(contracts, q)
                     /\ m.token \in InForce(tokens, q)
                     /\ m.token \in CoveredAt(tokens, m.at)
                     /\ m.at.epoch \in QuarterStart(q) .. QuarterEnd(q)}
             part == [o \in Orchestrators |-> StablecoinPayments(q, {o})]
             n == [o \in Orchestrators |-> TotalOf(part[o])]
             fil(O) == [d \in D |-> FilVolume(d, O)]
             worth == [o \in Orchestrators |-> SumFunction(fil({o}))]
             k == [o \in Orchestrators |-> fil({o})]
             column == [d \in D |-> SumOver([o \in Orchestrators |-> k[o][d]], Orchestrators)]
             size == Cardinality(Orchestrators)
             off == [d \in D |-> Combined(1, column[d], -1, FilVolume(d, Orchestrators))]
             share == [o \in Orchestrators |-> QuarterlyVolume(q, {o})]
             total == QuarterlyVolume(q, Orchestrators)
  <1>1. /\ IsFiniteSet(Orchestrators) /\ IsFiniteSet(D) /\ D \subseteq periods
        /\ size \in Nat /\ Cardinality(D) \in Nat
    <2>1. D \subseteq periods
      BY DEF PeriodsOf
    <2>2. IsFiniteSet(Orchestrators) /\ IsFiniteSet(D)
      BY <2>1, TablesFinite, FS_Subset, VolumeAssumption
    <2> QED BY <2>1, <2>2, FS_CardinalityType
  <1>2. /\ total.stablecoin = TotalOf(StablecoinPayments(q, Orchestrators))
        /\ total.fil = SumFunction(fil(Orchestrators))
        /\ \A o \in Orchestrators : share[o].stablecoin = n[o] /\ share[o].fil = worth[o]
    BY DEF QuarterlyVolume
  <1>3. /\ [o \in Orchestrators |-> share[o].stablecoin] = n
        /\ [o \in Orchestrators |-> share[o].fil] = worth
    <2>1. /\ n = [o \in Orchestrators |-> n[o]]
          /\ worth = [o \in Orchestrators |-> worth[o]]
      OBVIOUS
    <2> HIDE DEF n, worth, share
    <2> QED BY <1>2, <2>1
  <1>4. SumFunction(n) = total.stablecoin
    <2>1. \A o \in Orchestrators : part[o] = {m \in M : Credited(m, {o})}
      BY DEF StablecoinPayments
    <2>2. /\ M \in SUBSET payments
          /\ StablecoinPayments(q, Orchestrators) = {m \in M : Credited(m, Orchestrators)}
      BY DEF StablecoinPayments
    <2>3. \A o \in Orchestrators : n[o] = TotalOf(part[o])
      OBVIOUS
    <2>4. SumFunction(n) = SumOver(n, Orchestrators)
      BY DEF SumOver
    <2> HIDE DEF part, n, M, total
    <2>5. SumOver(n, Orchestrators) = TotalOf({m \in M : Credited(m, Orchestrators)})
      BY <2>1, <2>2, <2>3, SharesOfTotal
    <2> QED BY <1>2, <2>2, <2>4, <2>5
  <1>5. \A d \in D :
          /\ column[d] \in Int
          /\ FilVolume(d, Orchestrators) \in Int
          /\ -size <= column[d] - FilVolume(d, Orchestrators)
          /\ column[d] - FilVolume(d, Orchestrators) <= size
          /\ \A o \in Orchestrators : k[o][d] \in Int
    <2> SUFFICES ASSUME NEW d \in D
                 PROVE  /\ column[d] \in Int
                        /\ FilVolume(d, Orchestrators) \in Int
                        /\ -size <= column[d] - FilVolume(d, Orchestrators)
                        /\ column[d] - FilVolume(d, Orchestrators) <= size
                        /\ \A o \in Orchestrators : k[o][d] \in Int
      OBVIOUS
    <2> DEFINE c == [o \in Orchestrators |-> k[o][d]]
    <2>1. \A o \in Orchestrators : c[o] = FilVolume(d, {o}) /\ k[o][d] = c[o]
      OBVIOUS
    <2>2. column[d] = SumOver(c, Orchestrators)
      OBVIOUS
    <2>3. d \in periods
      BY <1>1
    <2> HIDE DEF c, column, k
    <2>4. /\ \A o \in Orchestrators : c[o] \in Int
          /\ FilVolume(d, Orchestrators) \in Int
          /\ -size <= SumOver(c, Orchestrators) - FilVolume(d, Orchestrators)
          /\ SumOver(c, Orchestrators) - FilVolume(d, Orchestrators) <= size
      BY <2>1, <2>3, SharesOfPeriod
    <2>5. SumOver(c, Orchestrators) \in Int
      BY <1>1, <2>4, SumType
    <2> QED BY <2>1, <2>2, <2>4, <2>5
  <1>6. SumFunction(worth) = SumOver(column, D)
    <2>1. \A o \in Orchestrators : worth[o] = SumOver(k[o], D)
      <3> SUFFICES ASSUME NEW o \in Orchestrators
                   PROVE  SumFunction(fil({o})) = SumOver(fil({o}), D)
        OBVIOUS
      <3> QED BY DEF SumOver
    <2>2. worth = [o \in Orchestrators |-> SumOver(k[o], D)]
      <3>1. worth = [o \in Orchestrators |-> worth[o]]
        OBVIOUS
      <3> HIDE DEF worth, k
      <3> QED BY <2>1, <3>1
    <2>3. SumFunction(worth) = SumOver(worth, Orchestrators)
      BY DEF SumOver
    <2>4. \A o \in Orchestrators : \A d \in D : k[o][d] \in Int
      BY <1>5
    <2> HIDE DEF worth, k
    <2>5. SumOver([o \in Orchestrators |-> SumOver(k[o], D)], Orchestrators) = SumOver(column, D)
      BY <1>1, <2>4, SumsExchange
    <2> QED BY <2>2, <2>3, <2>5
  <1>7. total.fil = SumOver(fil(Orchestrators), D)
    <2>1. SumFunction(fil(Orchestrators)) = SumOver(fil(Orchestrators), D)
      BY DEF SumOver
    <2> HIDE DEF fil, total
    <2> QED BY <1>2, <2>1
  <1> DEFINE a == fil(Orchestrators)
             one == 1
             less == -1
             low == -size
  <1>8. \A d \in D : /\ column[d] \in Int /\ a[d] \in Int
                     /\ off[d] = Combined(one, column[d], less, a[d])
                     /\ off[d] \in Int
                     /\ low <= off[d] /\ off[d] <= size
    <2> SUFFICES ASSUME NEW d \in D
                 PROVE  /\ column[d] \in Int /\ a[d] \in Int
                        /\ off[d] = Combined(one, column[d], less, a[d])
                        /\ off[d] \in Int
                        /\ low <= off[d] /\ off[d] <= size
      OBVIOUS
    <2>1. a[d] = FilVolume(d, Orchestrators)
      OBVIOUS
    <2>2. off[d] = Combined(one, column[d], less, a[d])
      OBVIOUS
    <2> HIDE DEF a, off, column
    <2> QED BY <1>1, <1>5, <2>1, <2>2 DEF Combined
  <1>9. one \in Int /\ less \in Int /\ low \in Int /\ size \in Int
    BY <1>1
  <1> HIDE DEF a, off, column, one, less, low, D, worth, n, share, total
  <1>10. SumOver(off, D) = Combined(one, SumOver(column, D), less, SumOver(a, D))
    BY <1>1, <1>8, <1>9, SumLinear
  <1>11. /\ low * Cardinality(D) <= SumOver(off, D)
         /\ SumOver(off, D) <= size * Cardinality(D)
    BY <1>1, <1>8, <1>9, SumBounds
  <1>12. SumOver(column, D) \in Int /\ SumOver(a, D) \in Int
    BY <1>1, <1>8, SumType
  <1>13. SumOver(off, D) = SumOver(column, D) - SumOver(a, D)
    BY <1>10, <1>12 DEF Combined, one, less
  <1>14. /\ low * Cardinality(D) = -(Cardinality(D) * size)
         /\ size * Cardinality(D) = Cardinality(D) * size
         /\ Cardinality(D) * size \in Nat
    BY <1>1 DEF low
  <1>15. Difference(SumOver(column, D), SumOver(a, D)) <= Cardinality(D) * size
    BY <1>11, <1>12, <1>13, <1>14 DEF Difference
  <1>16. Difference(SumFunction(worth), total.fil) <= Cardinality(D) * size
    BY <1>6, <1>7, <1>15 DEF a
  <1> QED BY <1>3, <1>4, <1>16 DEF share, total, D

(* The volumes of the orchestrators add up to the total, exactly in        *)
(* stablecoins and in FIL up to one unit for each rounding.                *)
THEOREM VolumesAddUp == VolumeSpec => []SharesAddUp
  <1>1. VolumeIInv => SharesAddUp
    <2> SUFFICES ASSUME VolumeIInv, NEW q \in Quarters
                 PROVE  LET share == [o \in Orchestrators |-> QuarterlyVolume(q, {o})]
                            total == QuarterlyVolume(q, Orchestrators)
                        IN  /\ SumFunction([o \in Orchestrators |-> share[o].stablecoin])
                                 = total.stablecoin
                            /\ Difference(SumFunction([o \in Orchestrators |-> share[o].fil]),
                                          total.fil)
                                 <= Cardinality(PeriodsOf(q)) * Cardinality(Orchestrators)
      BY DEF SharesAddUp
    <2>1. CASE NothingAdmitted(q)
      <3> DEFINE zeros == [o \in Orchestrators |-> 0]
                 share == [o \in Orchestrators |-> QuarterlyVolume(q, {o})]
                 total == QuarterlyVolume(q, Orchestrators)
      <3>1. \A O : QuarterlyVolume(q, O) = [stablecoin |-> 0, fil |-> 0, pricingPeriods |-> {}]
        BY <2>1 DEF QuarterlyVolume
      <3>2. /\ total.stablecoin = 0 /\ total.fil = 0
            /\ [o \in Orchestrators |-> share[o].stablecoin] = zeros
            /\ [o \in Orchestrators |-> share[o].fil] = zeros
        BY <3>1
      <3>3. SumFunction(zeros) = 0
        BY VolumeAssumption, SumOfZeros
      <3>4. Cardinality(PeriodsOf(q)) * Cardinality(Orchestrators) \in Nat
        <4>1. IsFiniteSet(PeriodsOf(q)) /\ IsFiniteSet(Orchestrators)
          <5>1. PeriodsOf(q) \subseteq periods
            BY DEF PeriodsOf
          <5> QED BY <5>1, TablesFinite, FS_Subset, VolumeAssumption
        <4>2. Cardinality(PeriodsOf(q)) \in Nat /\ Cardinality(Orchestrators) \in Nat
          BY <4>1, FS_CardinalityType
        <4> QED BY <4>2
      <3> HIDE DEF zeros, share, total
      <3>5. Difference(SumFunction(zeros), total.fil)
              <= Cardinality(PeriodsOf(q)) * Cardinality(Orchestrators)
        BY <3>2, <3>3, <3>4 DEF Difference
      <3> QED BY <3>2, <3>3, <3>5 DEF share, total
    <2>2. CASE ~NothingAdmitted(q)
      BY <2>2, SharesFollow
    <2> QED BY <2>1, <2>2
  <1> QED BY <1>1, VolumeInvariant, PTL

-----------------------------------------------------------------------------
(* Pages of payments.                                                      *)

Newer(m) == {n \in payments : n.at.epoch > m.at.epoch}

(* However a request orders the payments, one that is alone in its epoch   *)
(* comes right after those of later epochs.                                *)
LEMMA PlaceInOrder ==
  ASSUME VolumeIInv, NEW f \in Orders(payments), NEW m \in payments,
         \A n \in payments : n.at.epoch = m.at.epoch => n = m
  PROVE  /\ Cardinality(payments) \in Nat
         /\ Cardinality(Newer(m)) + 1 \in 1 .. Cardinality(payments)
         /\ \A i \in 1 .. Cardinality(payments) :
              f[i] = m <=> i = Cardinality(Newer(m)) + 1
  <1> DEFINE N == Cardinality(payments)
  <1>1. IsFiniteSet(payments) /\ N \in Nat
    BY TablesFinite, FS_CardinalityType
  <1>2. /\ f \in [1 .. N -> payments]
        /\ \A i, j \in 1 .. N :
             i < j => f[i] # f[j] /\ f[i].at.epoch >= f[j].at.epoch
    BY DEF Orders
  <1>3. \A n \in payments : n.at.epoch \in Nat
    BY RowTypes
  <1> HIDE DEF N
  <1>4. \A i, j \in 1 .. N : f[i] = f[j] => i = j
    <2> SUFFICES ASSUME NEW i \in 1 .. N, NEW j \in 1 .. N, f[i] = f[j] PROVE i = j
      OBVIOUS
    <2>1. ~(i < j) /\ ~(j < i)
      BY <1>2
    <2> QED BY <1>1, <2>1
  <1>5. \E i \in 1 .. N : f[i] = m
    <2>1. f \in Injection(1 .. N, payments)
      BY <1>2, <1>4 DEF Injection, IsInjective
    <2>2. Cardinality(1 .. N) = N
      <3>1. 1 \in Int /\ N \in Int
        BY <1>1
      <3>2. Cardinality(1 .. N) = IF 1 > N THEN 0 ELSE N - 1 + 1
        BY <3>1, FS_Interval
      <3> QED BY <1>1, <3>2
    <2>3. f \in Surjection(1 .. N, payments)
      BY <1>1, <2>1, <2>2, FS_Injection DEF N
    <2> QED BY <2>3 DEF Surjection
  <1>6. PICK i \in 1 .. N : f[i] = m
    BY <1>5
  <1>7. \A j \in 1 .. N : f[j] \in Newer(m) <=> j < i
    <2> SUFFICES ASSUME NEW j \in 1 .. N PROVE f[j] \in Newer(m) <=> j < i
      OBVIOUS
    <2>1. /\ f[j] \in payments
          /\ f[j].at.epoch \in Nat /\ m.at.epoch \in Nat
      BY <1>2, <1>3
    <2>2. CASE j < i
      <3>1. f[j] # m /\ f[j].at.epoch >= m.at.epoch
        BY <1>2, <1>6, <2>2
      <3> QED BY <2>1, <2>2, <3>1 DEF Newer
    <2>3. CASE ~(j < i)
      <3>1. j = i \/ i < j
        BY <2>3
      <3>2. m.at.epoch >= f[j].at.epoch
        BY <1>2, <1>6, <2>1, <3>1
      <3> QED BY <2>1, <2>3, <3>2 DEF Newer
    <2> QED BY <2>2, <2>3
  <1>8. Cardinality(Newer(m)) = i - 1
    <2> DEFINE g == [j \in 1 .. i - 1 |-> f[j]]
    <2>1. \A j \in 1 .. i - 1 : j \in 1 .. N /\ j < i
      BY <1>1
    <2>2. g \in [1 .. i - 1 -> Newer(m)]
      BY <1>7, <2>1
    <2>3. \A a, b \in 1 .. i - 1 : g[a] = g[b] => a = b
      BY <1>4, <2>1
    <2>4. \A n \in Newer(m) : \E a \in 1 .. i - 1 : g[a] = n
      <3> SUFFICES ASSUME NEW n \in Newer(m)
                   PROVE  \E a \in 1 .. i - 1 : g[a] = n
        OBVIOUS
      <3>1. n \in payments
        BY DEF Newer
      <3>2. f \in Injection(1 .. N, payments)
        BY <1>2, <1>4 DEF Injection, IsInjective
      <3>3. Cardinality(1 .. N) = N
        <4>1. 1 \in Int /\ N \in Int
          BY <1>1
        <4>2. Cardinality(1 .. N) = IF 1 > N THEN 0 ELSE N - 1 + 1
          BY <4>1, FS_Interval
        <4> QED BY <1>1, <4>2
      <3>4. f \in Surjection(1 .. N, payments)
        BY <1>1, <3>2, <3>3, FS_Injection DEF N
      <3>5. PICK a \in 1 .. N : f[a] = n
        BY <3>1, <3>4 DEF Surjection
      <3>6. a < i
        BY <1>7, <3>5
      <3>7. a \in 1 .. i - 1
        BY <1>1, <3>6
      <3> QED BY <3>5, <3>7
    <2> HIDE DEF g
    <2>5. g \in Bijection(1 .. i - 1, Newer(m))
      BY <2>2, <2>3, <2>4 DEF Bijection, Injection, Surjection, IsInjective
    <2>6. ExistsBijection(1 .. i - 1, Newer(m))
      BY <2>5 DEF ExistsBijection
    <2>7. i - 1 \in Nat
      BY <1>1
    <2> QED BY <2>6, <2>7, FS_CountingElements
  <1>9. Cardinality(Newer(m)) + 1 = i
    BY <1>1, <1>8
  <1> QED BY <1>1, <1>4, <1>6, <1>9 DEF N

(* Every place is on one page.                                             *)
LEMMA OnePage ==
  ASSUME NEW N \in Nat, NEW limit \in Nat \ {0}, NEW i \in 1 .. N
  PROVE  \E p \in 1 .. PagesCount(N, limit) :
           \A k \in 1 .. PagesCount(N, limit) :
             i \in (k - 1) * limit + 1 .. k * limit <=> k = p
  <1> DEFINE a == (i - 1) \div limit
             Q == N \div limit
             R == IF N % limit = 0 THEN 0 ELSE 1
  <1>1. /\ i - 1 \in Nat /\ a \in Nat
        /\ limit * a <= i - 1
        /\ i - 1 < limit * a + limit
    <2>1. i - 1 \in Nat
      OBVIOUS
    <2> QED BY <2>1, DivBounds
  <1>2. /\ Q \in Nat /\ limit * Q <= N /\ N < limit * Q + limit
    BY DivBounds
  <1>3. N % limit = 0 => N = limit * Q
    OBVIOUS
  <1>4. R \in {0, 1} /\ (R = 0 => N = limit * Q)
    BY <1>3
  <1>5. PagesCount(N, limit) \in Nat /\ Q + R <= PagesCount(N, limit)
    <2>1. PagesCount(N, limit) = IF Q + R >= 1 THEN Q + R ELSE 1
      BY DEF PagesCount, Larger
    <2> HIDE DEF Q, R
    <2> QED BY <1>2, <1>4, <2>1
  <1> HIDE DEF a, Q, R
  <1>6. a < Q + R
    <2>1. limit * a < limit * (Q + R)
      <3>1. CASE R = 0
        <4>1. Q + R = Q
          BY <1>2, <3>1
        <4> QED BY <1>1, <1>2, <1>4, <3>1, <4>1
      <3>2. CASE R = 1
        <4>1. limit * (Q + R) = limit * Q + limit
          BY <1>2, <3>2
        <4>2. limit * Q \in Nat /\ limit * a \in Nat
          BY <1>1, <1>2
        <4> QED BY <1>1, <1>2, <4>1, <4>2
      <3> QED BY <1>4, <3>1, <3>2
    <2>2. Q + R \in Int
      BY <1>2, <1>4
    <2> QED BY <1>1, <2>1, <2>2, TimesCancel
  <1>7. a + 1 \in 1 .. PagesCount(N, limit)
    BY <1>1, <1>2, <1>4, <1>5, <1>6
  <1>8. ASSUME NEW k \in 1 .. PagesCount(N, limit)
        PROVE  i \in (k - 1) * limit + 1 .. k * limit <=> k = a + 1
    <2>1. /\ k \in Nat
          /\ (k - 1) * limit = limit * (k - 1) /\ k * limit = limit * k
          /\ limit * (k - 1) \in Int /\ limit * k \in Int
          /\ limit * (k - 1) = limit * k - limit
          /\ limit * (a + 1) = limit * a + limit
          /\ limit * a \in Int
      BY <1>1, <1>5
    <2>2. ASSUME k = a + 1
          PROVE  i \in (k - 1) * limit + 1 .. k * limit
      <3>1. k - 1 = a
        BY <1>1, <2>2
      <3> QED BY <1>1, <2>1, <2>2, <3>1
    <2>3. ASSUME i \in (k - 1) * limit + 1 .. k * limit
          PROVE  k = a + 1
      <3>1. limit * (k - 1) <= i - 1 /\ i - 1 < limit * k
        BY <2>1, <2>3
      <3>2. limit * (k - 1) < limit * (a + 1) /\ limit * a < limit * k
        BY <1>1, <2>1, <3>1
      <3>3. k - 1 < a + 1 /\ a < k
        BY <1>1, <2>1, <3>2, TimesCancel
      <3> QED BY <1>1, <2>1, <3>3
    <2> QED BY <2>2, <2>3
  <1> QED BY <1>7, <1>8

(* Page by page every payment alone in its epoch is read exactly once,     *)
(* whatever the orders of the requests.                                    *)
THEOREM EachPaymentOnOnePage == VolumeSpec => []PagesShowEachOnce
  <1>1. VolumeIInv => PagesShowEachOnce
    <2> DEFINE N == Cardinality(payments)
    <2> SUFFICES ASSUME VolumeIInv, NEW limit \in 1 .. N + 1,
                        NEW order \in [1 .. PagesCount(N, limit) -> Orders(payments)],
                        NEW m \in payments,
                        \A n \in payments : n.at.epoch = m.at.epoch => n = m
                 PROVE  Cardinality({k \in 1 .. PagesCount(N, limit) :
                                       m \in OnPage(order[k], k, limit)}) = 1
      BY DEF PagesShowEachOnce
    <2> DEFINE i == Cardinality(Newer(m)) + 1
               count == PagesCount(N, limit)
               pages == {k \in 1 .. count : m \in OnPage(order[k], k, limit)}
    <2>1. N \in Nat
      BY TablesFinite, FS_CardinalityType
    <2>2. limit \in Nat \ {0}
      BY <2>1
    <2>3. ASSUME NEW k \in 1 .. count
          PROVE  /\ i \in 1 .. N
                 /\ m \in OnPage(order[k], k, limit)
                      <=> i \in (k - 1) * limit + 1 .. k * limit
      <3>1. order[k] \in Orders(payments)
        OBVIOUS
      <3>2. DOMAIN order[k] = 1 .. N
        BY <3>1 DEF Orders
      <3> HIDE DEF count, i, N
      <3>3. i \in 1 .. N /\ \A j \in 1 .. N : order[k][j] = m <=> j = i
        BY <3>1, PlaceInOrder DEF i, N
      <3> QED BY <3>2, <3>3 DEF OnPage
    <2>4. count \in Nat /\ count >= 1
      <3>1. N \div limit \in Nat
        BY <2>1, <2>2, DivBounds
      <3> QED BY <3>1 DEF PagesCount, Larger
    <2>5. i \in 1 .. N
      <3>1. 1 \in 1 .. count
        BY <2>4
      <3> QED BY <2>3, <3>1
    <2> HIDE DEF i, count, N
    <2>6. PICK p \in 1 .. count :
            \A k \in 1 .. count : i \in (k - 1) * limit + 1 .. k * limit <=> k = p
      BY <2>1, <2>2, <2>5, OnePage DEF count
    <2>7. pages = {p}
      BY <2>3, <2>6
    <2>8. Cardinality({p}) = 1
      BY FS_Singleton
    <2> QED BY <2>7, <2>8 DEF count, N
  <1> QED BY <1>1, VolumeInvariant, PTL
=============================================================================
