-------------------------------- MODULE Volume --------------------------------
(***************************************************************************)
(* The quarterly volume (VolumeCalculationService) and the payments        *)
(* listing (PaymentsService), two queries over the same tables.            *)
(*                                                                         *)
(* The tables come from three sources with cursors of their own: the       *)
(* Service Rewards Actor (admitted lists, as in AdmittedLists, and         *)
(* bindings), the Filecoin Pay contracts (payments) and the tokens         *)
(* (auctions, and the price periods among them).                           *)
(*                                                                         *)
(* Bindings enter by what they mean for a pair, who is credited at each    *)
(* position: that no two rows of a pair cover a position, and that no      *)
(* event rewrites a closed quarter, is proved in ServicePairsProofs.       *)
(* Which auctions open a price period is the matter of PricePeriods; here  *)
(* any auction may.                                                        *)
(***************************************************************************)
EXTENDS AdmittedLists, FiniteSetsExt

CONSTANTS
  Pairs,          (* (payer, operator) pairs                               *)
  Orchestrators,  (* Service Orchestrators                                 *)
  Amounts,        (* total amounts of payments                             *)
  Prices,         (* what an auction says: records [lot, claim]            *)
  FIL,            (* the zero address, token of rails in FIL               *)
  EXACT_BELOW     (* the smallest quotient numeric division returns        *)
                  (* without fractional digits                             *)

ASSUME VolumeAssumption ==
  /\ Amounts \subseteq Nat
  /\ Prices \subseteq [lot : Nat, claim : Nat \ {0}]
  /\ FIL \notin Stablecoins
  /\ None \notin Orchestrators /\ IsFiniteSet(Orchestrators)
  /\ EXACT_BELOW \in Nat

VARIABLES
  credit,    (* who is credited: pair -> position -> orchestrator or None  *)
  payments,  (* filecoin_pay_payment joined with filecoin_pay_rail         *)
  periods    (* qualified_price_periods_mv                                 *)

volumeVars == <<vars, credit, payments, periods>>

Payment ==
  [at : EventPosition, contract : PayContracts, token : Stablecoins \cup {FIL},
   pair : Pairs, amount : Amounts]

Period == [at : EventPosition, price : Prices]

(* No two logs share a position.                                           *)
PositionsUnique(rows) == \A r, s \in rows : r.at = s.at => r = s

VolumeTypeOK ==
  /\ TypeOK
  /\ credit \in [Pairs -> [EventPosition -> Orchestrators \cup {None}]]
  /\ payments \subseteq Payment
  /\ periods \subseteq Period
  /\ PositionsUnique(payments)
  /\ PositionsUnique(periods)

-----------------------------------------------------------------------------
(* Writing the tables.                                                     *)

(* The insertion of a settlement or a one-time payment.  What a payment    *)
(* amounts to, for a one-time payment the sum of its parts, is one number. *)
(* Contracts are indexed side by side, each in the order of its chain.     *)
PaymentInserted(m) ==
  /\ \A n \in payments :
       /\ n.at # m.at
       /\ n.contract = m.contract => Before(n.at, m.at)
  /\ payments' = payments \cup {m}
  /\ UNCHANGED <<vars, credit, periods>>

(* An auction is indexed and opens a price period.                         *)
PeriodOpened(d) ==
  /\ \A e \in periods : Before(e.at, d.at)
  /\ periods' = periods \cup {d}
  /\ UNCHANGED <<vars, credit, payments>>

(* An event of the Service Rewards Actor at p decides who is credited from *)
(* x on; x may lie before p, but not before the quarter of p.              *)
BindingChanged(pr, o, x, p) ==
  /\ QuarterOf(x.epoch) >= QuarterOf(p.epoch)
  /\ credit' = [credit EXCEPT ![pr] =
                  [y \in EventPosition |-> IF AtOrBefore(x, y) THEN o ELSE @[y]]]
  /\ pos' = p
  /\ UNCHANGED <<contracts, tokens, parameters, boundary, payments, periods>>

ListsChanged(cs, ts, p) ==
  /\ AdmittedListsUpdated(cs, ts, p)
  /\ UNCHANGED <<credit, payments, periods>>

(* The pricing parameters decide about price periods, not about volumes.   *)
ParametersChanged(v, p) ==
  /\ PricingParamsUpdated(v, p)
  /\ UNCHANGED <<credit, payments, periods>>

VolumeInit ==
  /\ Init
  /\ credit = [pr \in Pairs |-> [x \in EventPosition |-> None]]
  /\ payments = {}
  /\ periods = {}

VolumeNext ==
  \/ \E m \in Payment : PaymentInserted(m)
  \/ \E d \in Period : PeriodOpened(d)
  \/ \E p \in EventPosition :
       /\ Before(pos, p)
       /\ \/ \E cs \in SUBSET PayContracts, ts \in SUBSET Stablecoins :
               ListsChanged(cs, ts, p)
          \/ \E v \in Values : ParametersChanged(v, p)
          \/ \E pr \in Pairs, o \in Orchestrators \cup {None}, x \in EventPosition :
               BindingChanged(pr, o, x, p)

VolumeSpec == VolumeInit /\ [][VolumeNext]_volumeVars

-----------------------------------------------------------------------------
(* getQuarterlyVolume.  O is the set of orchestrators asked for: one of    *)
(* them, or all.                                                           *)

(* Mutant: the orchestrator asked for is forgotten.                        *)
Credited_Anyone(m, O) == credit[m.pair][m.at] # None

Credited(m, O) == credit[m.pair][m.at] \in O

(* Without an admitted contract or an admitted stablecoin nothing is       *)
(* summed, in FIL neither.                                                 *)
NothingAdmitted(q) == InForce(contracts, q) = {} \/ InForce(tokens, q) = {}

(* Mutant: the token is looked for in the quarter's list of today only.    *)
StablecoinPayments_RowStillOpen(q, O) ==
  {m \in payments :
     /\ m.contract \in InForce(contracts, q)
     /\ m.token \in InForce(tokens, q) \cap Entries(Open(tokens))
     /\ QuarterOf(m.at.epoch) = q
     /\ Credited(m, O)}

StablecoinPayments(q, O) ==
  {m \in payments :
     /\ m.contract \in InForce(contracts, q)
     /\ m.token \in InForce(tokens, q)
     /\ m.token \in CoveredAt(tokens, m.at)
     /\ m.at.epoch \in QuarterStart(q) .. QuarterEnd(q)
     /\ Credited(m, O)}

(* Mutant: every later auction prices a payment, not only the next.        *)
PricedBy_AnyLater(m, d) == Before(m.at, d.at)

(* A payment in FIL is priced by the next auction after it.                *)
PricedBy(m, d) ==
  /\ Before(m.at, d.at)
  /\ ~ \E e \in periods : Before(m.at, e.at) /\ Before(e.at, d.at)

(* A period prices payments of earlier quarters too, if no period of those *)
(* did; the contracts are those of the period's quarter.                   *)
FilPayments(d, O) ==
  {m \in payments :
     /\ m.contract \in InForce(contracts, QuarterOf(d.at.epoch))
     /\ m.token = FIL
     /\ m.at.epoch >= ACTIVATION_EPOCH
     /\ Credited(m, O)
     /\ PricedBy(m, d)}

(* FLOOR of a numeric division: the division itself rounds to the nearest  *)
(* when it returns no fractional digits, as for every amount above a cent. *)
FloorOfQuotient(n, d) ==
  IF n \div d < EXACT_BELOW THEN n \div d ELSE (2 * n + d) \div (2 * d)

TotalOf(M) == SumFunction([m \in M |-> m.amount])

FilVolume(d, O) ==
  FloorOfQuotient(TotalOf(FilPayments(d, O)) * d.price.lot, d.price.claim)

PeriodsOf(q) == {d \in periods : QuarterOf(d.at.epoch) = q}

(* Where a period is said to begin: after the period before it in the      *)
(* quarter, and at the activation if it is the quarter's first.            *)
ReportedStart(d) ==
  LET earlier == {e \in PeriodsOf(QuarterOf(d.at.epoch)) : Before(e.at, d.at)}
  IN  IF earlier = {} THEN At(ACTIVATION_EPOCH, 0)
      ELSE NextLog((CHOOSE e \in earlier :
                      \A f \in earlier : AtOrBefore(f.at, e.at)).at)

QuarterlyVolume(q, O) ==
  LET volume == [d \in PeriodsOf(q) |-> FilVolume(d, O)]
  IN  IF NothingAdmitted(q)
      THEN [stablecoin |-> 0, fil |-> 0, pricingPeriods |-> {}]
      ELSE [stablecoin |-> TotalOf(StablecoinPayments(q, O)),
            fil |-> SumFunction(volume),
            pricingPeriods |-> {[end |-> d.at, start |-> ReportedStart(d),
                                 volume |-> volume[d]] : d \in PeriodsOf(q)}]

-----------------------------------------------------------------------------
(* getPaymentsPaginated.                                                   *)

(* The period a payment is listed with, none for stablecoins.              *)
ListedPeriod(m) ==
  IF m.token # FIL THEN {}
  ELSE {d \in periods : Before(m.at, d.at) /\
          \A e \in periods : Before(m.at, e.at) => AtOrBefore(d.at, e.at)}

(* The flag, which looks at the rows at the payment.                       *)
CountsTowardsVolume(m) ==
  /\ credit[m.pair][m.at] # None
  /\ m.contract \in CoveredAt(contracts, m.at)
  /\ m.token = FIL \/ m.token \in CoveredAt(tokens, m.at)

(* Mutant: payments in FIL are filtered by settlement as the others.       *)
FilteredEpochs_BySettlement(m) == {m.at.epoch}

(* What fromEpoch and toEpoch filter: the settlement, or the pricing.      *)
FilteredEpochs(m) ==
  IF m.token = FIL THEN {d.at.epoch : d \in ListedPeriod(m)} ELSE {m.at.epoch}

(* The listing of what counts for the orchestrators O from one epoch to    *)
(* another.                                                                *)
Listing(from, to, O) ==
  {m \in payments :
     /\ Credited(m, O)
     /\ FilteredEpochs(m) \cap (from .. to) # {}
     /\ CountsTowardsVolume(m)}

(* Pages.  The order is by epoch only; payments of one epoch come in any   *)
(* order, in another one with each request.                                *)
Larger(a, b) == IF a >= b THEN a ELSE b

(* Mutant: the last page is forgotten unless it is full.                   *)
PagesCount_Down(n, limit) == Larger(n \div limit, 1)

PagesCount(n, limit) ==
  Larger(n \div limit + (IF n % limit = 0 THEN 0 ELSE 1), 1)

Orders(M) ==
  {f \in [1 .. Cardinality(M) -> M] :
     \A i, j \in DOMAIN f : i < j => f[i] # f[j] /\ f[i].at.epoch >= f[j].at.epoch}

OnPage(f, page, limit) ==
  {f[i] : i \in DOMAIN f \cap ((page - 1) * limit + 1 .. page * limit)}

-----------------------------------------------------------------------------

AskedFor == {{o} : o \in Orchestrators} \cup {Orchestrators}

(* However late a source is and whatever it brings for the quarters after  *)
(* q (payments, price periods, lists, bindings that act backwards), the    *)
(* volume of q stays what it is, in total and for every orchestrator: the  *)
(* answers getQuarterlyVolume gives for a closed quarter never change.     *)
ClosedVolumesFinal ==
  [][\A q \in Quarters :
       /\ pos' = pos \/ QuarterOf(pos'.epoch) > q
       /\ \A r \in (payments' \ payments) \cup (periods' \ periods) :
            QuarterOf(r.at.epoch) > q
       => \A O \in AskedFor : QuarterlyVolume(q, O)' = QuarterlyVolume(q, O)]_volumeVars

(* No payment counts twice, as "no settlement should be counted twice" has *)
(* it: not in two quarters, and not with two price periods, although a     *)
(* payment in FIL may be counted in a later quarter than it was settled.   *)
CountedOnce ==
  \A m \in payments :
    /\ \A q, r \in Quarters :
         /\ m \in StablecoinPayments(q, Orchestrators)
         /\ m \in StablecoinPayments(r, Orchestrators)
         => q = r
    /\ \A d, e \in periods :
         m \in FilPayments(d, Orchestrators) /\ m \in FilPayments(e, Orchestrators)
           => d = e

Difference(a, b) == IF a >= b THEN a - b ELSE b - a

(* The volumes of the orchestrators add up to the total of the quarter:    *)
(* exactly in stablecoins, and in FIL up to one unit per price period and  *)
(* orchestrator, since each quotient is rounded on its own.                *)
SharesAddUp ==
  \A q \in Quarters :
    LET share == [o \in Orchestrators |-> QuarterlyVolume(q, {o})]
        total == QuarterlyVolume(q, Orchestrators)
    IN  /\ SumFunction([o \in Orchestrators |-> share[o].stablecoin]) = total.stablecoin
        /\ Difference(SumFunction([o \in Orchestrators |-> share[o].fil]), total.fil)
             <= Cardinality(PeriodsOf(q)) * Cardinality(Orchestrators)

(* What the volume of a quarter counts a payment by and what the listing   *)
(* shows it by are the same for this payment: the lists of the quarter are *)
(* those at the payment.                                                   *)
Undisturbed(m, q) ==
  /\ ~NothingAdmitted(q)
  /\ m.at.epoch >= ACTIVATION_EPOCH
  /\ m.contract \in InForce(contracts, q) <=> m.contract \in CoveredAt(contracts, m.at)
  /\ m.token # FIL =>
       (m.token \in InForce(tokens, q) <=> m.token \in CoveredAt(tokens, m.at))

(* Unless the lists changed around it, a payment is in the volume of a     *)
(* quarter if and only if the listing from the quarter's first epoch to    *)
(* its last has it as counting, and it is listed with the period that      *)
(* prices it.  Two queries written apart, over settlement for stablecoins  *)
(* and over pricing for FIL, pick the same payments.                       *)
ListingShowsVolume ==
  \A q \in Quarters, O \in AskedFor : \A m \in payments :
    Undisturbed(m, q) =>
      /\ m \in Listing(QuarterStart(q), QuarterEnd(q), O)
           <=> \/ m \in StablecoinPayments(q, O)
               \/ \E d \in PeriodsOf(q) : m \in FilPayments(d, O)
      /\ \A d \in PeriodsOf(q) : m \in FilPayments(d, O) => ListedPeriod(m) = {d}

(* Page by page every payment that shares its epoch with no other is read  *)
(* exactly once, however the requests order the others.                    *)
PagesShowEachOnce ==
  \A limit \in 1 .. Cardinality(payments) + 1 :
    LET count == PagesCount(Cardinality(payments), limit)
    IN  \A order \in [1 .. count -> Orders(payments)] :
        \A m \in payments :
          (\A n \in payments : n.at.epoch = m.at.epoch => n = m)
            => Cardinality({k \in 1 .. count : m \in OnPage(order[k], k, limit)}) = 1
=============================================================================
