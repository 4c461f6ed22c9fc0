----------------------------- MODULE PricePeriods -----------------------------
(***************************************************************************)
(* Which fee auctions open a price period: the SQL function                *)
(* get_qualifying_price_periods(), the materialized view that keeps its    *)
(* result, the triggers that refresh the view, and the minimum lot that    *)
(* QuartersService reports beside it.                                      *)
(*                                                                         *)
(* Auctions come from the tokens, everything else from the Service Rewards *)
(* Actor; the two are indexed one after the other, so either may be ahead. *)
(***************************************************************************)
EXTENDS AdmittedLists, FiniteSets

CONSTANTS
  Lots,            (* what auctions sell, in USD                           *)
  Claims,          (* what they burn, in FIL                               *)
  Volumes,         (* bound volumes the actor may submit                   *)
  SEED_AUCTIONS,   (* auctions that seed the band: 5 in the code           *)
  MEDIAN_RANK      (* the rank of their median: 3 in the code              *)

ASSUME PricePeriodsAssumption ==
  /\ Lots \subseteq Nat
  /\ Claims \subseteq Nat \ {0}
  /\ Volumes \subseteq Nat
  /\ Values \subseteq [floor : Nat, alphaNum : Nat, alphaDen : Nat, bps : Nat]
  /\ SEED_AUCTIONS \in Nat
  /\ MEDIAN_RANK \in 1 .. SEED_AUCTIONS

VARIABLES
  auctions,   (* filecoin_pay_fee_auction                                  *)
  bound,      (* quarter_bound_volume: quarter -> volume or None           *)
  view,       (* qualified_price_periods_mv                                *)
  skipped     (* external: burns the token indexer did not ask for         *)

periodVars == <<vars, auctions, bound, view, skipped>>

Auction ==
  [at : EventPosition, contract : PayContracts, token : Stablecoins,
   lot : Lots, claim : Claims]

PeriodsTypeOK ==
  /\ TypeOK
  /\ auctions \subseteq Auction
  /\ \A a, b \in auctions : a.at = b.at => a = b
  /\ bound \in [Quarters -> Volumes \cup {None}]
  /\ view \subseteq auctions
  /\ skipped \subseteq Auction

-----------------------------------------------------------------------------
(* get_qualifying_price_periods(), of the contract rows cs and the other   *)
(* tables as they are.                                                     *)

AuctionQuarter(a) == QuarterOf(a.at.epoch)

(* COALESCE of the bound volume of the quarter before.                     *)
BoundBefore(q) == IF q = 1 \/ bound[q - 1] = None THEN 0 ELSE bound[q - 1]

Params(q) == (CHOOSE c \in SqlParameter(q) : TRUE).value

(* Mutant: the product is compared with the volume itself, not with what   *)
(* integer division leaves of it.                                          *)
PassesMinLot_Exact(lot, p, volume, n) ==
  IF volume = 0 \/ n = 0
  THEN lot >= p.floor
  ELSE lot * p.alphaDen * n >= p.alphaNum * volume

(* auction_passes_min_lot: n is the number of periods of the quarter       *)
(* before.                                                                 *)
PassesMinLot(lot, p, volume, n) ==
  IF volume = 0 \/ n = 0
  THEN lot >= p.floor
  ELSE lot * p.alphaDen * n >= p.alphaNum * volume - (p.alphaDen * n - 1)

AbsDifference(x, y) == IF x >= y THEN x - y ELSE y - x

(* auction_passes_price_band.                                              *)
PassesBand(a, anchor, bps) ==
  AbsDifference(a.lot * anchor.claim, anchor.lot * a.claim) * 10000
    <= bps * anchor.lot * a.claim

Whitelisted(a, cs) ==
  /\ a.contract \in SqlInForce(cs, AuctionQuarter(a))
  /\ a.token \in SqlInForce(tokens, AuctionQuarter(a))

(* All auctions so far that clear the minimum lot with the count n, which  *)
(* is that of the quarter the loop is at.                                  *)
Substantial(n, cs) ==
  {a \in auctions :
     /\ AuctionQuarter(a) > 0
     /\ Whitelisted(a, cs)
     /\ SqlParameter(AuctionQuarter(a)) # {}
     /\ PassesMinLot(a.lot, Params(AuctionQuarter(a)), BoundBefore(AuctionQuarter(a)), n)}

UpTo(S, a) == {b \in S : AtOrBefore(b.at, a.at)}

(* ROW_NUMBER() over the order of the chain.                               *)
NumberIn(S, a) == Cardinality(UpTo(S, a))

(* Mutant: the last auctions seed the band instead of the first.           *)
Seeds_Last(S) == {a \in S : NumberIn(S, a) > Cardinality(S) - SEED_AUCTIONS}

Seeds(S) == {a \in S : NumberIn(S, a) <= SEED_AUCTIONS}

(* The seed of the middle rank by price, the earlier first of equal ones;  *)
(* T are the seeds.                                                        *)
RankedBefore(s, t) ==
  \/ s.lot * t.claim < t.lot * s.claim
  \/ s.lot * t.claim = t.lot * s.claim /\ AtOrBefore(s.at, t.at)

Median(T) ==
  {s \in T : Cardinality({t \in T : RankedBefore(t, s)}) = MEDIAN_RANK}

(* The auctions of quarter q that clear the minimum lot, without seeds.    *)
Candidates(S, q) == {a \in S \ Seeds(S) : AuctionQuarter(a) = q}

(* Mutant: an auction outside of the band becomes the anchor as well.      *)
NextAnchor_Always(a, anchor, bps) == {a}

(* The anchor after auction a: a itself if it qualifies.                   *)
NextAnchor(a, anchor, bps) ==
  IF \A x \in anchor : PassesBand(a, x, bps) THEN {a} ELSE anchor

LastIn(C) == {a \in C : UpTo(C, a) = C}

(* The flagged auctions of the quarter, one after the other; "start" is    *)
(* the last period of an earlier quarter or else the median of the seeds.  *)
Flagged(C, start, bps) ==
  LET after(a, b) ==
        [anchor    |-> NextAnchor(a, b.anchor, bps),
         qualified |-> b.qualified \cup
                         {x \in {a} : \E y \in b.anchor : PassesBand(x, y, bps)}]
      f[i \in 0 .. Cardinality(C)] ==
        IF i = 0 THEN {[anchor |-> start, qualified |-> {}]}
        ELSE {after(a, b) : a \in {x \in C : NumberIn(C, x) = i}, b \in f[i - 1]}
  IN  UNION {b.qualified : b \in f[Cardinality(C)]}

(* One round of the loop, which knows the rows so far, how many of them    *)
(* the last round gave and the last row; S are the substantial auctions.   *)
(* Sets of one element bind values that are used more than once.           *)
Start(before, S) ==
  IF before.last # {} THEN before.last ELSE UNION {Median(T) : T \in {Seeds(S)}}

Found(before, q, S) ==
  UNION {Flagged(C, start, Params(q).bps) :
           C \in {Candidates(S, q)}, start \in {Start(before, S)}}

Round(before, q, cs) ==
  {[rows  |-> before.rows \cup rows,
    count |-> Cardinality(rows),
    last  |-> IF rows = {} THEN before.last ELSE LastIn(rows)] :
     rows \in {Found(before, q, S) : S \in {Substantial(before.count, cs)}}}

(* The loop over the quarters.  Quarters without an auction are skipped,   *)
(* count and all.                                                          *)
Loop(cs) ==
  LET loop[q \in 0 .. QuarterOf(MaxEpoch)] ==
        IF q = 0 THEN {[rows |-> {}, count |-> 0, last |-> {}]}
        ELSE IF \A a \in auctions : AuctionQuarter(a) # q THEN loop[q - 1]
        ELSE UNION {Round(before, q, cs) : before \in loop[q - 1]}
  IN  loop[QuarterOf(MaxEpoch)]

QualifyingPricePeriods(cs) == UNION {r.rows : r \in Loop(cs)}

-----------------------------------------------------------------------------
(* Writing the tables, each with the refreshes its triggers make.          *)

(* The lists of the actor: a statement on the tokens refreshes the view,   *)
(* one on the contracts does not.  Removed tokens are written before new   *)
(* contracts are, new tokens after them.                                   *)
ListsWritten(cs, ts, p) ==
  LET removed == {r \in Open(tokens) : r.entry \notin ts}
      added   == (ts \ NotERC20) \ Entries(Open(tokens))
  IN  /\ AdmittedListsUpdated(cs, ts, p)
      /\ UNCHANGED <<auctions, bound, skipped>>
      /\ view' = CASE added # {} -> QualifyingPricePeriods(contracts)'
                   [] added = {} /\ removed # {} ->
                        QualifyingPricePeriods({r \in contracts : r.from # pos})'
                   [] OTHER -> view

Refresh == view' = QualifyingPricePeriods(contracts)'

ParametersWritten(v, p) ==
  /\ PricingParamsUpdated(v, p)
  /\ UNCHANGED <<auctions, bound, skipped>>
  /\ Refresh

(* Mutant: quarter_bound_volume has no trigger.                            *)
SharesSubmitted_NotRefreshed(q, v, p) ==
  /\ q < QuarterOf(p.epoch)
  /\ bound[q] = None
  /\ bound' = [bound EXCEPT ![q] = v]
  /\ pos' = p
  /\ UNCHANGED <<contracts, tokens, parameters, boundary, auctions, view, skipped>>

(* The actor binds the volume of a quarter once, after its end.            *)
SharesSubmitted(q, v, p) ==
  /\ q < QuarterOf(p.epoch)
  /\ bound[q] = None
  /\ bound' = [bound EXCEPT ![q] = v]
  /\ pos' = p
  /\ UNCHANGED <<contracts, tokens, parameters, boundary, auctions, skipped>>
  /\ Refresh

(* Mutant: only the contracts that are still admitted are asked for.       *)
Followed_Admitted(c) == c \in Entries(Open(contracts))

(* The token indexer asks for the burns of every contract there ever was.  *)
Followed(c) == c \in Entries(contracts)

InLogOrder(a) == \A b \in auctions \cup skipped : Before(b.at, a.at)

(* It inserts the auctions of a batch in one statement; one after the      *)
(* other comes to the same.                                                *)
AuctionIndexed(a) ==
  /\ Followed(a.contract)
  /\ InLogOrder(a)
  /\ auctions' = auctions \cup {a}
  /\ UNCHANGED <<vars, bound, skipped>>
  /\ Refresh

(* A burn that is not asked for is not asked for again.  Noted are those   *)
(* of quarters that the actor's log has reached.                           *)
AuctionSkipped(a) ==
  /\ ~Followed(a.contract)
  /\ InLogOrder(a)
  /\ AuctionQuarter(a) <= QuarterOf(pos.epoch)
  /\ skipped' = skipped \cup {a}
  /\ UNCHANGED <<vars, auctions, bound, view>>

(* At every start the configuration is written again.                      *)
ConfigSeeded ==
  /\ UNCHANGED <<vars, auctions, bound, skipped>>
  /\ Refresh

PeriodsInit ==
  /\ Init
  /\ auctions = {}
  /\ bound = [q \in Quarters |-> None]
  /\ view = {}
  /\ skipped = {}

PeriodsNext ==
  \/ \E a \in Auction : AuctionIndexed(a) \/ AuctionSkipped(a)
  \/ ConfigSeeded
  \/ \E p \in EventPosition :
       /\ Before(pos, p)
       /\ \/ \E cs \in SUBSET PayContracts, ts \in SUBSET Stablecoins :
               ListsWritten(cs, ts, p)
          \/ \E v \in Values : ParametersWritten(v, p)
          \/ \E q \in Quarters, v \in Volumes : SharesSubmitted(q, v, p)

PeriodsSpec == PeriodsInit /\ [][PeriodsNext]_periodVars

-----------------------------------------------------------------------------
(* getQuarterParameters: the minimum lot the API reports.                  *)

RowsOf(q) == {d \in view : AuctionQuarter(d) = q}

(* The periods of the preceding quarter.                                   *)
CountBefore(q) == Cardinality(RowsOf(q - 1))

UnboundMinLot(q) ==
  LET p == (CHOOSE c \in ApiParameter(q) : TRUE).value
  IN  IF p.alphaDen = 0 \/ CountBefore(q) = 0 THEN 0
      ELSE (p.alphaNum * BoundBefore(q)) \div (p.alphaDen * CountBefore(q))

MinLot(q) ==
  LET p == (CHOOSE c \in ApiParameter(q) : TRUE).value
  IN  IF UnboundMinLot(q) >= p.floor THEN UnboundMinLot(q) ELSE p.floor

-----------------------------------------------------------------------------

(* As long as the actor's log is not behind the auctions, the view never   *)
(* becomes stale: contracts have no trigger, but a list published in a     *)
(* quarter decides about later quarters only, whose auctions refresh the   *)
(* view; a bound volume decides about auctions that are there already.     *)
ViewStaysCurrent ==
  [][/\ \A a \in auctions : AuctionQuarter(a) <= QuarterOf(pos'.epoch)
     /\ view = QualifyingPricePeriods(contracts)
     => (view = QualifyingPricePeriods(contracts))']_periodVars

(* What is indexed of later quarters, auctions, lists, parameters and      *)
(* bound volumes, does not change the periods of a quarter, although every *)
(* refresh computes all quarters anew and numbers all auctions anew.       *)
ClosedPeriodsFinal ==
  [][view = QualifyingPricePeriods(contracts) =>
       \A q \in 1 .. QuarterOf(MaxEpoch) :
       /\ pos' = pos \/ QuarterOf(pos'.epoch) > q
       /\ \A a \in auctions' \ auctions : AuctionQuarter(a) > q
       /\ \A r \in 1 .. q : bound'[r] = bound[r] \/ r = q
       => RowsOf(q)' = RowsOf(q)]_periodVars

(* The last quarter before q that has auctions, if there is one, and the   *)
(* number of its periods.                                                  *)
LastQuarterBefore(q) ==
  LET earlier == {AuctionQuarter(a) : a \in auctions} \cap 1 .. (q - 1)
  IN  {r \in earlier : \A s \in earlier : s <= r}

CarriedCount(q) ==
  Cardinality({d \in view : AuctionQuarter(d) \in LastQuarterBefore(q)})

(* Earlier quarters have auctions, the quarter before has none.            *)
QuietBefore(q) == LastQuarterBefore(q) \notin {{}, {q - 1}}

(* The rule for an auction, when n is the number of periods that makes the *)
(* minimum lot: it is substantial, no seed, and within the band of the     *)
(* period before it, of whatever quarter, or without one of the median of  *)
(* the seeds.                                                              *)
OpensPeriod(a, n) ==
  LET S       == Substantial(n, contracts)
      earlier == {d \in view : Before(d.at, a.at)}
      anchor  == IF earlier = {} THEN Median(Seeds(S)) ELSE LastIn(earlier)
  IN  /\ a \in S \ Seeds(S)
      /\ \E x \in anchor : PassesBand(a, x, Params(AuctionQuarter(a)).bps)

(* The loop, which goes quarter by quarter with the count and the last     *)
(* period it carries, decides every auction by one rule, with the number   *)
(* of periods of the quarter before; only after a quarter without auctions *)
(* it is the number of an older quarter.                                   *)
PeriodsByRule ==
  view = QualifyingPricePeriods(contracts) =>
    \A a \in auctions :
      LET q == AuctionQuarter(a)
          n == IF QuietBefore(q) THEN CarriedCount(q) ELSE CountBefore(q)
      IN  a \in view <=> OpensPeriod(a, n)

(* The number of periods of the quarter before makes the minimum lot, in   *)
(* every quarter: what the API says of previousQuarterPricePeriodsCount    *)
(* (schemas.ts) and the SQL function calls its variable.  The loop has no  *)
(* round for a quarter without auctions, and keeps the older number.       *)
PeriodsByQuarterBefore ==
  view = QualifyingPricePeriods(contracts) =>
    \A a \in auctions :
      a \in view <=> OpensPeriod(a, CountBefore(AuctionQuarter(a)))

(* A burn the token indexer passes over can never count, whatever lists    *)
(* the actor publishes afterwards, if the actor's log has reached the      *)
(* burn's quarter: the contracts of that quarter are known by then.  (The  *)
(* log of a token may be ahead of the actor's; a burn of a quarter the     *)
(* actor's log has not reached is lost when its contract is admitted at    *)
(* the end of the quarter before.)                                         *)
SkippedNeverCount ==
  \A a \in skipped : a.contract \notin SqlInForce(contracts, AuctionQuarter(a))

(* The least lot the SQL function accepts, with the count the loop         *)
(* carries; none if a volume is bound and the denominator is zero.         *)
SqlMinLot(q) ==
  LET p == Params(q)
      v == BoundBefore(q)
      n == CarriedCount(q)
  IN  IF v = 0 \/ n = 0 THEN {p.floor}
      ELSE {(p.alphaNum * v) \div (d * n) : d \in {p.alphaDen} \ {0}}

(* The SQL function multiplies where the API divides, and still accepts an *)
(* auction if and only if its lot is not below one number, the quotient or *)
(* without a quotient the floor.  The API reports the larger of that       *)
(* number and the floor; but after a quarter without auctions, or with a   *)
(* zero denominator, it reports the floor, whatever the SQL function does. *)
MinLotAsReported ==
  \A a \in auctions :
    LET q == AuctionQuarter(a)
        p == Params(q)
    IN  SqlParameter(q) # {} =>
          /\ PassesMinLot(a.lot, p, BoundBefore(q), CarriedCount(q))
               <=> \E m \in SqlMinLot(q) : a.lot >= m
          /\ IF QuietBefore(q) \/ p.alphaDen = 0
             THEN MinLot(q) = p.floor
             ELSE \E m \in SqlMinLot(q) :
                    MinLot(q) = IF m >= p.floor THEN m ELSE p.floor

(* A price period has the minimum lot the API reports for its quarter.     *)
PeriodsHaveMinLot ==
  view = QualifyingPricePeriods(contracts) =>
    \A d \in view : d.lot >= MinLot(AuctionQuarter(d))
=============================================================================
