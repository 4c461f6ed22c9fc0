-------------------------- MODULE PricePeriodsProofs --------------------------
(***************************************************************************)
(* Proofs about PricePeriods, for every calendar, every set of contracts,  *)
(* tokens, lots, claims and parameters, and every length of the chain.     *)
(*                                                                         *)
(* The SQL function is two recursions, over the auctions of a quarter and  *)
(* over the quarters.  Both are shown to have a solution; what it returns  *)
(* is then described by a rule, and shown to depend on nothing later.  A   *)
(* statement about all quarters is proved by the set of indices for which  *)
(* it holds (Counting).                                                    *)
(***************************************************************************)
EXTENDS PricePeriods, AdmittedListsProofs, FiniteSetTheorems

(* A burn was passed over when the actor's log had reached its quarter,    *)
(* and its contract, if known by now, is so from that quarter on.          *)
SkippedLate ==
  \A a \in skipped :
    /\ AuctionQuarter(a) <= QuarterOf(pos.epoch)
    /\ \A r \in contracts :
         r.entry = a.contract => QuarterOf(r.from.epoch) >= AuctionQuarter(a)

(***************************************************************************)
(* SkippedNeverCount is not inductive alone: that a list published later   *)
(* does not reach back needs the actor's log to be in the burn's quarter.  *)
(***************************************************************************)
PeriodsIInv ==
  /\ IInv
  /\ auctions \subseteq Auction
  /\ \A a, b \in auctions : a.at = b.at => a = b
  /\ bound \in [Quarters -> Volumes \cup {None}]
  /\ skipped \subseteq Auction
  /\ SkippedLate

-----------------------------------------------------------------------------
(* Quarters of auctions are numbers, and their positions are positions.    *)
LEMMA AuctionTypes ==
  ASSUME NEW a \in Auction
  PROVE  a.at \in Position /\ AuctionQuarter(a) \in Nat
  <1>1. a.at \in Position /\ a.at.epoch \in Nat
    BY EventPositionType DEF Auction, Position
  <1> QED BY <1>1, QuarterType DEF AuctionQuarter

(* There is no auction in the beginning.                                   *)
LEMMA PeriodsInitInvariant == PeriodsInit => PeriodsIInv
  BY InitInvariant DEF PeriodsInit, PeriodsIInv, SkippedLate

(* An auction is inserted after all others.                                *)
LEMMA AuctionIndexedStep ==
  ASSUME PeriodsIInv, NEW a \in Auction, AuctionIndexed(a)
  PROVE  PeriodsIInv'
  <1>1. /\ auctions' = auctions \cup {a}
        /\ UNCHANGED vars /\ bound' = bound /\ skipped' = skipped
    BY DEF AuctionIndexed
  <1>2. IInv'
    BY <1>1, ListsUntouched DEF PeriodsIInv
  <1>3. \A b \in auctions : b.at # a.at
    <2>1. \A b \in auctions : b.at \in Position /\ Before(b.at, a.at)
      BY AuctionTypes DEF AuctionIndexed, InLogOrder, PeriodsIInv
    <2> QED BY <2>1, AuctionTypes, PositionOrder
  <1>4. SkippedLate'
    BY <1>1 DEF PeriodsIInv, SkippedLate, vars
  <1> QED BY <1>1, <1>2, <1>3, <1>4 DEF PeriodsIInv

(* A burn of a contract the tables do not know is passed over.             *)
LEMMA AuctionSkippedStep ==
  ASSUME PeriodsIInv, NEW a \in Auction, AuctionSkipped(a)
  PROVE  PeriodsIInv'
  <1>1. /\ skipped' = skipped \cup {a}
        /\ UNCHANGED vars /\ bound' = bound /\ auctions' = auctions
    BY DEF AuctionSkipped
  <1>2. IInv'
    BY <1>1, ListsUntouched DEF PeriodsIInv
  <1>3. \A r \in contracts : r.entry # a.contract
    BY DEF AuctionSkipped, Followed, Entries
  <1>4. SkippedLate'
    BY <1>1, <1>3 DEF PeriodsIInv, SkippedLate, AuctionSkipped, vars
  <1> QED BY <1>1, <1>2, <1>4 DEF PeriodsIInv

(* An event of the actor lies after the burns passed over before it, and   *)
(* the contracts it admits begin with it.                                  *)
LEMMA EventKeepsSkipped ==
  ASSUME PeriodsIInv, NEW p \in Position, Before(pos, p), pos' = p,
         skipped' = skipped,
         \A r \in contracts' : \/ r.from = p
                               \/ \E s \in contracts : s.entry = r.entry /\ s.from = r.from
  PROVE  SkippedLate'
  <1>1. pos \in Position
    BY DEF PeriodsIInv, IInv, TypeOK
  <1>2. QuarterOf(pos.epoch) <= QuarterOf(p.epoch)
    BY <1>1, PositionOrder, PositionQuarters
  <1>3. QuarterOf(pos.epoch) \in Nat /\ QuarterOf(p.epoch) \in Nat
    BY <1>1, QuarterType DEF Position
  <1>4. \A a \in skipped : AuctionQuarter(a) \in Nat
    BY AuctionTypes DEF PeriodsIInv
  <1>5. \A a \in skipped : AuctionQuarter(a) <= QuarterOf(p.epoch)
    BY <1>2, <1>3, <1>4 DEF PeriodsIInv, SkippedLate
  <1>6. ASSUME NEW a \in skipped, NEW r \in contracts', r.entry = a.contract
        PROVE  QuarterOf(r.from.epoch) >= AuctionQuarter(a)
    <2>1. CASE r.from = p
      BY <1>3, <1>4, <1>5, <2>1
    <2>2. CASE \E s \in contracts : s.entry = r.entry /\ s.from = r.from
      BY <1>6, <2>2 DEF PeriodsIInv, SkippedLate
    <2> QED BY <1>6, <2>1, <2>2
  <1> QED BY <1>5, <1>6 DEF SkippedLate, AuctionQuarter

(* A published list: its rows are those there were, closed or not, and new *)
(* ones that begin with it.                                                *)
LEMMA ListsWrittenStep ==
  ASSUME PeriodsIInv, NEW p \in EventPosition, Before(pos, p),
         NEW cs \in SUBSET PayContracts, NEW ts \in SUBSET Stablecoins,
         ListsWritten(cs, ts, p)
  PROVE  PeriodsIInv'
  <1>1. /\ AdmittedListsUpdated(cs, ts, p)
        /\ auctions' = auctions /\ bound' = bound /\ skipped' = skipped
    BY DEF ListsWritten
  <1>2. /\ contracts' = Updated(contracts, cs, p) /\ pos' = p
        /\ p \in Position
    BY <1>1, EventPositionType DEF AdmittedListsUpdated
  <1>3. IInv'
    BY <1>1, <1>2, ListsInvariant DEF PeriodsIInv
  <1>4. ASSUME NEW r \in contracts'
        PROVE  \/ r.from = p
               \/ \E s \in contracts : s.entry = r.entry /\ s.from = r.from
    <2>1. contracts \subseteq RowOf(PayContracts)
      BY DEF PeriodsIInv, IInv, TypeOK
    <2>2. CASE r \in contracts
      BY <2>2
    <2>3. CASE r \in {Row(e, p) : e \in cs \ Entries(Open(contracts))}
      BY <2>3 DEF Row
    <2>4. CASE r \in Closed({s \in Open(contracts) : s.entry \notin cs}, p)
      <3>1. PICK s \in contracts : r = [s EXCEPT !.to = p]
        BY <2>4 DEF Closed, Open
      <3>2. s \in RowOf(PayContracts)
        BY <2>1
      <3>3. r.entry = s.entry /\ r.from = s.from
        BY <3>1, <3>2 DEF RowOf
      <3> QED BY <3>3
    <2> QED BY <1>2, <2>2, <2>3, <2>4 DEF Updated
  <1>5. SkippedLate'
    BY <1>1, <1>2, <1>4, EventKeepsSkipped
  <1> QED BY <1>1, <1>3, <1>5 DEF PeriodsIInv

(* Parameters.                                                             *)
LEMMA ParametersWrittenStep ==
  ASSUME PeriodsIInv, NEW p \in EventPosition, Before(pos, p),
         NEW v \in Values, ParametersWritten(v, p)
  PROVE  PeriodsIInv'
  <1>1. /\ PricingParamsUpdated(v, p)
        /\ auctions' = auctions /\ bound' = bound /\ skipped' = skipped
    BY DEF ParametersWritten
  <1>2. contracts' = contracts /\ pos' = p /\ p \in Position
    BY <1>1, EventPositionType DEF PricingParamsUpdated
  <1>3. IInv'
    BY <1>1, <1>2, ParametersInvariant DEF PeriodsIInv
  <1>4. SkippedLate'
    BY <1>1, <1>2, EventKeepsSkipped
  <1> QED BY <1>1, <1>3, <1>4 DEF PeriodsIInv

(* A bound volume is an event that leaves lists and parameters alone.      *)
LEMMA SharesSubmittedStep ==
  ASSUME PeriodsIInv, NEW p \in EventPosition, Before(pos, p),
         NEW q \in Quarters, NEW v \in Volumes, SharesSubmitted(q, v, p)
  PROVE  PeriodsIInv'
  <1>1. /\ contracts' = contracts /\ tokens' = tokens /\ parameters' = parameters
        /\ boundary' = boundary /\ auctions' = auctions /\ skipped' = skipped
        /\ pos' = p /\ bound' = [bound EXCEPT ![q] = v]
    BY DEF SharesSubmitted
  <1>2. p \in Position
    BY EventPositionType
  <1>3. IInv'
    BY <1>1, <1>2, ListsLater DEF PeriodsIInv
  <1>4. SkippedLate'
    BY <1>1, <1>2, EventKeepsSkipped
  <1> QED BY <1>1, <1>3, <1>4 DEF PeriodsIInv

(* Every step keeps the invariant.                                         *)
LEMMA PeriodsStepInvariant == PeriodsIInv /\ [PeriodsNext]_periodVars => PeriodsIInv'
  <1> SUFFICES ASSUME PeriodsIInv, [PeriodsNext]_periodVars PROVE PeriodsIInv'
    OBVIOUS
  <1>1. CASE UNCHANGED <<vars, auctions, bound, skipped>>
    <2>1. IInv'
      BY <1>1, ListsUntouched DEF PeriodsIInv
    <2> QED BY <1>1, <2>1 DEF PeriodsIInv, SkippedLate, vars
  <1>2. CASE \E a \in Auction : AuctionIndexed(a) \/ AuctionSkipped(a)
    BY <1>2, AuctionIndexedStep, AuctionSkippedStep
  <1>3. CASE \E p \in EventPosition :
               /\ Before(pos, p)
               /\ \/ \E cs \in SUBSET PayContracts, ts \in SUBSET Stablecoins :
                       ListsWritten(cs, ts, p)
                  \/ \E v \in Values : ParametersWritten(v, p)
                  \/ \E q \in Quarters, v \in Volumes : SharesSubmitted(q, v, p)
    BY <1>3, ListsWrittenStep, ParametersWrittenStep, SharesSubmittedStep
  <1>4. ConfigSeeded \/ UNCHANGED periodVars => UNCHANGED <<vars, auctions, bound, skipped>>
    BY DEF ConfigSeeded, periodVars
  <1> QED BY <1>1, <1>2, <1>3, <1>4 DEF PeriodsNext

(* The invariant holds in every reachable state.                           *)
THEOREM PeriodsInvariant == PeriodsSpec => []PeriodsIInv
  <1> QED BY PeriodsInitInvariant, PeriodsStepInvariant, PTL DEF PeriodsSpec

(* A burn that was passed over never counts, whatever is published later.  *)
THEOREM SkippedIsNotMissed == PeriodsSpec => []SkippedNeverCount
  <1>1. PeriodsIInv => SkippedNeverCount
    <2> SUFFICES ASSUME PeriodsIInv, NEW a \in skipped,
                        a.contract \in SqlInForce(contracts, AuctionQuarter(a))
                 PROVE  FALSE
      BY DEF SkippedNeverCount
    <2>1. AuctionQuarter(a) \in Nat /\ pos \in Position
      BY AuctionTypes DEF PeriodsIInv, IInv, TypeOK
    <2>2. Table(contracts, PayContracts, pos)
      BY DEF PeriodsIInv, IInv
    <2>3. a.contract \in InForce(contracts, AuctionQuarter(a))
      BY <2>1, <2>2, SqlRule
    <2>4. PICK r \in contracts : r.entry = a.contract /\ AppliesIn(r, AuctionQuarter(a))
      BY <2>3 DEF InForce, Entries
    <2>5. QuarterOf(r.from.epoch) \in Nat
      BY <2>2, QuarterType DEF Table, RowOf, Position
    <2> QED BY <2>1, <2>4, <2>5 DEF PeriodsIInv, SkippedLate, AppliesIn
  <1> QED BY <1>1, PeriodsInvariant, PTL

(* What is proved of the lists alone holds with bound volumes among the    *)
(* events of the actor.                                                    *)
THEOREM ListsInComposition ==
  PeriodsSpec => [](InForceIsBoundaryList /\ SqlAgrees /\ ParametersAgree)
  <1>1. PeriodsIInv => InForceIsBoundaryList /\ SqlAgrees /\ ParametersAgree
    BY SqlFollows, ParametersFollow DEF PeriodsIInv, IInv
  <1> QED BY <1>1, PeriodsInvariant, PTL

-----------------------------------------------------------------------------
(* The order of the chain, and the numbers auctions have in it.            *)

(* Finitely many auctions at positions of their own.                       *)
Placed(A) ==
  /\ A \subseteq Auction
  /\ \A a, b \in A : a.at = b.at => a = b

(* There are only finitely many positions.                                 *)
LEMMA PlacedFinite ==
  ASSUME NEW A, Placed(A)
  PROVE  IsFiniteSet(A) /\ Cardinality(A) \in Nat
  <1>1. \A a \in A : a.at \in EventPosition
    BY DEF Placed, Auction
  <1>2. IsFiniteSet(A)
    BY <1>1, RowsFinite DEF Placed
  <1> QED BY <1>2, FS_CardinalityType

(* Two positions are the same or one is before the other.                  *)
LEMMA PositionsCompared ==
  ASSUME NEW p \in Position, NEW q \in Position, NEW x \in Position
  PROVE  /\ AtOrBefore(p, q) <=> Before(p, q) \/ p = q
         /\ AtOrBefore(p, q) <=> ~Before(q, p)
         /\ Before(p, q) /\ Before(q, x) => Before(p, x)
         /\ Before(p, q) => p # q
  BY DEF Position, Before, AtOrBefore

(* The auctions of a set are numbered from 1 on in the order of the chain. *)
LEMMA Numbers ==
  ASSUME NEW S, Placed(S)
  PROVE  /\ \A a \in S : NumberIn(S, a) \in 1 .. Cardinality(S)
         /\ \A a, b \in S : AtOrBefore(a.at, b.at) <=> NumberIn(S, a) <= NumberIn(S, b)
         /\ \A i \in 1 .. Cardinality(S) : \E a \in S :
              \A b \in S : NumberIn(S, b) = i <=> b = a
  <1> DEFINE R == {x \in S \X S : AtOrBefore(x[1].at, x[2].at)}
  <1>1. \A a, b \in S : <<a, b>> \in R <=> AtOrBefore(a.at, b.at)
    OBVIOUS
  <1>2. \A a \in S : a.at \in Position
    BY AuctionTypes DEF Placed
  <1>3. \A a, b \in S : AtOrBefore(a.at, b.at) /\ AtOrBefore(b.at, a.at) => a = b
    BY <1>2, PositionsCompared DEF Placed
  <1> HIDE DEF R
  <1>4. IsOrder(R, S)
    <2>1. \A a \in S : <<a, a>> \in R
      BY <1>1, <1>2, PositionOrder
    <2>2. \A a, b \in S : <<a, b>> \in R \/ <<b, a>> \in R
      BY <1>1, <1>2, PositionsCompared
    <2>3. \A a, b \in S : <<a, b>> \in R /\ <<b, a>> \in R => a = b
      BY <1>1, <1>3
    <2>4. \A a, b, c \in S : <<a, b>> \in R /\ <<b, c>> \in R => <<a, c>> \in R
      BY <1>1, <1>2, PositionOrder
    <2> QED BY <2>1, <2>2, <2>3, <2>4 DEF IsOrder
  <1>5. \A a \in S : NumberIn(S, a) = Cardinality(NotAbove(R, S, a))
    <2> SUFFICES ASSUME NEW a \in S PROVE UpTo(S, a) = NotAbove(R, S, a)
      BY DEF NumberIn
    <2> QED BY <1>1 DEF UpTo, NotAbove
  <1>6. IsFiniteSet(S)
    BY PlacedFinite
  <1>7. /\ \A a \in S : Cardinality(NotAbove(R, S, a)) \in 1 .. Cardinality(S)
        /\ \A a, b \in S :
             <<a, b>> \in R
               <=> Cardinality(NotAbove(R, S, a)) <= Cardinality(NotAbove(R, S, b))
        /\ \A i \in 1 .. Cardinality(S) : \E a \in S :
             \A b \in S : Cardinality(NotAbove(R, S, b)) = i <=> b = a
    BY <1>4, <1>6, Ranks
  <1> QED BY <1>1, <1>5, <1>7

(* What is last in a set.                                                  *)
LEMMA LastInIs ==
  ASSUME NEW S, Placed(S), NEW a \in S, \A b \in S : AtOrBefore(b.at, a.at)
  PROVE  LastIn(S) = {a}
  <1>1. UpTo(S, a) = S
    BY DEF UpTo
  <1>2. ASSUME NEW b \in S, UpTo(S, b) = S PROVE b = a
    <2>1. AtOrBefore(a.at, b.at) /\ AtOrBefore(b.at, a.at)
      BY <1>2 DEF UpTo
    <2>2. a.at \in Position /\ b.at \in Position
      BY AuctionTypes DEF Placed
    <2>3. a.at = b.at
      BY <2>1, <2>2, PositionsCompared
    <2> QED BY <2>3 DEF Placed
  <1> QED BY <1>1, <1>2 DEF LastIn

(* A set that is not empty has a last auction.                             *)
LEMMA HasLast ==
  ASSUME NEW S, Placed(S), S # {}
  PROVE  \E a \in S : LastIn(S) = {a} /\ \A b \in S : AtOrBefore(b.at, a.at)
  <1> DEFINE n == Cardinality(S)
  <1>1. n \in 1 .. n
    <2>1. n \in Nat
      BY PlacedFinite
    <2>2. n # 0
      BY PlacedFinite, FS_EmptySet
    <2> QED BY <2>1, <2>2
  <1>2. PICK a \in S : \A b \in S : NumberIn(S, b) = n <=> b = a
    <2> HIDE DEF n
    <2> QED BY <1>1, Numbers DEF n
  <1>3. NumberIn(S, a) = n
    BY <1>2
  <1>4. \A b \in S : NumberIn(S, b) <= n
    BY Numbers
  <1>5. \A b \in S : AtOrBefore(b.at, a.at)
    BY <1>3, <1>4, Numbers
  <1>6. LastIn(S) = {a}
    BY <1>5, LastInIs
  <1> QED BY <1>5, <1>6

-----------------------------------------------------------------------------
(* The flagged auctions of a quarter, one after the other.                 *)

(* What an auction makes of the anchor and the auctions that qualified.    *)
After(a, b, bps) ==
  [anchor    |-> NextAnchor(a, b.anchor, bps),
   qualified |-> b.qualified \cup
                   {x \in {a} : \E y \in b.anchor : PassesBand(x, y, bps)}]

Numbered(C, i) == {x \in C : NumberIn(C, x) = i}

Afters(C, i, B, bps) == {After(a, b, bps) : a \in Numbered(C, i), b \in B}

Flags(f, n, C, start, bps) ==
  f = [i \in 0 .. n |->
         IF i = 0 THEN {[anchor |-> start, qualified |-> {}]}
         ELSE Afters(C, i, f[i - 1], bps)]

(* The recursion by steps.                                                 *)
LEMMA FlagsUnfolded ==
  ASSUME NEW f, NEW n \in Nat, NEW C, NEW start, NEW bps, Flags(f, n, C, start, bps)
  PROVE  /\ f[0] = {[anchor |-> start, qualified |-> {}]}
         /\ \A i \in 1 .. n :
              f[i] = Afters(C, i, f[i - 1], bps)
  <1> DEFINE F == [i \in 0 .. n |->
         IF i = 0 THEN {[anchor |-> start, qualified |-> {}]}
         ELSE Afters(C, i, f[i - 1], bps)]
  <1>1. f = F
    BY DEF Flags
  <1>2. 0 \in 0 .. n /\ \A i \in 1 .. n : i \in 0 .. n /\ i # 0
    OBVIOUS
  <1>3. F[0] = {[anchor |-> start, qualified |-> {}]}
    BY <1>2
  <1>4. ASSUME NEW i \in 1 .. n
        PROVE  F[i] = Afters(C, i, f[i - 1], bps)
    BY <1>2
  <1> HIDE DEF F
  <1> QED BY <1>1, <1>3, <1>4

(* The recursion has a solution.                                           *)
LEMMA FlagsExist ==
  ASSUME NEW n \in Nat, NEW C, NEW start, NEW bps
  PROVE  \E f : Flags(f, n, C, start, bps)
  <1> DEFINE G == {i \in 0 .. n : \E f : Flags(f, i, C, start, bps)}
  <1>1. 0 \in G
    <2> DEFINE f == [i \in 0 .. 0 |-> {[anchor |-> start, qualified |-> {}]}]
    <2>1. \A i \in 0 .. 0 : i = 0
      OBVIOUS
    <2>2. Flags(f, 0, C, start, bps)
      BY <2>1 DEF Flags
    <2> HIDE DEF f
    <2> QED BY <2>2
  <1>2. ASSUME NEW i \in 1 .. n, i - 1 \in G PROVE i \in G
    <2>1. PICK h : Flags(h, i - 1, C, start, bps)
      BY <1>2
    <2> DEFINE k == i - 1
               new == Afters(C, i, h[k], bps)
               f == [j \in 0 .. i |-> IF j = i THEN new ELSE h[j]]
    <2>2. k \in Nat /\ i \in 0 .. i /\ k \in 0 .. i /\ k # i /\ 0 # i /\ 0 \in 0 .. i
      OBVIOUS
    <2>3. /\ h[0] = {[anchor |-> start, qualified |-> {}]}
          /\ \A j \in 1 .. k :
               h[j] = Afters(C, j, h[j - 1], bps)
      BY <2>1, <2>2, FlagsUnfolded
    <2>4. \A j \in 1 .. k :
            j \in 0 .. i /\ j # i /\ j - 1 \in 0 .. i /\ j - 1 # i
      OBVIOUS
    <2>5. \A j \in 0 .. i : j = 0 \/ j \in 1 .. k \/ j = i
      OBVIOUS
    <2>6. f[0] = h[0] /\ f[k] = h[k] /\ f[i] = new
      BY <2>2
    <2>7. \A j \in 1 .. k : f[j] = h[j] /\ f[j - 1] = h[j - 1]
      BY <2>4
    <2> DEFINE F == [j \in 0 .. i |->
                       IF j = 0 THEN {[anchor |-> start, qualified |-> {}]}
                       ELSE Afters(C, j, f[j - 1], bps)]
    <2>8. f = [j \in 0 .. i |-> f[j]]
      OBVIOUS
    <2> HIDE DEF f
    <2>9. ASSUME NEW j \in 0 .. i PROVE f[j] = F[j]
      <3>1. CASE j = 0
        BY <2>3, <2>6, <3>1
      <3>2. CASE j \in 1 .. k
        <4>1. F[j] = Afters(C, j, f[j - 1], bps)
          BY <3>2
        <4> QED BY <2>3, <2>7, <3>2, <4>1
      <3>3. CASE j = i
        <4>1. F[i] = Afters(C, i, f[k], bps)
          BY <2>2
        <4> QED BY <2>6, <3>3, <4>1
      <3> QED BY <2>5, <3>1, <3>2, <3>3
    <2>10. F = [j \in 0 .. i |-> F[j]]
      OBVIOUS
    <2>11. f = F
      <3> HIDE DEF F
      <3> QED BY <2>8, <2>9, <2>10
    <2>12. Flags(f, i, C, start, bps)
      BY <2>11 DEF Flags
    <2> QED BY <2>12
  <1> HIDE DEF G
  <1>3. n \in G
    <2>1. \A i \in 0 .. n : i \in G
      BY <1>1, <1>2, Counting
    <2> QED BY <2>1
  <1> QED BY <1>3 DEF G

(* What Flagged takes is such a solution.                                  *)
LEMMA FlaggedUnfolded ==
  ASSUME NEW C, Placed(C), NEW start, NEW bps
  PROVE  \E f : /\ Flags(f, Cardinality(C), C, start, bps)
                /\ Flagged(C, start, bps) = UNION {b.qualified : b \in f[Cardinality(C)]}
  <1> DEFINE n == Cardinality(C)
             f == CHOOSE g : Flags(g, n, C, start, bps)
  <1>1. \E g : Flags(g, n, C, start, bps)
    BY PlacedFinite, FlagsExist
  <1>2. Flags(f, n, C, start, bps)
    BY <1>1
  <1>3. Flagged(C, start, bps) = UNION {b.qualified : b \in f[n]}
    BY DEF Flagged, Flags, Afters, After, Numbered
  <1> QED BY <1>2, <1>3

LastOr(rows, start) == IF rows = {} THEN start ELSE LastIn(rows)

(* The period before a among the rows, or else the start.                  *)
AnchorOf(rows, start, a) == LastOr({d \in rows : Before(d.at, a.at)}, start)

FirstOf(C, i) == {x \in C : NumberIn(C, x) <= i}

(* After the first i auctions those of them that the rule lets qualify     *)
(* have done so, and the last of them is the anchor.                       *)
FlaggedSoFar(b, C, i, start, bps) ==
  /\ b.qualified \subseteq FirstOf(C, i)
  /\ b.anchor = LastOr(b.qualified, start)
  /\ \E x : b.anchor = {x}
  /\ \A a \in FirstOf(C, i) :
       a \in b.qualified
         <=> \E x \in AnchorOf(b.qualified, start, a) : PassesBand(a, x, bps)

(* The next auction is decided by the last that qualified.                 *)
LEMMA FlagsStep ==
  ASSUME NEW C, Placed(C), NEW start, NEW bps, NEW i \in 1 .. Cardinality(C),
         NEW b, FlaggedSoFar(b, C, i - 1, start, bps),
         NEW a \in C, NumberIn(C, a) = i
  PROVE  FlaggedSoFar(After(a, b, bps), C, i, start, bps)
  <1> DEFINE Q == b.qualified
             c == After(a, b, bps)
             new == {x \in {a} : \E y \in b.anchor : PassesBand(x, y, bps)}
  <1>1. i \in Nat /\ \A x \in C : NumberIn(C, x) \in Nat
    BY Numbers, PlacedFinite
  <1>2. \A x \in C : x.at \in Position
    BY AuctionTypes DEF Placed
  <1>3. /\ FirstOf(C, i) = FirstOf(C, i - 1) \cup {a}
        /\ a \notin FirstOf(C, i - 1)
    <2>1. \A x \in C : NumberIn(C, x) = i => x = a
      <3>1. PICK d \in C : \A x \in C : NumberIn(C, x) = i <=> x = d
        BY Numbers
      <3> QED BY <3>1
    <2> QED BY <1>1, <2>1 DEF FirstOf
  <1>4. \A x \in FirstOf(C, i - 1) : x \in C /\ Before(x.at, a.at) /\ ~Before(a.at, x.at)
    <2> SUFFICES ASSUME NEW x \in FirstOf(C, i - 1)
                 PROVE  x \in C /\ Before(x.at, a.at) /\ ~Before(a.at, x.at)
      OBVIOUS
    <2>1. x \in C /\ NumberIn(C, x) <= i - 1
      BY DEF FirstOf
    <2>2. ~(NumberIn(C, a) <= NumberIn(C, x))
      BY <1>1, <2>1
    <2>3. ~AtOrBefore(a.at, x.at)
      BY <2>1, <2>2, Numbers
    <2> QED BY <1>2, <2>1, <2>3, PositionsCompared
  <1>5. ~Before(a.at, a.at)
    BY <1>2, PositionsCompared
  <1>6. Q \subseteq FirstOf(C, i - 1) /\ Q \subseteq C
    BY DEF FlaggedSoFar, FirstOf
  <1>7. PICK z : b.anchor = {z}
    BY DEF FlaggedSoFar
  <1>8. c.qualified = Q \cup new /\ c.anchor = NextAnchor(a, b.anchor, bps)
    BY DEF After
  <1>9. new \subseteq {a} /\ (a \in new <=> PassesBand(a, z, bps))
    BY <1>7
  <1> HIDE DEF new, c
  <1>10. c.qualified \subseteq FirstOf(C, i) /\ c.qualified \subseteq C
    BY <1>3, <1>6, <1>8, <1>9
  <1>11. \A x \in FirstOf(C, i - 1) :
           x \in c.qualified
             <=> \E y \in AnchorOf(c.qualified, start, x) : PassesBand(x, y, bps)
    <2> SUFFICES ASSUME NEW x \in FirstOf(C, i - 1)
                 PROVE  x \in c.qualified
                   <=> \E y \in AnchorOf(c.qualified, start, x) : PassesBand(x, y, bps)
      OBVIOUS
    <2>1. \A d \in new : ~Before(d.at, x.at)
      BY <1>4, <1>9
    <2>2. AnchorOf(c.qualified, start, x) = AnchorOf(Q, start, x)
      <3>1. {d \in Q \cup new : Before(d.at, x.at)} = {d \in Q : Before(d.at, x.at)}
        BY <2>1
      <3> QED BY <1>8, <3>1 DEF AnchorOf
    <2>3. x \in c.qualified <=> x \in Q
      BY <1>3, <1>8, <1>9
    <2> QED BY <2>2, <2>3 DEF FlaggedSoFar
  <1>12. AnchorOf(c.qualified, start, a) = {z}
    <2>1. \A d \in new : ~Before(d.at, a.at)
      BY <1>5, <1>9
    <2>2. AnchorOf(c.qualified, start, a) = AnchorOf(Q, start, a)
      <3>1. {d \in Q \cup new : Before(d.at, a.at)} = {d \in Q : Before(d.at, a.at)}
        BY <2>1
      <3> QED BY <1>8, <3>1 DEF AnchorOf
    <2>3. {d \in Q : Before(d.at, a.at)} = Q
      BY <1>4, <1>6
    <2> QED BY <1>7, <2>2, <2>3 DEF AnchorOf, FlaggedSoFar
  <1>13. a \in c.qualified <=> PassesBand(a, z, bps)
    BY <1>3, <1>6, <1>8, <1>9
  <1>14. c.anchor = LastOr(c.qualified, start) /\ \E x : c.anchor = {x}
    <2>1. CASE PassesBand(a, z, bps)
      <3>1. c.anchor = {a} /\ a \in c.qualified
        BY <1>7, <1>8, <1>13, <2>1 DEF NextAnchor
      <3>2. \A x \in c.qualified : AtOrBefore(x.at, a.at)
        <4> SUFFICES ASSUME NEW x \in c.qualified PROVE AtOrBefore(x.at, a.at)
          OBVIOUS
        <4>1. x = a \/ x \in FirstOf(C, i - 1)
          BY <1>3, <1>10
        <4>2. x.at \in Position /\ a.at \in Position
          BY <1>2, <1>10
        <4> QED BY <1>4, <4>1, <4>2, PositionsCompared
      <3>3. LastIn(c.qualified) = {a}
        <4>1. Placed(c.qualified)
          BY <1>10 DEF Placed
        <4> QED BY <3>1, <3>2, <4>1, LastInIs
      <3> QED BY <3>1, <3>3 DEF LastOr
    <2>2. CASE ~PassesBand(a, z, bps)
      <3>1. c.anchor = b.anchor /\ c.qualified = Q
        BY <1>7, <1>8, <1>9, <2>2 DEF NextAnchor
      <3> QED BY <1>7, <3>1 DEF FlaggedSoFar
    <2> QED BY <2>1, <2>2
  <1>15. \A x \in FirstOf(C, i) :
           x \in c.qualified
             <=> \E y \in AnchorOf(c.qualified, start, x) : PassesBand(x, y, bps)
    BY <1>3, <1>11, <1>12, <1>13
  <1> QED BY <1>10, <1>14, <1>15 DEF FlaggedSoFar, c

(* The flagged auctions are those within the band of the flagged one       *)
(* before them.                                                            *)
LEMMA FlaggedByRule ==
  ASSUME NEW C, Placed(C), NEW start, NEW bps, \E x : start = {x}
  PROVE  /\ Flagged(C, start, bps) \subseteq C
         /\ \A a \in C :
              a \in Flagged(C, start, bps)
                <=> \E x \in AnchorOf(Flagged(C, start, bps), start, a) :
                      PassesBand(a, x, bps)
  <1> DEFINE n == Cardinality(C)
  <1>1. n \in Nat
    BY PlacedFinite
  <1>2. PICK f : Flags(f, n, C, start, bps)
                 /\ Flagged(C, start, bps) = UNION {b.qualified : b \in f[n]}
    BY FlaggedUnfolded
  <1>3. /\ f[0] = {[anchor |-> start, qualified |-> {}]}
        /\ \A i \in 1 .. n : f[i] = Afters(C, i, f[i - 1], bps)
    BY <1>1, <1>2, FlagsUnfolded
  <1> DEFINE G == {i \in 0 .. n :
                     \E b : f[i] = {b} /\ FlaggedSoFar(b, C, i, start, bps)}
  <1>4. 0 \in G
    <2> DEFINE b == [anchor |-> start, qualified |-> {}]
    <2>1. FirstOf(C, 0) = {}
      <3>1. \A x \in C : NumberIn(C, x) \in 1 .. Cardinality(C)
        BY Numbers
      <3>2. \A x \in C : ~(NumberIn(C, x) <= 0)
        BY <1>1, <3>1
      <3> QED BY <3>2 DEF FirstOf
    <2>2. FlaggedSoFar(b, C, 0, start, bps)
      BY <2>1 DEF FlaggedSoFar, LastOr
    <2>3. f[0] = {b}
      BY <1>3
    <2> HIDE DEF b
    <2> QED BY <1>1, <2>2, <2>3
  <1>5. ASSUME NEW i \in 1 .. n, i - 1 \in G PROVE i \in G
    <2>1. PICK b : f[i - 1] = {b} /\ FlaggedSoFar(b, C, i - 1, start, bps)
      BY <1>5
    <2>2. PICK a \in C : \A x \in C : NumberIn(C, x) = i <=> x = a
      BY Numbers
    <2>3. Numbered(C, i) = {a} /\ NumberIn(C, a) = i
      BY <2>2 DEF Numbered
    <2>4. f[i] = {After(a, b, bps)}
      BY <1>3, <2>1, <2>3 DEF Afters
    <2>5. FlaggedSoFar(After(a, b, bps), C, i, start, bps)
      BY <2>1, <2>3, FlagsStep
    <2> QED BY <1>1, <2>4, <2>5
  <1>6. n \in G
    <2> HIDE DEF G, n
    <2>1. \A i \in 0 .. n : i \in G
      BY <1>1, <1>4, <1>5, Counting
    <2> QED BY <1>1, <2>1
  <1>7. PICK b : f[n] = {b} /\ FlaggedSoFar(b, C, n, start, bps)
    BY <1>6
  <1>8. Flagged(C, start, bps) = b.qualified
    BY <1>2, <1>7
  <1>9. FirstOf(C, n) = C
    <2>1. \A x \in C : NumberIn(C, x) <= n
      BY Numbers
    <2> QED BY <2>1 DEF FirstOf
  <1> HIDE DEF n
  <1> QED BY <1>7, <1>8, <1>9 DEF FlaggedSoFar

(* Without an auction nothing is flagged.                                  *)
LEMMA NothingFlagged ==
  ASSUME NEW start, NEW bps
  PROVE  Flagged({}, start, bps) = {}
  <1>1. Placed({}) /\ Cardinality({}) = 0
    BY FS_EmptySet DEF Placed
  <1>2. PICK f : Flags(f, 0, {}, start, bps)
                 /\ Flagged({}, start, bps) = UNION {b.qualified : b \in f[0]}
    BY <1>1, FlaggedUnfolded
  <1>3. f[0] = {[anchor |-> start, qualified |-> {}]}
    BY <1>2, FlagsUnfolded
  <1> QED BY <1>2, <1>3

-----------------------------------------------------------------------------
(* The seeds and their median.                                             *)

(* A common factor changes neither the order nor the equality of numbers.  *)
LEMMA CommonFactor ==
  ASSUME NEW x \in Nat, NEW y \in Nat, NEW d \in Nat \ {0}
  PROVE  (d * x <= d * y <=> x <= y) /\ (d * x = d * y <=> x = y)
  <1>1. d * x \in Nat /\ d * y \in Nat
    OBVIOUS
  <1>2. x < y => d * x + d <= d * y
    BY TimesMonotone
  <1>3. y < x => d * y + d <= d * x
    BY TimesMonotone
  <1>4. x = y => d * x = d * y
    OBVIOUS
  <1> DEFINE u == d * x
             v == d * y
  <1> HIDE DEF u, v
  <1>5. (u <= v <=> x <= y) /\ (u = v <=> x = y)
    BY <1>1, <1>2, <1>3, <1>4 DEF u, v
  <1> QED BY <1>5 DEF u, v

(* Fractions a / b, c / d and e / f, compared by cross products.           *)
LEMMA FractionOrder ==
  ASSUME NEW a \in Nat, NEW c \in Nat, NEW e \in Nat,
         NEW b \in Nat \ {0}, NEW d \in Nat \ {0}, NEW f \in Nat \ {0},
         a * d <= c * b, c * f <= e * d
  PROVE  /\ a * f <= e * b
         /\ a * f = e * b => a * d = c * b /\ c * f = e * d
  <1> DEFINE ad == a * d
             cb == c * b
             cf == c * f
             ed == e * d
             af == a * f
             eb == e * b
  <1>1. /\ ad \in Nat /\ cb \in Nat /\ cf \in Nat
        /\ ed \in Nat /\ af \in Nat /\ eb \in Nat
    OBVIOUS
  <1>2. f * ad = d * af /\ f * cb = b * cf /\ b * ed = d * eb
    OBVIOUS
  <1>3. ad <= cb /\ cf <= ed
    OBVIOUS
  <1> HIDE DEF ad, cb, cf, ed, af, eb
  <1>4. (f * ad <= f * cb <=> ad <= cb) /\ (f * ad = f * cb <=> ad = cb)
    BY <1>1, CommonFactor
  <1>5. (b * cf <= b * ed <=> cf <= ed) /\ (b * cf = b * ed <=> cf = ed)
    BY <1>1, CommonFactor
  <1>6. (d * af <= d * eb <=> af <= eb) /\ (d * af = d * eb <=> af = eb)
    BY <1>1, CommonFactor
  <1> DEFINE p == f * ad
             q == f * cb
             r == b * ed
  <1>7. p \in Nat /\ q \in Nat /\ r \in Nat
    BY <1>1
  <1>8. p = d * af /\ q = b * cf /\ r = d * eb
    BY <1>2
  <1>9. /\ (p <= q <=> ad <= cb) /\ (p = q <=> ad = cb)
        /\ (q <= r <=> cf <= ed) /\ (q = r <=> cf = ed)
        /\ (p <= r <=> af <= eb) /\ (p = r <=> af = eb)
    BY <1>4, <1>5, <1>6, <1>8
  <1> HIDE DEF p, q, r
  <1>10. af <= eb /\ (af = eb => ad = cb /\ cf = ed)
    BY <1>3, <1>7, <1>9
  <1> QED BY <1>10 DEF ad, cb, cf, ed, af, eb

(* The order of the ranks is one: prices are compared by cross products,   *)
(* equal ones by position.                                                 *)
LEMMA RankingOrders ==
  ASSUME NEW T, Placed(T)
  PROVE  IsOrder({x \in T \X T : RankedBefore(x[1], x[2])}, T)
  <1> DEFINE R == {x \in T \X T : RankedBefore(x[1], x[2])}
  <1>1. \A s, t \in T : <<s, t>> \in R <=> RankedBefore(s, t)
    OBVIOUS
  <1>2. \A s \in T : s.at \in Position /\ s.lot \in Nat /\ s.claim \in Nat \ {0}
    <2> SUFFICES ASSUME NEW s \in T
                 PROVE  s.at \in Position /\ s.lot \in Nat /\ s.claim \in Nat \ {0}
      OBVIOUS
    <2>1. s \in Auction
      BY DEF Placed
    <2> QED BY <2>1, AuctionTypes, PricePeriodsAssumption DEF Auction
  <1>3. \A s, t \in T :
          /\ s.lot * t.claim \in Nat
          /\ RankedBefore(s, t) <=> /\ s.lot * t.claim <= t.lot * s.claim
                                    /\ s.lot * t.claim = t.lot * s.claim
                                         => AtOrBefore(s.at, t.at)
    <2> SUFFICES ASSUME NEW s \in T, NEW t \in T
                 PROVE  /\ s.lot * t.claim \in Nat
                        /\ RankedBefore(s, t)
                             <=> /\ s.lot * t.claim <= t.lot * s.claim
                                 /\ s.lot * t.claim = t.lot * s.claim
                                      => AtOrBefore(s.at, t.at)
      OBVIOUS
    <2> DEFINE x == s.lot * t.claim
               y == t.lot * s.claim
    <2>1. x \in Nat /\ y \in Nat
      BY <1>2
    <2>2. RankedBefore(s, t) <=> x < y \/ (x = y /\ AtOrBefore(s.at, t.at))
      BY DEF RankedBefore
    <2> HIDE DEF x, y
    <2>3. RankedBefore(s, t) <=> x <= y /\ (x = y => AtOrBefore(s.at, t.at))
      BY <2>1, <2>2
    <2> QED BY <2>1, <2>3 DEF x, y
  <1>4. \A s \in T : RankedBefore(s, s)
    BY <1>2, PositionOrder DEF RankedBefore
  <1>5. \A s, t \in T : RankedBefore(s, t) \/ RankedBefore(t, s)
    <2> SUFFICES ASSUME NEW s \in T, NEW t \in T
                 PROVE  RankedBefore(s, t) \/ RankedBefore(t, s)
      OBVIOUS
    <2> DEFINE x == s.lot * t.claim
               y == t.lot * s.claim
    <2>1. x \in Nat /\ y \in Nat
      BY <1>3
    <2>2. /\ RankedBefore(s, t) <=> x <= y /\ (x = y => AtOrBefore(s.at, t.at))
          /\ RankedBefore(t, s) <=> y <= x /\ (y = x => AtOrBefore(t.at, s.at))
      BY <1>3
    <2>3. AtOrBefore(s.at, t.at) \/ AtOrBefore(t.at, s.at)
      BY <1>2, PositionsCompared
    <2> HIDE DEF x, y
    <2> QED BY <2>1, <2>2, <2>3
  <1>6. \A s, t \in T : RankedBefore(s, t) /\ RankedBefore(t, s) => s = t
    <2> SUFFICES ASSUME NEW s \in T, NEW t \in T,
                        RankedBefore(s, t), RankedBefore(t, s)
                 PROVE  s = t
      OBVIOUS
    <2> DEFINE x == s.lot * t.claim
               y == t.lot * s.claim
    <2>1. x \in Nat /\ y \in Nat
      BY <1>3
    <2>2. /\ x <= y /\ (x = y => AtOrBefore(s.at, t.at))
          /\ y <= x /\ (y = x => AtOrBefore(t.at, s.at))
      BY <1>3
    <2> HIDE DEF x, y
    <2>3. AtOrBefore(s.at, t.at) /\ AtOrBefore(t.at, s.at)
      BY <2>1, <2>2
    <2>4. s.at = t.at
      BY <1>2, <2>3, PositionsCompared
    <2> QED BY <2>4 DEF Placed
  <1>7. \A s, t, u \in T :
          RankedBefore(s, t) /\ RankedBefore(t, u) => RankedBefore(s, u)
    <2> SUFFICES ASSUME NEW s \in T, NEW t \in T, NEW u \in T,
                        RankedBefore(s, t), RankedBefore(t, u)
                 PROVE  RankedBefore(s, u)
      OBVIOUS
    <2>1. /\ s.lot * t.claim <= t.lot * s.claim
          /\ t.lot * u.claim <= u.lot * t.claim
      BY <1>3
    <2>2. /\ s.lot * u.claim <= u.lot * s.claim
          /\ s.lot * u.claim = u.lot * s.claim
               => /\ s.lot * t.claim = t.lot * s.claim
                  /\ t.lot * u.claim = u.lot * t.claim
      <3> DEFINE a == s.lot
                 b == s.claim
                 c == t.lot
                 d == t.claim
                 e == u.lot
                 f == u.claim
      <3>1. /\ a \in Nat /\ c \in Nat /\ e \in Nat
            /\ b \in Nat \ {0} /\ d \in Nat \ {0} /\ f \in Nat \ {0}
        BY <1>2
      <3>2. a * d <= c * b /\ c * f <= e * d
        BY <2>1
      <3> HIDE DEF a, b, c, d, e, f
      <3>3. /\ a * f <= e * b
            /\ a * f = e * b => a * d = c * b /\ c * f = e * d
        BY <3>1, <3>2, FractionOrder
      <3> QED BY <3>3 DEF a, b, c, d, e, f
    <2>3. ASSUME s.lot * u.claim = u.lot * s.claim PROVE AtOrBefore(s.at, u.at)
      <3>1. AtOrBefore(s.at, t.at) /\ AtOrBefore(t.at, u.at)
        BY <1>3, <2>2, <2>3
      <3> QED BY <1>2, <3>1, PositionOrder
    <2> QED BY <1>3, <2>2, <2>3
  <1> HIDE DEF R
  <1>8. IsOrder(R, T)
    BY <1>1, <1>4, <1>5, <1>6, <1>7 DEF IsOrder
  <1> QED BY <1>8 DEF R

(* Of enough auctions the first ones have one median.                      *)
LEMMA MedianExists ==
  ASSUME NEW S, Placed(S), SEED_AUCTIONS <= Cardinality(S)
  PROVE  \E x \in S : Median(Seeds(S)) = {x}
  <1> DEFINE T == Seeds(S)
             R == {x \in T \X T : RankedBefore(x[1], x[2])}
  <1>1. SEED_AUCTIONS \in 1 .. Cardinality(S) /\ MEDIAN_RANK \in 1 .. SEED_AUCTIONS
    BY PlacedFinite, PricePeriodsAssumption
  <1>2. Cardinality(T) = SEED_AUCTIONS
    <2>1. PICK a \in S : \A b \in S : NumberIn(S, b) = SEED_AUCTIONS <=> b = a
      BY <1>1, Numbers
    <2>2. NumberIn(S, a) = SEED_AUCTIONS
      BY <2>1
    <2>3. T = UpTo(S, a)
      BY <2>2, Numbers DEF Seeds, UpTo
    <2> QED BY <2>2, <2>3 DEF NumberIn
  <1>3. T \subseteq S /\ Placed(T)
    BY DEF Seeds, Placed
  <1>4. IsFiniteSet(T)
    BY <1>3, PlacedFinite
  <1>5. \A s, t \in T : <<s, t>> \in R <=> RankedBefore(s, t)
    OBVIOUS
  <1>6. IsOrder(R, T)
    BY <1>3, RankingOrders
  <1> HIDE DEF R, T
  <1>7. PICK x \in T :
          \A y \in T : Cardinality(NotAbove(R, T, y)) = MEDIAN_RANK <=> y = x
    BY <1>1, <1>2, <1>4, <1>6, Ranks
  <1>8. \A y \in T : NotAbove(R, T, y) = {t \in T : RankedBefore(t, y)}
    BY <1>5 DEF NotAbove
  <1>9. Median(T) = {x}
    BY <1>7, <1>8 DEF Median
  <1> QED BY <1>3, <1>9 DEF T

(* Candidates come after the seeds, and are there only with all of them.   *)
LEMMA CandidatesAfterSeeds ==
  ASSUME NEW S, Placed(S), NEW q, NEW c \in Candidates(S, q)
  PROVE  /\ c \in S /\ AuctionQuarter(c) = q
         /\ SEED_AUCTIONS < NumberIn(S, c)
         /\ SEED_AUCTIONS <= Cardinality(S)
  <1>1. c \in S /\ c \notin Seeds(S) /\ AuctionQuarter(c) = q
    BY DEF Candidates
  <1>2. NumberIn(S, c) \in 1 .. Cardinality(S) /\ Cardinality(S) \in Nat
    BY <1>1, Numbers, PlacedFinite
  <1>3. ~(NumberIn(S, c) <= SEED_AUCTIONS)
    BY <1>1 DEF Seeds
  <1> QED BY <1>1, <1>2, <1>3, PricePeriodsAssumption

-----------------------------------------------------------------------------
(* The loop over the quarters, as a matter of the auctions A, those of     *)
(* them on the lists E, the parameters and the bound volumes.              *)

Passing(E, par, bnd, n) ==
  {a \in E : PassesMinLot(a.lot, par[AuctionQuarter(a)], bnd[AuctionQuarter(a)], n)}

FoundIn(b, q, S, bps) == Flagged(Candidates(S, q), Start(b, S), bps)

Advance(b, q, S, bps) ==
  [rows  |-> b.rows \cup FoundIn(b, q, S, bps),
   count |-> Cardinality(FoundIn(b, q, S, bps)),
   last  |-> LastOr(FoundIn(b, q, S, bps), b.last)]

Advances(B, q, E, par, bnd) ==
  {Advance(b, q, Passing(E, par, bnd, b.count), par[q].bps) : b \in B}

NothingYet == {[rows |-> {}, count |-> 0, last |-> {}]}

Unused(A, q) == \A a \in A : AuctionQuarter(a) # q

Loops(g, n, A, E, par, bnd) ==
  g = [q \in 0 .. n |->
         IF q = 0 THEN NothingYet
         ELSE IF Unused(A, q) THEN g[q - 1] ELSE Advances(g[q - 1], q, E, par, bnd)]

(* The same by steps.                                                      *)
LoopSteps(g, n, A, E, par, bnd) ==
  /\ g = [q \in 0 .. n |-> g[q]]
  /\ g[0] = NothingYet
  /\ \A q \in 1 .. n :
       /\ Unused(A, q) => g[q] = g[q - 1]
       /\ ~Unused(A, q) => g[q] = Advances(g[q - 1], q, E, par, bnd)

(* A solution of the recursion is one that goes by these steps.            *)
LEMMA LoopsUnfolded ==
  ASSUME NEW g, NEW n \in Nat, NEW A, NEW E, NEW par, NEW bnd
  PROVE  Loops(g, n, A, E, par, bnd) <=> LoopSteps(g, n, A, E, par, bnd)
  <1> DEFINE F == [q \in 0 .. n |->
         IF q = 0 THEN NothingYet
         ELSE IF Unused(A, q) THEN g[q - 1] ELSE Advances(g[q - 1], q, E, par, bnd)]
  <1>1. Loops(g, n, A, E, par, bnd) <=> g = F
    BY DEF Loops
  <1>2. 0 \in 0 .. n /\ \A q \in 1 .. n : q \in 0 .. n /\ q # 0
    OBVIOUS
  <1>3. F[0] = NothingYet
    BY <1>2
  <1>4. ASSUME NEW q \in 1 .. n
        PROVE  /\ Unused(A, q) => F[q] = g[q - 1]
               /\ ~Unused(A, q) => F[q] = Advances(g[q - 1], q, E, par, bnd)
    BY <1>2
  <1>5. F = [q \in 0 .. n |-> F[q]]
    OBVIOUS
  <1>6. \A q \in 0 .. n : q = 0 \/ q \in 1 .. n
    OBVIOUS
  <1> HIDE DEF F
  <1>7. ASSUME g = F PROVE LoopSteps(g, n, A, E, par, bnd)
    BY <1>3, <1>4, <1>5, <1>7 DEF LoopSteps
  <1>8. ASSUME LoopSteps(g, n, A, E, par, bnd) PROVE g = F
    <2>1. \A q \in 0 .. n : g[q] = F[q]
      BY <1>3, <1>4, <1>6, <1>8 DEF LoopSteps
    <2>2. g = [q \in 0 .. n |-> g[q]]
      BY <1>8 DEF LoopSteps
    <2> QED BY <1>5, <2>1, <2>2
  <1> QED BY <1>1, <1>7, <1>8

(* The recursion has a solution.                                           *)
LEMMA LoopsExist ==
  ASSUME NEW n \in Nat, NEW A, NEW E, NEW par, NEW bnd
  PROVE  \E g : Loops(g, n, A, E, par, bnd)
  <1> DEFINE G == {i \in 0 .. n : \E g : Loops(g, i, A, E, par, bnd)}
  <1>1. 0 \in G
    <2> DEFINE g == [q \in 0 .. 0 |-> NothingYet]
    <2>1. \A q \in 0 .. 0 : q = 0
      OBVIOUS
    <2>2. Loops(g, 0, A, E, par, bnd)
      BY <2>1 DEF Loops
    <2> HIDE DEF g
    <2> QED BY <2>2
  <1>2. ASSUME NEW i \in 1 .. n, i - 1 \in G PROVE i \in G
    <2>1. PICK h : Loops(h, i - 1, A, E, par, bnd)
      BY <1>2
    <2> DEFINE k == i - 1
               new == IF Unused(A, i) THEN h[k] ELSE Advances(h[k], i, E, par, bnd)
               g == [q \in 0 .. i |-> IF q = i THEN new ELSE h[q]]
    <2>2. k \in Nat /\ i \in Nat /\ i \in 0 .. i /\ k \in 0 .. i /\ k # i
          /\ 0 # i /\ 0 \in 0 .. i
      OBVIOUS
    <2>3. /\ h[0] = NothingYet
          /\ \A q \in 1 .. k :
               /\ Unused(A, q) => h[q] = h[q - 1]
               /\ ~Unused(A, q) => h[q] = Advances(h[q - 1], q, E, par, bnd)
      <3>1. LoopSteps(h, k, A, E, par, bnd)
        <4> HIDE DEF k
        <4> QED BY <2>1, <2>2, LoopsUnfolded DEF k
      <3> QED BY <3>1 DEF LoopSteps
    <2>4. \A q \in 1 .. k :
            q \in 0 .. i /\ q # i /\ q - 1 \in 0 .. i /\ q - 1 # i
      OBVIOUS
    <2>5. \A q \in 1 .. i : q \in 1 .. k \/ q = i
      OBVIOUS
    <2>6. g[0] = h[0] /\ g[k] = h[k] /\ g[i] = new
      BY <2>2
    <2>7. \A q \in 1 .. k : g[q] = h[q] /\ g[q - 1] = h[q - 1]
      BY <2>4
    <2>8. g = [q \in 0 .. i |-> g[q]]
      OBVIOUS
    <2> HIDE DEF g
    <2>9. ASSUME NEW q \in 1 .. i
          PROVE  /\ Unused(A, q) => g[q] = g[q - 1]
                 /\ ~Unused(A, q) => g[q] = Advances(g[q - 1], q, E, par, bnd)
      <3>1. CASE q \in 1 .. k
        BY <2>3, <2>7, <3>1
      <3>2. CASE q = i
        BY <2>6, <3>2
      <3> QED BY <2>5, <3>1, <3>2
    <2>10. LoopSteps(g, i, A, E, par, bnd)
      BY <2>3, <2>6, <2>8, <2>9 DEF LoopSteps
    <2>11. Loops(g, i, A, E, par, bnd)
      BY <2>2, <2>10, LoopsUnfolded
    <2> QED BY <2>11
  <1> HIDE DEF G
  <1>3. n \in G
    <2>1. \A i \in 0 .. n : i \in G
      BY <1>1, <1>2, Counting
    <2> QED BY <2>1
  <1> QED BY <1>3 DEF G

LastQuarter == QuarterOf(MaxEpoch)

(* The auctions on the lists, the parameters and the bound volumes, as the *)
(* tables have them.                                                       *)
Eligible(cs) ==
  {a \in auctions :
     /\ AuctionQuarter(a) > 0
     /\ Whitelisted(a, cs)
     /\ SqlParameter(AuctionQuarter(a)) # {}}

ParamsTable == [q \in 1 .. LastQuarter |-> Params(q)]

BoundTable == [q \in 1 .. LastQuarter |-> BoundBefore(q)]

(* Auctions belong to quarters of the chain.                               *)
LEMMA AuctionQuarters ==
  ASSUME NEW a \in Auction
  PROVE  /\ AuctionQuarter(a) \in 0 .. LastQuarter
         /\ LastQuarter \in Nat
  <1>1. a.at.epoch \in 0 .. MaxEpoch
    BY DEF Auction, EventPosition
  <1> QED BY <1>1, QuarterMonotone, QuarterType, AdmittedListsAssumption
          DEF AuctionQuarter, LastQuarter

(* What clears the minimum lot, by the tables.                             *)
LEMMA SubstantialIs ==
  ASSUME PeriodsIInv, NEW n, NEW cs
  PROVE  Substantial(n, cs) = Passing(Eligible(cs), ParamsTable, BoundTable, n)
  <1>1. \A a \in auctions : AuctionQuarter(a) > 0 => AuctionQuarter(a) \in 1 .. LastQuarter
    BY AuctionQuarters DEF PeriodsIInv
  <1> QED BY <1>1 DEF Substantial, Passing, Eligible, ParamsTable, BoundTable

(* A round of the loop as it is written.                                   *)
LEMMA RoundIs ==
  ASSUME PeriodsIInv, NEW cs, NEW q \in 1 .. LastQuarter, NEW b
  PROVE  Round(b, q, cs)
           = {Advance(b, q, Passing(Eligible(cs), ParamsTable, BoundTable, b.count),
                      ParamsTable[q].bps)}
  <1> DEFINE S == Passing(Eligible(cs), ParamsTable, BoundTable, b.count)
             found == FoundIn(b, q, S, Params(q).bps)
  <1>1. Substantial(b.count, cs) = S
    BY SubstantialIs
  <1>2. Found(b, q, S) = found
    BY DEF Found, FoundIn
  <1>3. Round(b, q, cs) =
          {[rows  |-> b.rows \cup rows,
            count |-> Cardinality(rows),
            last  |-> IF rows = {} THEN b.last ELSE LastIn(rows)] : rows \in {found}}
    <2>1. {Found(b, q, T) : T \in {Substantial(b.count, cs)}} = {found}
      BY <1>1, <1>2
    <2> QED BY <2>1 DEF Round
  <1>4. ParamsTable[q] = Params(q)
    BY DEF ParamsTable
  <1> QED BY <1>3, <1>4 DEF Advance, LastOr

(* What QualifyingPricePeriods takes is a solution of the recursion.       *)
LEMMA QualifyingUnfolded ==
  ASSUME PeriodsIInv, NEW cs
  PROVE  \E g : /\ Loops(g, LastQuarter, auctions, Eligible(cs), ParamsTable, BoundTable)
                /\ QualifyingPricePeriods(cs) = UNION {b.rows : b \in g[LastQuarter]}
  <1> DEFINE Written(g) ==
               g = [q \in 0 .. LastQuarter |->
                      IF q = 0 THEN NothingYet
                      ELSE IF Unused(auctions, q) THEN g[q - 1]
                      ELSE UNION {Round(before, q, cs) : before \in g[q - 1]}]
             Solves(g) == Loops(g, LastQuarter, auctions, Eligible(cs), ParamsTable, BoundTable)
             loop == CHOOSE g : Written(g)
  <1>1. LastQuarter \in Nat
    BY QuarterType, AdmittedListsAssumption DEF LastQuarter
  <1>2. ASSUME NEW q \in 1 .. LastQuarter, NEW B
        PROVE  UNION {Round(before, q, cs) : before \in B}
                 = Advances(B, q, Eligible(cs), ParamsTable, BoundTable)
    <2>1. \A b \in B :
            Round(b, q, cs)
              = {Advance(b, q, Passing(Eligible(cs), ParamsTable, BoundTable, b.count),
                         ParamsTable[q].bps)}
      BY RoundIs
    <2> QED BY <2>1 DEF Advances
  <1>3. ASSUME NEW g PROVE Written(g) <=> Solves(g)
    <2> DEFINE W == [q \in 0 .. LastQuarter |->
                      IF q = 0 THEN NothingYet
                      ELSE IF Unused(auctions, q) THEN g[q - 1]
                      ELSE UNION {Round(before, q, cs) : before \in g[q - 1]}]
               F == [q \in 0 .. LastQuarter |->
                      IF q = 0 THEN NothingYet
                      ELSE IF Unused(auctions, q) THEN g[q - 1]
                      ELSE Advances(g[q - 1], q, Eligible(cs), ParamsTable, BoundTable)]
    <2>1. \A q \in 0 .. LastQuarter : q # 0 => q \in 1 .. LastQuarter
      BY <1>1
    <2>2. \A q \in 1 .. LastQuarter :
            UNION {Round(before, q, cs) : before \in g[q - 1]}
              = Advances(g[q - 1], q, Eligible(cs), ParamsTable, BoundTable)
      BY <1>2
    <2>3. W = F
      BY <2>1, <2>2
    <2>4. Written(g) <=> g = W
      OBVIOUS
    <2>5. Solves(g) <=> g = F
      BY DEF Loops
    <2> QED BY <2>3, <2>4, <2>5
  <1>4. \E g : Solves(g)
    BY <1>1, LoopsExist
  <1> HIDE DEF Solves
  <1>5. \E g : Written(g)
    BY <1>3, <1>4
  <1>6. Written(loop)
    <2> HIDE DEF Written
    <2> QED BY <1>5
  <1>7. Solves(loop)
    BY <1>3, <1>6
  <1>8. Loop(cs) = loop[LastQuarter]
    BY DEF Loop, LastQuarter, NothingYet, Unused
  <1> HIDE DEF loop
  <1>9. QualifyingPricePeriods(cs) = UNION {b.rows : b \in loop[LastQuarter]}
    BY <1>8 DEF QualifyingPricePeriods
  <1> QED BY <1>7, <1>9 DEF Solves

-----------------------------------------------------------------------------
(* What the loop finds.                                                    *)

(* The last quarter before q with an auction.                              *)
LastUsed(A, q) ==
  LET earlier == {AuctionQuarter(a) : a \in A} \cap 1 .. (q - 1)
  IN  {r \in earlier : \A s \in earlier : s <= r}

CountOf(A, rows, q) ==
  Cardinality({d \in rows : AuctionQuarter(d) \in LastUsed(A, q)})

(* The rule of PeriodsByRule for an auction.                               *)
ByRule(rows, A, E, par, bnd, a) ==
  LET q == AuctionQuarter(a)
      S == Passing(E, par, bnd, CountOf(A, rows, q))
  IN  a \in rows
        <=> /\ a \in S \ Seeds(S)
            /\ \E x \in AnchorOf(rows, Median(Seeds(S)), a) : PassesBand(a, x, par[q].bps)

(* After quarter q all its auctions and those of earlier quarters have     *)
(* been decided by the rule, and the loop carries on what the rule needs.  *)
RoundsDone(b, q, A, E, par, bnd) ==
  /\ b.rows \subseteq {a \in E : AuctionQuarter(a) <= q}
  /\ b.count = CountOf(A, b.rows, q + 1)
  /\ b.last = LastOr(b.rows, {})
  /\ \A a \in A : AuctionQuarter(a) \in 1 .. q => ByRule(b.rows, A, E, par, bnd, a)

(* The last quarter with auctions, quarter by quarter.                     *)
LEMMA LastUsedIs ==
  ASSUME NEW A, Placed(A), NEW q \in Nat \ {0}
  PROVE  /\ \A r \in LastUsed(A, q) : r \in 1 .. q - 1
         /\ ~Unused(A, q) => LastUsed(A, q + 1) = {q}
         /\ Unused(A, q) => LastUsed(A, q + 1) = LastUsed(A, q)
  <1>1. \A a \in A : AuctionQuarter(a) \in Nat
    BY AuctionTypes DEF Placed
  <1> DEFINE U == {AuctionQuarter(a) : a \in A}
  <1>2. U \subseteq Nat /\ (Unused(A, q) <=> q \notin U)
    BY <1>1 DEF Unused
  <1>3. /\ LastUsed(A, q) = {r \in U \cap 1 .. q - 1 : \A s \in U \cap 1 .. q - 1 : s <= r}
        /\ LastUsed(A, q + 1) = {r \in U \cap 1 .. q : \A s \in U \cap 1 .. q : s <= r}
    <2>1. (q + 1) - 1 = q
      OBVIOUS
    <2> QED BY <2>1 DEF LastUsed
  <1> HIDE DEF U
  <1>4. q \notin U => U \cap 1 .. q = U \cap 1 .. q - 1
    OBVIOUS
  <1>5. q \in U => {r \in U \cap 1 .. q : \A s \in U \cap 1 .. q : s <= r} = {q}
    OBVIOUS
  <1> QED BY <1>2, <1>3, <1>4, <1>5

(* Auctions of an earlier quarter come before those of a later one.        *)
LEMMA QuartersInOrder ==
  ASSUME NEW a \in Auction, NEW b \in Auction
  PROVE  /\ AtOrBefore(a.at, b.at) => AuctionQuarter(a) <= AuctionQuarter(b)
         /\ AuctionQuarter(a) < AuctionQuarter(b)
              => Before(a.at, b.at) /\ ~Before(b.at, a.at)
  <1>1. /\ a.at \in Position /\ b.at \in Position
        /\ AuctionQuarter(a) \in Nat /\ AuctionQuarter(b) \in Nat
    BY AuctionTypes
  <1>2. AtOrBefore(a.at, b.at) => AuctionQuarter(a) <= AuctionQuarter(b)
    BY <1>1, PositionQuarters DEF AuctionQuarter
  <1>3. AtOrBefore(b.at, a.at) => AuctionQuarter(b) <= AuctionQuarter(a)
    BY <1>1, PositionQuarters DEF AuctionQuarter
  <1>4. /\ AtOrBefore(b.at, a.at) <=> ~Before(a.at, b.at)
        /\ Before(b.at, a.at) => AtOrBefore(b.at, a.at)
    BY <1>1, PositionsCompared
  <1> QED BY <1>1, <1>2, <1>3, <1>4

(* What a round finds.                                                     *)
LEMMA RoundFinds ==
  ASSUME NEW S, Placed(S), NEW q, NEW bps, NEW b,
         b.last = {} \/ \E x : b.last = {x}
  PROVE  /\ FoundIn(b, q, S, bps) \subseteq Candidates(S, q)
         /\ \A a \in Candidates(S, q) :
              a \in FoundIn(b, q, S, bps)
                <=> \E x \in AnchorOf(FoundIn(b, q, S, bps), Start(b, S), a) :
                      PassesBand(a, x, bps)
  <1>1. CASE Candidates(S, q) = {}
    BY <1>1, NothingFlagged DEF FoundIn
  <1>2. CASE Candidates(S, q) # {}
    <2>1. Candidates(S, q) \subseteq S /\ Placed(Candidates(S, q))
      BY DEF Candidates, Placed
    <2>2. SEED_AUCTIONS <= Cardinality(S)
      BY <1>2, CandidatesAfterSeeds
    <2>3. \E x : Median(Seeds(S)) = {x}
      BY <2>2, MedianExists
    <2>4. \E x : Start(b, S) = {x}
      BY <2>3 DEF Start
    <2> QED BY <2>1, <2>4, FlaggedByRule DEF FoundIn
  <1> QED BY <1>1, <1>2

(* A quarter without auctions changes nothing.                             *)
LEMMA QuarterSkipped ==
  ASSUME NEW A, Placed(A), NEW E, NEW par, NEW bnd, NEW q \in Nat \ {0},
         Unused(A, q), E \subseteq A,
         NEW b, RoundsDone(b, q - 1, A, E, par, bnd)
  PROVE  RoundsDone(b, q, A, E, par, bnd)
  <1>1. \A a \in A : AuctionQuarter(a) \in Nat /\ AuctionQuarter(a) # q
    BY AuctionTypes DEF Placed, Unused
  <1>2. LastUsed(A, q + 1) = LastUsed(A, q) /\ (q - 1) + 1 = q
    BY LastUsedIs
  <1>3. b.rows \subseteq {a \in E : AuctionQuarter(a) <= q}
    BY <1>1 DEF RoundsDone
  <1>4. b.count = CountOf(A, b.rows, q + 1)
    BY <1>2 DEF RoundsDone, CountOf
  <1>5. \A a \in A : AuctionQuarter(a) \in 1 .. q => AuctionQuarter(a) \in 1 .. q - 1
    BY <1>1
  <1> QED BY <1>3, <1>4, <1>5 DEF RoundsDone

(* A round decides the auctions of its quarter and no others.              *)
LEMMA RoundStep ==
  ASSUME NEW A, Placed(A), NEW E, NEW par, NEW bnd, NEW q \in Nat \ {0},
         ~Unused(A, q), E \subseteq A, \A a \in E : AuctionQuarter(a) > 0,
         NEW b, RoundsDone(b, q - 1, A, E, par, bnd)
  PROVE  RoundsDone(Advance(b, q, Passing(E, par, bnd, b.count), par[q].bps),
                    q, A, E, par, bnd)
  <1> DEFINE S == Passing(E, par, bnd, b.count)
             F == FoundIn(b, q, S, par[q].bps)
             c == Advance(b, q, S, par[q].bps)
             start == Start(b, S)
             R == b.rows
  <1>1. A \subseteq Auction /\ \A a \in A : a.at \in Position /\ AuctionQuarter(a) \in Nat
    BY AuctionTypes DEF Placed
  <1>2. S \subseteq E /\ Placed(S) /\ Placed(R) /\ R \subseteq E
    BY DEF Passing, Placed, RoundsDone
  <1>3. R = {} \/ \E a \in R : LastIn(R) = {a} /\ \A d \in R : AtOrBefore(d.at, a.at)
    BY <1>2, HasLast
  <1>4. b.last = {} \/ \E x : b.last = {x}
    BY <1>3 DEF RoundsDone, LastOr
  <1>5. /\ F \subseteq Candidates(S, q)
        /\ \A a \in Candidates(S, q) :
             a \in F <=> \E x \in AnchorOf(F, start, a) : PassesBand(a, x, par[q].bps)
    BY <1>2, <1>4, RoundFinds
  <1>6. c.rows = R \cup F /\ c.count = Cardinality(F) /\ c.last = LastOr(F, b.last)
    BY DEF Advance
  <1>7. \A d \in R : d \in E /\ AuctionQuarter(d) \in 1 .. q - 1
    BY <1>1 DEF RoundsDone
  <1>8. \A d \in F : d \in E /\ AuctionQuarter(d) = q
    BY <1>2, <1>5 DEF Candidates
  <1>9. b.count = CountOf(A, R, q) /\ b.last = LastOr(R, {})
    <2>1. (q - 1) + 1 = q
      OBVIOUS
    <2> QED BY <2>1 DEF RoundsDone
  <1>10. \A a \in Candidates(S, q) : a \in E /\ AuctionQuarter(a) = q
    BY <1>2 DEF Candidates
  <1> HIDE DEF F, c, R
  <1>11. Placed(F) /\ Placed(c.rows) /\ c.rows \subseteq E
    BY <1>1, <1>6, <1>7, <1>8 DEF Placed
  <1>12. ASSUME NEW r \in 1 .. q PROVE CountOf(A, c.rows, r) = CountOf(A, R, r)
    <2>1. \A s \in LastUsed(A, r) : s # q
      BY LastUsedIs
    <2>2. {d \in c.rows : AuctionQuarter(d) \in LastUsed(A, r)}
            = {d \in R : AuctionQuarter(d) \in LastUsed(A, r)}
      BY <1>6, <1>8, <2>1
    <2> QED BY <2>2 DEF CountOf
  <1>13. c.rows \subseteq {a \in E : AuctionQuarter(a) <= q}
    BY <1>6, <1>7, <1>8
  <1>14. c.count = CountOf(A, c.rows, q + 1)
    <2>1. LastUsed(A, q + 1) = {q}
      BY LastUsedIs
    <2>2. {d \in c.rows : AuctionQuarter(d) \in LastUsed(A, q + 1)} = F
      BY <1>6, <1>7, <1>8, <2>1
    <2> QED BY <1>6, <2>2 DEF CountOf
  <1>15. \A d \in R, a \in A :
           AuctionQuarter(a) = q => Before(d.at, a.at) /\ ~Before(a.at, d.at)
    <2> SUFFICES ASSUME NEW d \in R, NEW a \in A, AuctionQuarter(a) = q
                 PROVE  Before(d.at, a.at) /\ ~Before(a.at, d.at)
      OBVIOUS
    <2>1. d \in Auction /\ a \in Auction /\ AuctionQuarter(d) < AuctionQuarter(a)
      BY <1>1, <1>7
    <2> QED BY <2>1, QuartersInOrder
  <1>16. ASSUME NEW G \in SUBSET F, G # {} PROVE LastIn(R \cup G) = LastIn(G)
    <2>1. Placed(G)
      BY <1>11 DEF Placed
    <2>2. PICK a \in G : LastIn(G) = {a} /\ \A d \in G : AtOrBefore(d.at, a.at)
      BY <1>16, <2>1, HasLast
    <2>3. \A d \in R : AtOrBefore(d.at, a.at)
      BY <1>1, <1>7, <1>8, <1>15, PositionsCompared
    <2>4. Placed(R \cup G)
      BY <1>6, <1>11 DEF Placed
    <2>5. LastIn(R \cup G) = {a}
      BY <2>2, <2>3, <2>4, LastInIs
    <2> QED BY <2>2, <2>5
  <1>17. c.last = LastOr(c.rows, {})
    <2>1. CASE F = {}
      BY <1>6, <1>9, <2>1 DEF LastOr
    <2>2. CASE F # {}
      BY <1>6, <1>16, <2>2 DEF LastOr
    <2> QED BY <2>1, <2>2
  <1>18. ASSUME NEW a \in A, AuctionQuarter(a) \in 1 .. q - 1
         PROVE  ByRule(c.rows, A, E, par, bnd, a)
    <2>1. ByRule(R, A, E, par, bnd, a)
      BY <1>18 DEF RoundsDone, R
    <2>2. \A d \in F : ~Before(d.at, a.at)
      <3> SUFFICES ASSUME NEW d \in F PROVE ~Before(d.at, a.at)
        OBVIOUS
      <3>1. d \in Auction /\ a \in Auction /\ AuctionQuarter(a) < AuctionQuarter(d)
        BY <1>1, <1>8, <1>18
      <3> QED BY <3>1, QuartersInOrder
    <2>3. {d \in c.rows : Before(d.at, a.at)} = {d \in R : Before(d.at, a.at)}
      BY <1>6, <2>2
    <2>4. a \in c.rows <=> a \in R
      BY <1>6, <1>8, <1>18
    <2>5. CountOf(A, c.rows, AuctionQuarter(a)) = CountOf(A, R, AuctionQuarter(a))
      BY <1>12, <1>18
    <2> QED BY <2>1, <2>3, <2>4, <2>5 DEF ByRule, AnchorOf
  <1>19. ASSUME NEW a \in A, AuctionQuarter(a) = q
         PROVE  ByRule(c.rows, A, E, par, bnd, a)
    <2>1. CountOf(A, c.rows, q) = b.count
      BY <1>9, <1>12
    <2>2. Passing(E, par, bnd, CountOf(A, c.rows, q)) = S
      BY <2>1
    <2> HIDE DEF S
    <2>3. a \in S \ Seeds(S) <=> a \in Candidates(S, q)
      BY <1>19 DEF Candidates
    <2>4. a \in c.rows <=> a \in F
      BY <1>6, <1>7, <1>19
    <2> DEFINE G == {d \in F : Before(d.at, a.at)}
    <2>5. {d \in c.rows : Before(d.at, a.at)} = R \cup G
      BY <1>6, <1>15, <1>19
    <2>6. AnchorOf(c.rows, Median(Seeds(S)), a) = LastOr(R \cup G, Median(Seeds(S)))
      BY <2>5 DEF AnchorOf
    <2>7. AnchorOf(F, start, a) = LastOr(G, start)
      BY DEF AnchorOf
    <2>8. start = IF b.last # {} THEN b.last ELSE Median(Seeds(S))
      BY DEF Start
    <2>9. R # {} => LastIn(R) # {} /\ b.last = LastIn(R)
      BY <1>3, <1>9 DEF LastOr
    <2>10. R = {} => b.last = {}
      BY <1>9 DEF LastOr
    <2> HIDE DEF start
    <2>11. LastOr(R \cup G, Median(Seeds(S))) = LastOr(G, start)
      <3>1. CASE G = {}
        BY <2>8, <2>9, <2>10, <3>1 DEF LastOr
      <3>2. CASE G # {}
        <4>1. LastIn(R \cup G) = LastIn(G)
          BY <1>16, <3>2
        <4> QED BY <3>2, <4>1 DEF LastOr
      <3> QED BY <3>1, <3>2
    <2>12. a \in F <=> /\ a \in Candidates(S, q)
                       /\ \E x \in AnchorOf(F, start, a) : PassesBand(a, x, par[q].bps)
      BY <1>5
    <2> QED BY <1>19, <2>2, <2>3, <2>4, <2>6, <2>7, <2>11, <2>12 DEF ByRule
  <1>20. \A a \in A : AuctionQuarter(a) \in 1 .. q => ByRule(c.rows, A, E, par, bnd, a)
    BY <1>18, <1>19
  <1>21. RoundsDone(c, q, A, E, par, bnd)
    BY <1>13, <1>14, <1>17, <1>20 DEF RoundsDone
  <1> QED BY <1>21 DEF c

(* Quarter after quarter, the loop holds to the rule.                      *)
LEMMA LoopDone ==
  ASSUME NEW A, Placed(A), NEW E, NEW par, NEW bnd, NEW n \in Nat,
         E \subseteq A, \A a \in E : AuctionQuarter(a) > 0,
         NEW g, Loops(g, n, A, E, par, bnd)
  PROVE  \A q \in 0 .. n : \E b : g[q] = {b} /\ RoundsDone(b, q, A, E, par, bnd)
  <1> DEFINE G == {q \in 0 .. n : \E b : g[q] = {b} /\ RoundsDone(b, q, A, E, par, bnd)}
  <1>1. LoopSteps(g, n, A, E, par, bnd)
    BY LoopsUnfolded
  <1>2. 0 \in G
    <2> DEFINE b == [rows |-> {}, count |-> 0, last |-> {}]
    <2>1. g[0] = {b}
      BY <1>1 DEF LoopSteps, NothingYet
    <2>2. b.count = CountOf(A, b.rows, 0 + 1)
      <3>1. {d \in {} : AuctionQuarter(d) \in LastUsed(A, 0 + 1)} = {}
        OBVIOUS
      <3> QED BY <3>1, FS_EmptySet DEF CountOf
    <2>3. \A q \in 1 .. 0 : FALSE
      OBVIOUS
    <2>4. RoundsDone(b, 0, A, E, par, bnd)
      <3>1. b.rows = {} /\ b.last = {}
        OBVIOUS
      <3> HIDE DEF b
      <3> QED BY <2>2, <2>3, <3>1 DEF RoundsDone, LastOr
    <2> HIDE DEF b
    <2> QED BY <2>1, <2>4
  <1>3. ASSUME NEW q \in 1 .. n, q - 1 \in G PROVE q \in G
    <2>1. PICK b : g[q - 1] = {b} /\ RoundsDone(b, q - 1, A, E, par, bnd)
      BY <1>3
    <2>2. q \in Nat \ {0} /\ q \in 0 .. n
      OBVIOUS
    <2>3. CASE Unused(A, q)
      <3>1. g[q] = {b}
        BY <1>1, <2>1, <2>3 DEF LoopSteps
      <3>2. RoundsDone(b, q, A, E, par, bnd)
        BY <2>1, <2>2, <2>3, QuarterSkipped
      <3> QED BY <2>2, <3>1, <3>2
    <2>4. CASE ~Unused(A, q)
      <3> DEFINE c == Advance(b, q, Passing(E, par, bnd, b.count), par[q].bps)
      <3>1. g[q] = {c}
        <4>1. g[q] = Advances(g[q - 1], q, E, par, bnd)
          BY <1>1, <2>4 DEF LoopSteps
        <4> QED BY <2>1, <4>1 DEF Advances
      <3>2. RoundsDone(c, q, A, E, par, bnd)
        BY <2>1, <2>2, <2>4, RoundStep
      <3> HIDE DEF c
      <3> QED BY <2>2, <3>1, <3>2
    <2> QED BY <2>3, <2>4
  <1> HIDE DEF G
  <1>4. \A q \in 0 .. n : q \in G
    BY <1>2, <1>3, Counting
  <1> QED BY <1>4 DEF G

(* The tables as they are give the loop what it supposes.                  *)
LEMMA EligiblePlaced ==
  ASSUME PeriodsIInv, NEW cs
  PROVE  /\ Placed(auctions)
         /\ Eligible(cs) \subseteq auctions
         /\ \A a \in Eligible(cs) : AuctionQuarter(a) > 0
         /\ LastQuarter \in Nat
  <1>1. LastQuarter \in Nat
    BY QuarterType, AdmittedListsAssumption DEF LastQuarter
  <1> QED BY <1>1 DEF PeriodsIInv, Placed, Eligible

(* Whatever the rows of the contracts, the SQL function returns auctions,  *)
(* and decides about each by the rule.                                     *)
LEMMA QualifyingByRule ==
  ASSUME PeriodsIInv, NEW cs
  PROVE  /\ QualifyingPricePeriods(cs) \subseteq Eligible(cs)
         /\ \A a \in auctions :
              AuctionQuarter(a) > 0
                => ByRule(QualifyingPricePeriods(cs), auctions, Eligible(cs),
                          ParamsTable, BoundTable, a)
  <1>1. PICK g : /\ Loops(g, LastQuarter, auctions, Eligible(cs), ParamsTable, BoundTable)
                 /\ QualifyingPricePeriods(cs) = UNION {b.rows : b \in g[LastQuarter]}
    BY QualifyingUnfolded
  <1>2. \A q \in 0 .. LastQuarter :
          \E b : g[q] = {b}
                 /\ RoundsDone(b, q, auctions, Eligible(cs), ParamsTable, BoundTable)
    BY <1>1, EligiblePlaced, LoopDone
  <1>3. LastQuarter \in 0 .. LastQuarter
    BY EligiblePlaced
  <1>4. PICK b : /\ g[LastQuarter] = {b}
                 /\ RoundsDone(b, LastQuarter, auctions, Eligible(cs), ParamsTable, BoundTable)
    BY <1>2, <1>3
  <1>5. QualifyingPricePeriods(cs) = b.rows
    BY <1>1, <1>4
  <1>6. \A a \in auctions : AuctionQuarter(a) > 0 => AuctionQuarter(a) \in 1 .. LastQuarter
    BY AuctionQuarters DEF PeriodsIInv
  <1> QED BY <1>4, <1>5, <1>6 DEF RoundsDone

-----------------------------------------------------------------------------
(* The view.                                                               *)

(* What the function returns, of all rows of the contracts and of those    *)
(* there were before the last event.                                       *)
Current == QualifyingPricePeriods(contracts)

BeforeNewContracts == QualifyingPricePeriods({r \in contracts : r.from # pos})

AuctionsReturned == Current \subseteq auctions /\ BeforeNewContracts \subseteq auctions

(* It returns auctions of the table, whatever the rows of the contracts.   *)
LEMMA ReturnsAuctions == PeriodsIInv => AuctionsReturned
  BY QualifyingByRule, EligiblePlaced DEF AuctionsReturned, Current, BeforeNewContracts

(* A step leaves the view or computes it anew.                             *)
LEMMA ViewWritten ==
  ASSUME [PeriodsNext]_periodVars
  PROVE  /\ auctions \subseteq auctions'
         /\ view' \in {view, Current', BeforeNewContracts'}
  <1>1. CASE \E a \in Auction : AuctionIndexed(a)
    BY <1>1 DEF AuctionIndexed, Refresh, Current
  <1>2. CASE \E a \in Auction : AuctionSkipped(a)
    BY <1>2 DEF AuctionSkipped
  <1>3. CASE ConfigSeeded
    BY <1>3 DEF ConfigSeeded, Refresh, Current
  <1>4. CASE \E p \in EventPosition, cs \in SUBSET PayContracts,
                ts \in SUBSET Stablecoins : ListsWritten(cs, ts, p)
    <2>1. PICK p \in EventPosition, cs \in SUBSET PayContracts,
               ts \in SUBSET Stablecoins : ListsWritten(cs, ts, p)
      BY <1>4
    <2> DEFINE removed == {r \in Open(tokens) : r.entry \notin ts}
               added   == (ts \ NotERC20) \ Entries(Open(tokens))
    <2>2. auctions' = auctions
      BY <2>1 DEF ListsWritten
    <2>3. view' = CASE added # {} -> Current'
                    [] added = {} /\ removed # {} -> BeforeNewContracts'
                    [] OTHER -> view
      BY <2>1 DEF ListsWritten, Current, BeforeNewContracts
    <2> HIDE DEF added, removed
    <2> QED BY <2>2, <2>3
  <1>5. CASE \E p \in EventPosition, v \in Values : ParametersWritten(v, p)
    BY <1>5 DEF ParametersWritten, Refresh, Current
  <1>6. CASE \E p \in EventPosition, q \in Quarters, v \in Volumes : SharesSubmitted(q, v, p)
    BY <1>6 DEF SharesSubmitted, Refresh, Current
  <1>7. CASE UNCHANGED periodVars
    BY <1>7 DEF periodVars
  <1> QED BY <1>1, <1>2, <1>3, <1>4, <1>5, <1>6, <1>7 DEF PeriodsNext

(* The view is of auctions in the table, and all else has its type.        *)
THEOREM PeriodsTypeCorrect == PeriodsSpec => []PeriodsTypeOK
  <1>1. PeriodsInit => PeriodsTypeOK
    BY InitInvariant DEF PeriodsInit, PeriodsTypeOK, IInv
  <1>2. PeriodsIInv' => AuctionsReturned'
    BY ReturnsAuctions, PTL
  <1>3. PeriodsTypeOK /\ PeriodsIInv' /\ [PeriodsNext]_periodVars => PeriodsTypeOK'
    BY <1>2, ViewWritten DEF PeriodsTypeOK, PeriodsIInv, IInv, AuctionsReturned
  <1> QED BY <1>1, <1>3, PeriodsInvariant, PTL DEF PeriodsSpec

(* Where the quarter before has auctions, or no quarter has, the loop      *)
(* carries the number of periods of the quarter before.                    *)
LEMMA CarriedIsBefore ==
  ASSUME NEW q \in Int, view \subseteq auctions, ~QuietBefore(q),
         \A d \in view : AuctionQuarter(d) \in Nat,
         q > 1 \/ \A d \in view : AuctionQuarter(d) # 0
  PROVE  CarriedCount(q) = CountBefore(q)
  <1>1. CASE LastQuarterBefore(q) = {q - 1}
    <2>1. RowsOf(q - 1) = {d \in view : AuctionQuarter(d) \in LastQuarterBefore(q)}
      BY <1>1 DEF RowsOf
    <2> QED BY <2>1 DEF CountBefore, CarriedCount
  <1>2. CASE LastQuarterBefore(q) = {}
    <2>1. {d \in view : AuctionQuarter(d) \in LastQuarterBefore(q)} = {}
      BY <1>2
    <2>2. ASSUME NEW d \in RowsOf(q - 1) PROVE FALSE
      <3>1. d \in auctions /\ AuctionQuarter(d) = q - 1 /\ q - 1 \in Nat \ {0}
        BY <2>2 DEF RowsOf
      <3>2. q - 1 \in LastQuarterBefore(q)
        BY <3>1 DEF LastQuarterBefore
      <3> QED BY <3>2, <1>2
    <2>3. RowsOf(q - 1) = {}
      BY <2>2
    <2> QED BY <2>1, <2>3 DEF CountBefore, CarriedCount
  <1> QED BY <1>1, <1>2 DEF QuietBefore

(* Every auction opens a period or not by the rule.                        *)
THEOREM RuleDecides == PeriodsSpec => []PeriodsByRule
  <1>1. PeriodsIInv => PeriodsByRule
    <2> SUFFICES ASSUME PeriodsIInv, view = QualifyingPricePeriods(contracts)
                 PROVE  PeriodsByRule
      BY DEF PeriodsByRule
    <2> DEFINE E == Eligible(contracts)
    <2>1. view \subseteq E /\ E \subseteq auctions
      BY QualifyingByRule, EligiblePlaced
    <2>2. ASSUME NEW a \in auctions
          PROVE  a \in view <=> OpensPeriod(a, CarriedCount(AuctionQuarter(a)))
      <3> DEFINE q == AuctionQuarter(a)
                 S == Substantial(CarriedCount(q), contracts)
      <3>0. OpensPeriod(a, CarriedCount(q)) <=>
              /\ a \in S \ Seeds(S)
              /\ \E x \in AnchorOf(view, Median(Seeds(S)), a) : PassesBand(a, x, Params(q).bps)
        BY DEF OpensPeriod, AnchorOf, LastOr
      <3>1. q \in 0 .. LastQuarter
        BY AuctionQuarters DEF PeriodsIInv
      <3>2. CASE q = 0
        <4>1. a \notin E /\ a \notin S
          BY <3>2 DEF Eligible, Substantial
        <4> QED BY <2>1, <3>0, <4>1
      <3>3. CASE q # 0
        <4>1. q > 0 /\ q \in 1 .. LastQuarter
          BY <3>1, <3>3
        <4>2. ByRule(view, auctions, E, ParamsTable, BoundTable, a)
          BY <4>1, QualifyingByRule
        <4>3. LastUsed(auctions, q) = LastQuarterBefore(q)
          BY DEF LastUsed, LastQuarterBefore
        <4>4. CountOf(auctions, view, q) = CarriedCount(q)
          BY <4>3 DEF CountOf, CarriedCount
        <4>5. Passing(E, ParamsTable, BoundTable, CountOf(auctions, view, q)) = S
          BY <4>4, SubstantialIs
        <4>6. ParamsTable[q] = Params(q)
          BY <4>1 DEF ParamsTable
        <4>7. a \in view <=>
                /\ a \in S \ Seeds(S)
                /\ \E x \in AnchorOf(view, Median(Seeds(S)), a) : PassesBand(a, x, Params(q).bps)
          <5> HIDE DEF S, E
          <5> QED BY <4>2, <4>5, <4>6 DEF ByRule
        <4> QED BY <4>7, <3>0
      <3> QED BY <3>2, <3>3
    <2>3. ASSUME NEW a \in auctions, ~QuietBefore(AuctionQuarter(a))
          PROVE  CarriedCount(AuctionQuarter(a)) = CountBefore(AuctionQuarter(a))
      <3>1. \A d \in auctions : AuctionQuarter(d) \in Nat
        BY AuctionQuarters DEF PeriodsIInv
      <3>2. \A d \in view : AuctionQuarter(d) # 0
        BY <2>1 DEF Eligible
      <3> QED BY <3>1, <3>2, <2>1, <2>3, CarriedIsBefore
    <2> QED BY <2>2, <2>3 DEF PeriodsByRule
  <1> QED BY <1>1, PeriodsInvariant, PTL

-----------------------------------------------------------------------------
(* What the periods of a quarter depend on: on the auctions, lists,        *)
(* parameters and bound volumes up to it, and on nothing later.            *)

(* The part of a set of auctions up to a quarter.                          *)
Up(S, q) == {a \in S : AuctionQuarter(a) <= q}

(* Numbers are the same when later auctions are added.                     *)
LEMMA SameNumbers ==
  ASSUME NEW S, Placed(S), NEW T, Placed(T), NEW q \in Nat, Up(S, q) = Up(T, q),
         NEW a \in Up(S, q)
  PROVE  a \in T /\ NumberIn(S, a) = NumberIn(T, a)
  <1>1. a \in S /\ a \in T /\ AuctionQuarter(a) <= q
    BY DEF Up
  <1>2. S \subseteq Auction /\ T \subseteq Auction
    BY DEF Placed
  <1>3. \A b \in S \cup T : AtOrBefore(b.at, a.at) => AuctionQuarter(b) <= q
    <2> SUFFICES ASSUME NEW b \in S \cup T, AtOrBefore(b.at, a.at)
                 PROVE  AuctionQuarter(b) <= q
      OBVIOUS
    <2>1. a \in Auction /\ b \in Auction
      BY <1>1, <1>2
    <2>2. AuctionQuarter(b) <= AuctionQuarter(a)
      BY <2>1, QuartersInOrder
    <2>3. AuctionQuarter(a) \in Nat /\ AuctionQuarter(b) \in Nat
      BY <2>1, AuctionTypes
    <2> QED BY <1>1, <2>2, <2>3
  <1>4. UpTo(S, a) = UpTo(T, a)
    BY <1>3 DEF UpTo, Up
  <1> QED BY <1>1, <1>4 DEF NumberIn

(* Seeds that precede a candidate of the quarter are seeds in both.        *)
LEMMA SeedsStay ==
  ASSUME NEW S, Placed(S), NEW T, Placed(T), NEW q \in Nat, Up(S, q) = Up(T, q),
         NEW c \in Candidates(S, q)
  PROVE  Seeds(S) \subseteq Seeds(T)
  <1> SUFFICES ASSUME NEW a \in Seeds(S) PROVE a \in Seeds(T)
    OBVIOUS
  <1>1. a \in S /\ NumberIn(S, a) <= SEED_AUCTIONS
    BY DEF Seeds
  <1>2. c \in S /\ AuctionQuarter(c) = q /\ SEED_AUCTIONS < NumberIn(S, c)
    BY CandidatesAfterSeeds
  <1>3. /\ NumberIn(S, a) \in Nat /\ NumberIn(S, c) \in Nat
        /\ AtOrBefore(a.at, c.at) <=> NumberIn(S, a) <= NumberIn(S, c)
    <2>1. /\ NumberIn(S, a) \in 1 .. Cardinality(S)
          /\ NumberIn(S, c) \in 1 .. Cardinality(S)
          /\ AtOrBefore(a.at, c.at) <=> NumberIn(S, a) <= NumberIn(S, c)
      BY <1>1, <1>2, Numbers
    <2> QED BY <2>1, PlacedFinite
  <1>4. AtOrBefore(a.at, c.at)
    BY <1>1, <1>2, <1>3, PricePeriodsAssumption
  <1>5. AuctionQuarter(a) <= q
    <2>1. a \in Auction /\ c \in Auction
      BY <1>1, <1>2 DEF Placed
    <2> QED BY <1>2, <1>4, <2>1, QuartersInOrder
  <1>6. a \in Up(S, q)
    BY <1>1, <1>5 DEF Up
  <1>7. a \in T /\ NumberIn(S, a) = NumberIn(T, a)
    BY <1>6, SameNumbers
  <1> QED BY <1>1, <1>7 DEF Seeds

(* A round finds the same whatever comes after its quarter.                *)
LEMMA SameRound ==
  ASSUME NEW S, Placed(S), NEW T, Placed(T), NEW q \in Nat, Up(S, q) = Up(T, q),
         NEW b, NEW bps
  PROVE  Advance(b, q, S, bps) = Advance(b, q, T, bps)
  <1>1. Candidates(S, q) = Candidates(T, q)
    <2>1. \A a \in Up(S, q) : NumberIn(S, a) = NumberIn(T, a)
      BY SameNumbers
    <2>2. \A a \in S \cup T : AuctionQuarter(a) = q => a \in Up(S, q)
      <3>1. \A a \in S \cup T : AuctionQuarter(a) = q => AuctionQuarter(a) <= q
        OBVIOUS
      <3> QED BY <3>1 DEF Up
    <2>3. \A a \in Up(S, q) : a \in S /\ a \in T
      BY DEF Up
    <2> QED BY <2>1, <2>2, <2>3 DEF Candidates, Seeds
  <1>2. FoundIn(b, q, S, bps) = FoundIn(b, q, T, bps)
    <2>1. CASE Candidates(S, q) = {}
      BY <1>1, <2>1, NothingFlagged DEF FoundIn
    <2>2. CASE Candidates(S, q) # {}
      <3>1. PICK c : c \in Candidates(S, q) /\ c \in Candidates(T, q)
        BY <1>1, <2>2
      <3>2. Seeds(S) \subseteq Seeds(T) /\ Seeds(T) \subseteq Seeds(S)
        BY <3>1, SeedsStay
      <3>3. Seeds(S) = Seeds(T)
        BY <3>2
      <3> QED BY <1>1, <3>3 DEF FoundIn, Start
    <2> QED BY <2>1, <2>2
  <1> QED BY <1>2 DEF Advance

(* Tables the loop can be run on.                                          *)
Tables(A, E) ==
  /\ Placed(A)
  /\ E \subseteq A
  /\ \A a \in E : AuctionQuarter(a) > 0

Alike(A, E, par, bnd, B, F, qar, cnd, q) ==
  /\ Up(A, q) = Up(B, q)
  /\ Up(E, q) = Up(F, q)
  /\ \A r \in 1 .. q : par[r] = qar[r] /\ bnd[r] = cnd[r]

(* On tables that are alike up to a quarter the loop does the same up to   *)
(* that quarter.                                                           *)
LEMMA SameLoops ==
  ASSUME NEW A, NEW E, NEW par, NEW bnd, Tables(A, E),
         NEW B, NEW F, NEW qar, NEW cnd, Tables(B, F),
         NEW n \in Nat, NEW q \in 0 .. n, Alike(A, E, par, bnd, B, F, qar, cnd, q),
         NEW g, Loops(g, n, A, E, par, bnd),
         NEW h, Loops(h, n, B, F, qar, cnd)
  PROVE  g[q] = h[q]
  <1> DEFINE G == {r \in 0 .. q : g[r] = h[r]}
  <1>1. LoopSteps(g, n, A, E, par, bnd) /\ LoopSteps(h, n, B, F, qar, cnd)
    BY LoopsUnfolded
  <1>2. 0 \in G
    BY <1>1 DEF LoopSteps
  <1>3. ASSUME NEW r \in 1 .. q, r - 1 \in G PROVE r \in G
    <2>1. g[r - 1] = h[r - 1] /\ r \in 0 .. q /\ r \in 1 .. n /\ r \in Nat /\ r <= q
      BY <1>3
    <2>2. /\ \A a \in A : AuctionQuarter(a) \in Nat
          /\ \A a \in B : AuctionQuarter(a) \in Nat
      BY AuctionTypes DEF Tables, Placed
    <2>3. Unused(A, r) <=> Unused(B, r)
      <3>1. \A a \in A \cup B : AuctionQuarter(a) = r => (a \in A <=> a \in B)
        <4>1. \A a \in A \cup B : AuctionQuarter(a) = r => AuctionQuarter(a) <= q
          BY <2>1
        <4> QED BY <4>1 DEF Alike, Up
      <3> QED BY <3>1 DEF Unused
    <2>4. CASE Unused(A, r)
      BY <1>1, <2>1, <2>3, <2>4 DEF LoopSteps
    <2>5. CASE ~Unused(A, r)
      <3>1. /\ g[r] = Advances(g[r - 1], r, E, par, bnd)
            /\ h[r] = Advances(h[r - 1], r, F, qar, cnd)
        BY <1>1, <2>1, <2>3, <2>5 DEF LoopSteps
      <3>2. ASSUME NEW b
            PROVE  Advance(b, r, Passing(E, par, bnd, b.count), par[r].bps)
                     = Advance(b, r, Passing(F, qar, cnd, b.count), qar[r].bps)
        <4> DEFINE S == Passing(E, par, bnd, b.count)
                   T == Passing(F, qar, cnd, b.count)
                   bps == par[r].bps
        <4>1. Placed(S) /\ Placed(T)
          BY DEF Passing, Tables, Placed
        <4>2. Up(S, r) = Up(T, r)
          <5>1. \A a \in E \cup F :
                  AuctionQuarter(a) <= r
                    => /\ AuctionQuarter(a) \in 1 .. q
                       /\ a \in E <=> a \in F
            <6> SUFFICES ASSUME NEW a \in E \cup F, AuctionQuarter(a) <= r
                         PROVE  AuctionQuarter(a) \in 1 .. q /\ (a \in E <=> a \in F)
              OBVIOUS
            <6>1. AuctionQuarter(a) \in Nat /\ AuctionQuarter(a) > 0
              BY <2>2 DEF Tables
            <6>2. AuctionQuarter(a) <= q
              BY <2>1, <6>1
            <6>3. a \in E <=> a \in F
              BY <6>2 DEF Alike, Up
            <6> QED BY <6>1, <6>2, <6>3
          <5>2. \A a \in E \cup F :
                  AuctionQuarter(a) <= r
                    => /\ par[AuctionQuarter(a)] = qar[AuctionQuarter(a)]
                       /\ bnd[AuctionQuarter(a)] = cnd[AuctionQuarter(a)]
            BY <5>1 DEF Alike
          <5> QED BY <5>1, <5>2 DEF Passing, Up
        <4>3. par[r] = qar[r]
          BY DEF Alike
        <4> HIDE DEF S, T, bps
        <4>4. Advance(b, r, S, bps) = Advance(b, r, T, bps)
          BY <2>1, <4>1, <4>2, SameRound
        <4> QED BY <4>3, <4>4 DEF S, T, bps
      <3>3. Advances(g[r - 1], r, E, par, bnd) = Advances(g[r - 1], r, F, qar, cnd)
        BY <3>2 DEF Advances
      <3> QED BY <2>1, <3>1, <3>3
    <2> QED BY <2>4, <2>5
  <1> HIDE DEF G
  <1>4. q \in G
    <2>1. \A r \in 0 .. q : r \in G
      <3>1. q \in Nat
        OBVIOUS
      <3> QED BY <1>2, <1>3, <3>1, Counting
    <2> QED BY <2>1
  <1> QED BY <1>4 DEF G

(* Later rounds add periods of later quarters only.                        *)
LEMMA LoopPrefix ==
  ASSUME NEW A, NEW E, NEW par, NEW bnd, Tables(A, E), NEW n \in Nat,
         NEW g, Loops(g, n, A, E, par, bnd), NEW q \in 0 .. n
  PROVE  \A b, c : g[q] = {b} /\ g[n] = {c} => Up(c.rows, q) = b.rows
  <1> SUFFICES ASSUME NEW b, NEW c, g[q] = {b}, g[n] = {c}
               PROVE  Up(c.rows, q) = b.rows
    OBVIOUS
  <1>1. /\ LoopSteps(g, n, A, E, par, bnd)
        /\ \A r \in 0 .. n : \E d : g[r] = {d} /\ RoundsDone(d, r, A, E, par, bnd)
    BY LoopsUnfolded, LoopDone DEF Tables
  <1>2. \A a \in A : AuctionQuarter(a) \in Nat
    BY AuctionTypes DEF Tables, Placed
  <1> DEFINE G == {r \in 0 .. n : r >= q => \E d : g[r] = {d} /\ Up(d.rows, q) = b.rows}
  <1>3. q \in G
    <2>1. PICK d : g[q] = {d} /\ RoundsDone(d, q, A, E, par, bnd)
      BY <1>1
    <2>2. d = b
      BY <2>1
    <2>3. Up(b.rows, q) = b.rows
      BY <2>1, <2>2 DEF RoundsDone, Up
    <2> QED BY <2>3
  <1>4. 0 \in G
    BY <1>3
  <1>5. ASSUME NEW r \in 1 .. n, r - 1 \in G PROVE r \in G
    <2>1. CASE r <= q
      BY <1>3, <2>1
    <2>2. CASE r > q
      <3>1. PICK d : g[r - 1] = {d} /\ Up(d.rows, q) = b.rows
        BY <1>5, <2>2
      <3>2. r \in 0 .. n /\ \E e : g[r] = {e}
        <4>1. r \in 0 .. n
          OBVIOUS
        <4> QED BY <1>1, <4>1
      <3>3. CASE Unused(A, r)
        <4>1. g[r] = g[r - 1]
          BY <1>1, <3>3 DEF LoopSteps
        <4> QED BY <3>1, <3>2, <4>1
      <3>4. CASE ~Unused(A, r)
        <4> DEFINE S == Passing(E, par, bnd, d.count)
                   F == FoundIn(d, r, S, par[r].bps)
        <4>0. PICK e : g[r] = {e}
          BY <3>2
        <4>1. g[r] = {Advance(d, r, S, par[r].bps)}
          <5>1. g[r] = Advances(g[r - 1], r, E, par, bnd)
            BY <1>1, <3>4 DEF LoopSteps
          <5> QED BY <3>1, <5>1 DEF Advances
        <4>2. e.rows = d.rows \cup F
          BY <4>0, <4>1 DEF Advance
        <4>3. \A a \in F : AuctionQuarter(a) = r
          <5>1. Placed(S)
            BY DEF Passing, Tables, Placed
          <5>2. d.last = {} \/ \E x : d.last = {x}
            <6>1. PICK f : g[r - 1] = {f} /\ RoundsDone(f, r - 1, A, E, par, bnd)
              <7>1. r - 1 \in 0 .. n
                OBVIOUS
              <7> QED BY <1>1, <7>1
            <6>2. d = f
              BY <3>1, <6>1
            <6>3. d.last = LastOr(d.rows, {}) /\ Placed(d.rows)
              BY <6>1, <6>2 DEF RoundsDone, Tables, Placed
            <6> QED BY <6>3, HasLast DEF LastOr
          <5>3. F \subseteq Candidates(S, r)
            <6> HIDE DEF S
            <6> QED BY <5>1, <5>2, RoundFinds
          <5> QED BY <5>3 DEF Candidates
        <4> HIDE DEF F
        <4>4. Up(e.rows, q) = Up(d.rows, q)
          <5>1. \A a \in F : ~(AuctionQuarter(a) <= q)
            BY <2>2, <4>3
          <5> QED BY <4>2, <5>1 DEF Up
        <4> QED BY <3>1, <3>2, <4>0, <4>4
      <3> QED BY <3>3, <3>4
    <2> QED BY <2>1, <2>2
  <1> HIDE DEF G
  <1>6. n \in G
    <2>1. \A r \in 0 .. n : r \in G
      BY <1>4, <1>5, Counting
    <2> QED BY <2>1
  <1>7. PICK d : g[n] = {d} /\ Up(d.rows, q) = b.rows
    BY <1>6 DEF G
  <1>8. d = c
    BY <1>7
  <1> QED BY <1>7, <1>8

(* The rows the loop ends with.                                            *)
RowsIn(B) == UNION {b.rows : b \in B}

ArePeriods(rows, A, E, par, bnd) ==
  \E g : /\ Loops(g, LastQuarter, A, E, par, bnd)
         /\ rows = RowsIn(g[LastQuarter])

(* Those of them up to a quarter are what the loop had after it.           *)
LEMMA PeriodsUpTo ==
  ASSUME NEW A, NEW E, NEW par, NEW bnd, Tables(A, E),
         NEW g, Loops(g, LastQuarter, A, E, par, bnd), NEW q \in 0 .. LastQuarter
  PROVE  \E b : /\ g[q] = {b}
                /\ Up(RowsIn(g[LastQuarter]), q) = b.rows
  <1> DEFINE n == LastQuarter
  <1>1. n \in Nat /\ n \in 0 .. n /\ q \in 0 .. n
    BY QuarterType, AdmittedListsAssumption DEF LastQuarter
  <1>2. \A r \in 0 .. n : \E d : g[r] = {d} /\ RoundsDone(d, r, A, E, par, bnd)
    <2> HIDE DEF n
    <2> QED BY <1>1, LoopDone DEF Tables, n
  <1>3. PICK b : g[q] = {b}
    BY <1>1, <1>2
  <1>4. PICK c : g[n] = {c}
    BY <1>1, <1>2
  <1>5. Up(c.rows, q) = b.rows
    <2> HIDE DEF n
    <2>1. \A x, y : g[q] = {x} /\ g[n] = {y} => Up(y.rows, q) = x.rows
      BY <1>1, LoopPrefix DEF n
    <2> QED BY <1>3, <1>4, <2>1
  <1>6. RowsIn(g[n]) = c.rows
    BY <1>4 DEF RowsIn
  <1> QED BY <1>3, <1>5, <1>6

(* On tables that are alike up to a quarter the periods are the same up to *)
(* that quarter.                                                           *)
LEMMA SamePeriods ==
  ASSUME NEW A, NEW E, NEW par, NEW bnd, Tables(A, E),
         NEW B, NEW F, NEW qar, NEW cnd, Tables(B, F),
         NEW q \in 0 .. LastQuarter, Alike(A, E, par, bnd, B, F, qar, cnd, q),
         NEW rows, ArePeriods(rows, A, E, par, bnd),
         NEW others, ArePeriods(others, B, F, qar, cnd)
  PROVE  Up(rows, q) = Up(others, q)
  <1>1. LastQuarter \in Nat
    BY QuarterType, AdmittedListsAssumption DEF LastQuarter
  <1>2. PICK g : /\ Loops(g, LastQuarter, A, E, par, bnd)
                 /\ rows = RowsIn(g[LastQuarter])
    BY DEF ArePeriods
  <1>3. PICK h : /\ Loops(h, LastQuarter, B, F, qar, cnd)
                 /\ others = RowsIn(h[LastQuarter])
    BY DEF ArePeriods
  <1>4. g[q] = h[q]
    BY <1>1, <1>2, <1>3, SameLoops
  <1>5. PICK b : g[q] = {b} /\ Up(rows, q) = b.rows
    BY <1>2, PeriodsUpTo
  <1>6. PICK c : h[q] = {c} /\ Up(others, q) = c.rows
    BY <1>3, PeriodsUpTo
  <1> QED BY <1>4, <1>5, <1>6

-----------------------------------------------------------------------------
(* Steps, and what they leave of the periods.                              *)

OnLists == Eligible(contracts)

OnOlderLists == Eligible({r \in contracts : r.from # pos})

CurrentComputed ==
  /\ Tables(auctions, OnLists)
  /\ ArePeriods(Current, auctions, OnLists, ParamsTable, BoundTable)

OlderComputed ==
  /\ Tables(auctions, OnOlderLists)
  /\ ArePeriods(BeforeNewContracts, auctions, OnOlderLists, ParamsTable, BoundTable)

(* What the function returns comes out of the loop, run on the tables.     *)
LEMMA Computed == PeriodsIInv => CurrentComputed /\ OlderComputed
  <1> SUFFICES ASSUME PeriodsIInv PROVE CurrentComputed /\ OlderComputed
    OBVIOUS
  <1>1. ASSUME NEW cs
        PROVE  /\ Tables(auctions, Eligible(cs))
               /\ ArePeriods(QualifyingPricePeriods(cs), auctions, Eligible(cs),
                             ParamsTable, BoundTable)
    <2>1. Tables(auctions, Eligible(cs))
      BY EligiblePlaced DEF Tables
    <2>2. PICK g : /\ Loops(g, LastQuarter, auctions, Eligible(cs), ParamsTable, BoundTable)
                   /\ QualifyingPricePeriods(cs) = UNION {b.rows : b \in g[LastQuarter]}
      BY QualifyingUnfolded
    <2>3. QualifyingPricePeriods(cs) = RowsIn(g[LastQuarter])
      BY <2>2 DEF RowsIn
    <2> QED BY <2>1, <2>2, <2>3 DEF ArePeriods
  <1> QED BY <1>1 DEF CurrentComputed, OlderComputed, OnLists, OnOlderLists,
                      Current, BeforeNewContracts

(* The rows of the last event do not count in the quarters so far.         *)
OlderPeriods ==
  \A q \in 0 .. LastQuarter :
    q <= QuarterOf(pos.epoch) => Up(BeforeNewContracts, q) = Up(Current, q)

(* They begin in the quarter of the event and apply in the next.           *)
LEMMA OlderListsSuffice == PeriodsIInv => OlderPeriods
  <1> SUFFICES ASSUME PeriodsIInv, NEW q \in 0 .. LastQuarter, q <= QuarterOf(pos.epoch)
               PROVE  Up(BeforeNewContracts, q) = Up(Current, q)
    BY DEF OlderPeriods
  <1> DEFINE old == {r \in contracts : r.from # pos}
  <1>1. \A r \in contracts : r.from \in Position
    BY DEF PeriodsIInv, IInv, TypeOK, RowOf
  <1>2. /\ \A r \in contracts : QuarterOf(r.from.epoch) \in Nat
        /\ QuarterOf(pos.epoch) \in Nat
    <2>1. \A r \in contracts : QuarterOf(r.from.epoch) \in Nat
      BY <1>1, QuarterType DEF Position
    <2>2. pos \in Position
      BY DEF PeriodsIInv, IInv, TypeOK
    <2> QED BY <2>1, <2>2, QuarterType DEF Position
  <1>3. ASSUME NEW r \in 0 .. q PROVE SqlInForce(old, r) = SqlInForce(contracts, r)
    <2>1. \A s \in contracts : QuarterOf(s.from.epoch) < r => s \in old
      <3> SUFFICES ASSUME NEW s \in contracts, QuarterOf(s.from.epoch) < r, s.from = pos
                   PROVE  FALSE
        OBVIOUS
      <3> QED BY <1>2
    <2>2. \A s : s \in Lasting(old) <=> s \in Lasting(contracts) /\ s \in old
      BY DEF Lasting
    <2>3. \A s \in Lasting(contracts), t \in Lasting(contracts) :
            QuarterOf(s.from.epoch) < r /\ QuarterOf(t.from.epoch) = QuarterOf(s.from.epoch)
              => s \in old /\ t \in old
      BY <2>1 DEF Lasting
    <2>4. {s \in SqlRows(old) : AppliesIn(s, r)} = {s \in SqlRows(contracts) : AppliesIn(s, r)}
      <3> HIDE DEF old
      <3>1. \A s : s \in SqlRows(old) /\ AppliesIn(s, r)
                     => s \in SqlRows(contracts)
        <4> SUFFICES ASSUME NEW s \in SqlRows(old), AppliesIn(s, r)
                     PROVE  s \in SqlRows(contracts)
          OBVIOUS
        <4>1. s \in Lasting(contracts) /\ QuarterOf(s.from.epoch) < r
          BY <2>2 DEF SqlRows, AppliesIn
        <4> QED BY <2>2, <2>3, <4>1 DEF SqlRows
      <3>2. \A s : s \in SqlRows(contracts) /\ AppliesIn(s, r)
                     => s \in SqlRows(old)
        <4> SUFFICES ASSUME NEW s \in SqlRows(contracts), AppliesIn(s, r)
                     PROVE  s \in SqlRows(old)
          OBVIOUS
        <4>1. s \in Lasting(contracts) /\ QuarterOf(s.from.epoch) < r
          BY DEF SqlRows, AppliesIn
        <4> QED BY <2>2, <2>3, <4>1 DEF SqlRows
      <3> QED BY <3>1, <3>2
    <2> HIDE DEF old
    <2> QED BY <2>4 DEF SqlInForce
  <1>4. Up(OnOlderLists, q) = Up(OnLists, q)
    <2>1. \A a \in auctions :
            AuctionQuarter(a) <= q => (Whitelisted(a, old) <=> Whitelisted(a, contracts))
      <3> SUFFICES ASSUME NEW a \in auctions, AuctionQuarter(a) <= q
                   PROVE  Whitelisted(a, old) <=> Whitelisted(a, contracts)
        OBVIOUS
      <3>1. AuctionQuarter(a) \in 0 .. q
        BY AuctionTypes DEF PeriodsIInv
      <3> HIDE DEF old
      <3> QED BY <1>3, <3>1 DEF Whitelisted
    <2> QED BY <2>1 DEF OnOlderLists, OnLists, Eligible, Up
  <1>5. Alike(auctions, OnOlderLists, ParamsTable, BoundTable,
              auctions, OnLists, ParamsTable, BoundTable, q)
    BY <1>4 DEF Alike
  <1> QED BY <1>5, Computed, SamePeriods DEF CurrentComputed, OlderComputed

(* A step that leaves the tables up to a quarter as they are leaves the    *)
(* periods up to that quarter as they are.                                 *)
LEMMA CurrentKept ==
  ASSUME PeriodsIInv, PeriodsIInv', NEW q \in 0 .. LastQuarter,
         Up(auctions, q) = Up(auctions', q),
         \A r \in 1 .. q :
           /\ SqlInForce(contracts, r) = SqlInForce(contracts', r)
           /\ SqlInForce(tokens, r) = SqlInForce(tokens', r)
           /\ SqlParameter(r)' = SqlParameter(r)
           /\ BoundBefore(r)' = BoundBefore(r)
  PROVE  Up(Current, q) = Up(Current', q)
  <1>1. CurrentComputed /\ CurrentComputed'
    <2>1. PeriodsIInv' => CurrentComputed'
      BY Computed, PTL
    <2> QED BY <2>1, Computed
  <1>2. LastQuarter \in Nat /\ \A r \in 1 .. q : r \in 1 .. LastQuarter
    BY EligiblePlaced
  <1>3. \A r \in 1 .. q : ParamsTable[r] = ParamsTable'[r] /\ BoundTable[r] = BoundTable'[r]
    <2> SUFFICES ASSUME NEW r \in 1 .. q
                 PROVE  ParamsTable[r] = ParamsTable'[r] /\ BoundTable[r] = BoundTable'[r]
      OBVIOUS
    <2>1. ParamsTable[r] = Params(r) /\ BoundTable[r] = BoundBefore(r)
      BY <1>2 DEF ParamsTable, BoundTable
    <2>2. ParamsTable'[r] = Params(r)' /\ BoundTable'[r] = BoundBefore(r)'
      BY <1>2 DEF ParamsTable, BoundTable
    <2>3. Params(r)' = Params(r)
      BY DEF Params
    <2> QED BY <2>1, <2>2, <2>3
  <1>4. Up(OnLists, q) = Up(OnLists', q)
    <2>1. \A a \in auctions \cup auctions' : AuctionQuarter(a) \in Nat
      BY AuctionTypes DEF PeriodsIInv
    <2>2. \A a \in auctions \cup auctions' :
            AuctionQuarter(a) <= q => (a \in OnLists <=> a \in OnLists')
      <3> SUFFICES ASSUME NEW a \in auctions \cup auctions', AuctionQuarter(a) <= q
                   PROVE  a \in OnLists <=> a \in OnLists'
        OBVIOUS
      <3>1. a \in auctions <=> a \in auctions'
        BY DEF Up
      <3>2. AuctionQuarter(a) > 0 => AuctionQuarter(a) \in 1 .. q
        BY <2>1
      <3> QED BY <3>1, <3>2 DEF OnLists, Eligible, Whitelisted
    <2>3. OnLists \subseteq auctions /\ OnLists' \subseteq auctions'
      BY DEF OnLists, Eligible
    <2> QED BY <2>2, <2>3 DEF Up
  <1>5. Alike(auctions, OnLists, ParamsTable, BoundTable,
              auctions', OnLists', ParamsTable', BoundTable', q)
    BY <1>3, <1>4 DEF Alike
  <1>6. /\ Tables(auctions', OnLists')
        /\ ArePeriods(Current', auctions', OnLists', ParamsTable', BoundTable')
    BY <1>1 DEF CurrentComputed
  <1> QED BY <1>1, <1>5, <1>6, SamePeriods DEF CurrentComputed

(* A step of the token indexer or of a start.                              *)
Quiet ==
  /\ UNCHANGED <<vars, bound>>
  /\ auctions \subseteq auctions'
  /\ view' = Current' \/ UNCHANGED <<auctions, view>>

(* An event of the actor: it decides about later quarters only, except for *)
(* the parameters, which it may add to.                                    *)
Event ==
  /\ Before(pos, pos')
  /\ auctions' = auctions
  /\ \A r \in Quarters : r <= QuarterOf(pos'.epoch) => boundary'[r] = boundary[r]
  /\ parameters \subseteq parameters'
  /\ \A c \in parameters' \ parameters : c.at = pos'
  /\ \/ view' = Current'
     \/ UNCHANGED <<parameters, bound>> /\ view' \in {view, BeforeNewContracts'}

(* Every step is of one kind or the other, or changes nothing.             *)
LEMMA StepKinds ==
  ASSUME [PeriodsNext]_periodVars
  PROVE  Quiet \/ Event
  <1>1. CASE \E a \in Auction : AuctionIndexed(a)
    BY <1>1 DEF AuctionIndexed, Refresh, Current, Quiet
  <1>2. CASE \E a \in Auction : AuctionSkipped(a)
    BY <1>2 DEF AuctionSkipped, Quiet
  <1>3. CASE ConfigSeeded
    BY <1>3 DEF ConfigSeeded, Refresh, Current, Quiet
  <1>4. ASSUME NEW p \in EventPosition, Before(pos, p), NEW cs \in SUBSET PayContracts,
               NEW ts \in SUBSET Stablecoins, ListsWritten(cs, ts, p)
        PROVE  Event
    <2> DEFINE removed == {r \in Open(tokens) : r.entry \notin ts}
               added   == (ts \ NotERC20) \ Entries(Open(tokens))
    <2>1. view' = CASE added # {} -> Current'
                    [] added = {} /\ removed # {} -> BeforeNewContracts'
                    [] OTHER -> view
      BY <1>4 DEF ListsWritten, Current, BeforeNewContracts
    <2> HIDE DEF added, removed
    <2>2. view' \in {view, Current', BeforeNewContracts'}
      BY <2>1
    <2>3. /\ auctions' = auctions /\ bound' = bound
          /\ pos' = p /\ parameters' = parameters
          /\ boundary' = [q \in Quarters |->
                            IF q > QuarterOf(p.epoch)
                            THEN [contracts |-> cs, tokens |-> ts]
                            ELSE boundary[q]]
      BY <1>4 DEF ListsWritten, AdmittedListsUpdated
    <2>4. \A r \in Quarters : r <= QuarterOf(p.epoch) => boundary'[r] = boundary[r]
      <3>1. \A r \in Quarters : r <= QuarterOf(p.epoch) => ~(r > QuarterOf(p.epoch))
        <4>1. \A r \in Quarters : r \in Nat
          BY QuartersType
        <4>2. QuarterOf(p.epoch) \in Nat
          BY EventPositionType, QuarterType DEF Position
        <4> QED BY <4>1, <4>2
      <3> QED BY <2>3, <3>1
    <2> QED BY <1>4, <2>2, <2>3, <2>4 DEF Event
  <1>5. ASSUME NEW p \in EventPosition, Before(pos, p), NEW v \in Values,
               ParametersWritten(v, p)
        PROVE  Event
    BY <1>5 DEF ParametersWritten, PricingParamsUpdated, Refresh, Current, Event
  <1>6. ASSUME NEW p \in EventPosition, Before(pos, p), NEW q \in Quarters,
               NEW v \in Volumes, SharesSubmitted(q, v, p)
        PROVE  Event
    BY <1>6 DEF SharesSubmitted, Refresh, Current, Event
  <1>7. CASE UNCHANGED periodVars
    BY <1>7 DEF periodVars, Quiet
  <1> QED BY <1>1, <1>2, <1>3, <1>4, <1>5, <1>6, <1>7 DEF PeriodsNext

(* The lists in force in a quarter are decided when it begins.             *)
LEMMA InForceDecided ==
  ASSUME PeriodsIInv, PeriodsIInv', Quiet \/ Event, NEW r \in 1 .. LastQuarter,
         pos' = pos \/ r <= QuarterOf(pos'.epoch)
  PROVE  /\ SqlInForce(contracts, r) = SqlInForce(contracts', r)
         /\ SqlInForce(tokens, r) = SqlInForce(tokens', r)
  <1>1. r \in Quarters
    BY EligiblePlaced DEF Quarters, LastQuarter
  <1>2. IInv /\ IInv'
    BY DEF PeriodsIInv
  <1>3. SqlAgrees /\ SqlAgrees'
    <2>1. IInv' => SqlAgrees'
      BY SqlFollows, PTL
    <2> QED BY <1>2, <2>1, SqlFollows
  <1>4. InForceIsBoundaryList /\ InForceIsBoundaryList'
    BY <1>2 DEF IInv
  <1>5. /\ SqlInForce(contracts, r) = boundary[r].contracts
        /\ SqlInForce(tokens, r) = boundary[r].tokens \ NotERC20
    BY <1>1, <1>3, <1>4 DEF SqlAgrees, InForceIsBoundaryList
  <1>6. /\ SqlInForce(contracts', r) = boundary'[r].contracts
        /\ SqlInForce(tokens', r) = boundary'[r].tokens \ NotERC20
    BY <1>1, <1>3, <1>4 DEF SqlAgrees, InForceIsBoundaryList
  <1>7. boundary'[r] = boundary[r]
    <2>1. CASE Quiet
      BY <2>1 DEF Quiet, vars
    <2>2. CASE Event
      <3>1. pos' # pos
        <4>1. pos \in Position /\ pos' \in Position
          BY <1>2 DEF IInv, TypeOK
        <4> QED BY <2>2, <4>1, PositionsCompared DEF Event
      <3> QED BY <1>1, <2>2, <3>1 DEF Event
    <2> QED BY <2>1, <2>2
  <1> QED BY <1>5, <1>6, <1>7

(* So are the parameters: an event adds them at its own position.          *)
LatestOf(P, r) ==
  {c \in P :
     /\ QuarterOf(c.at.epoch) < r
     /\ \A d \in P : QuarterOf(d.at.epoch) = QuarterOf(c.at.epoch) => AtOrBefore(d.at, c.at)}

(* No row is added that an earlier quarter would find.                     *)
LEMMA ParametersDecided ==
  ASSUME PeriodsIInv, PeriodsIInv', Quiet \/ Event, NEW r \in 1 .. LastQuarter,
         pos' = pos \/ r <= QuarterOf(pos'.epoch)
  PROVE  SqlParameter(r)' = SqlParameter(r)
  <1>1. CASE Quiet
    BY <1>1 DEF Quiet, vars, SqlParameter
  <1>2. CASE Event
    <2>1. IInv /\ IInv'
      BY DEF PeriodsIInv
    <2>2. r <= QuarterOf(pos'.epoch)
      <3>1. pos' # pos
        BY <1>2, <2>1, PositionsCompared DEF Event, IInv, TypeOK
      <3> QED BY <3>1
    <2>3. \A c \in parameters' : QuarterOf(c.at.epoch) \in Nat
      BY <2>1, QuarterType DEF IInv, TypeOK, Position
    <2>4. r \in Nat /\ QuarterOf(pos'.epoch) \in Nat
      BY <2>1, QuarterType DEF IInv, TypeOK, Position
    <2>5. \A c \in parameters' : QuarterOf(c.at.epoch) < r => c \in parameters
      BY <1>2, <2>2, <2>3, <2>4 DEF Event
    <2>6. parameters \subseteq parameters'
      BY <1>2 DEF Event
    <2>7. LatestOf(parameters', r) = LatestOf(parameters, r)
      BY <2>5, <2>6 DEF LatestOf
    <2>8. \A P, q : {c \in {e \in P : \A d \in P :
                              QuarterOf(d.at.epoch) = QuarterOf(e.at.epoch)
                                => AtOrBefore(d.at, e.at)} : QuarterOf(c.at.epoch) < q}
                      = LatestOf(P, q)
      BY DEF LatestOf
    <2> DEFINE latest == LatestOf(parameters, r)
               picked(S) == {c \in S : \A d \in S :
                               QuarterOf(d.at.epoch) <= QuarterOf(c.at.epoch)}
    <2>9. SqlParameter(r) = picked(LatestOf(parameters, r))
      BY <2>8 DEF SqlParameter
    <2>10. SqlParameter(r)' = picked(LatestOf(parameters', r))
      BY <2>8 DEF SqlParameter
    <2> QED BY <2>7, <2>9, <2>10
  <1> QED BY <1>1, <1>2

(* The view after a step, up to a quarter of the actor's log.              *)
LEMMA ViewUpTo ==
  ASSUME PeriodsIInv, PeriodsIInv', Quiet \/ Event, NEW q \in 0 .. LastQuarter,
         view = Current, Up(Current, q) = Up(Current', q),
         pos' = pos \/ q <= QuarterOf(pos'.epoch)
  PROVE  Up(view', q) = Up(Current', q)
  <1>1. CASE view' \in {view, Current'}
    BY <1>1
  <1>2. CASE Event /\ view' = BeforeNewContracts'
    <2>1. q <= QuarterOf(pos'.epoch)
      <3>1. pos' # pos
        BY <1>2, PositionsCompared DEF Event, PeriodsIInv, IInv, TypeOK
      <3> QED BY <3>1
    <2>2. OlderPeriods'
      <3>1. PeriodsIInv' => OlderPeriods'
        BY OlderListsSuffice, PTL
      <3> QED BY <3>1
    <2> QED BY <1>2, <2>1, <2>2 DEF OlderPeriods
  <1> QED BY <1>1, <1>2 DEF Quiet, Event

-----------------------------------------------------------------------------
(* The two action properties about the view.                               *)

ClosedPeriodsStep ==
  view = QualifyingPricePeriods(contracts) =>
    \A q \in 1 .. QuarterOf(MaxEpoch) :
      /\ pos' = pos \/ QuarterOf(pos'.epoch) > q
      /\ \A a \in auctions' \ auctions : AuctionQuarter(a) > q
      /\ \A r \in 1 .. q : bound'[r] = bound[r] \/ r = q
      => RowsOf(q)' = RowsOf(q)

(* Every refresh computes all quarters, but on tables that are the same up *)
(* to the quarter.                                                         *)
LEMMA ClosedPeriodsKept ==
  ASSUME PeriodsIInv, PeriodsIInv', [PeriodsNext]_periodVars
  PROVE  ClosedPeriodsStep
  <1> SUFFICES ASSUME view = Current, NEW q \in 1 .. LastQuarter,
                      pos' = pos \/ QuarterOf(pos'.epoch) > q,
                      \A a \in auctions' \ auctions : AuctionQuarter(a) > q,
                      \A r \in 1 .. q : bound'[r] = bound[r] \/ r = q
               PROVE  RowsOf(q)' = RowsOf(q)
    BY DEF ClosedPeriodsStep, Current, LastQuarter
  <1>1. Quiet \/ Event
    BY StepKinds
  <1>2. /\ LastQuarter \in Nat
        /\ q \in 0 .. LastQuarter
        /\ QuarterOf(pos'.epoch) \in Nat
    <2>1. pos' \in Position
      BY DEF PeriodsIInv, IInv, TypeOK
    <2>2. LastQuarter \in Nat
      BY EligiblePlaced
    <2> QED BY <2>1, <2>2, QuarterType DEF Position
  <1>3. Up(auctions, q) = Up(auctions', q)
    <2>1. auctions \subseteq auctions'
      BY ViewWritten
    <2>2. \A a \in auctions' : AuctionQuarter(a) <= q => a \in auctions
      <3>1. \A a \in auctions' : AuctionQuarter(a) \in Nat
        BY AuctionTypes DEF PeriodsIInv
      <3> QED BY <1>2, <3>1
    <2> QED BY <2>1, <2>2 DEF Up
  <1>4. \A r \in 1 .. q : /\ r \in 1 .. LastQuarter
                          /\ pos' = pos \/ r <= QuarterOf(pos'.epoch)
    BY <1>2
  <1>5. \A r \in 1 .. q : BoundBefore(r)' = BoundBefore(r)
    <2> SUFFICES ASSUME NEW r \in 1 .. q PROVE BoundBefore(r)' = BoundBefore(r)
      OBVIOUS
    <2>1. r # 1 => bound'[r - 1] = bound[r - 1]
      <3>1. r # 1 => r - 1 \in 1 .. q /\ r - 1 # q
        BY <1>2
      <3> QED BY <3>1
    <2> QED BY <2>1 DEF BoundBefore
  <1>6. Up(Current, q) = Up(Current', q)
    BY <1>1, <1>2, <1>3, <1>4, <1>5, InForceDecided, ParametersDecided, CurrentKept
  <1>7. Up(view', q) = Up(view, q)
    <2>1. pos' = pos \/ q <= QuarterOf(pos'.epoch)
      BY <1>2
    <2>2. Up(view', q) = Up(Current', q)
      BY <1>1, <1>2, <1>6, <2>1, ViewUpTo
    <2> QED BY <1>6, <2>2
  <1>8. \A d : d \in RowsOf(q) <=> d \in Up(view, q) /\ AuctionQuarter(d) = q
    BY <1>2 DEF RowsOf, Up
  <1>9. \A d : d \in RowsOf(q)' <=> d \in Up(view', q) /\ AuctionQuarter(d) = q
    BY <1>2 DEF RowsOf, Up
  <1> QED BY <1>7, <1>8, <1>9

(* What is indexed of later quarters does not change the periods of a      *)
(* quarter.                                                                *)
THEOREM PeriodsOfClosedQuarters == PeriodsSpec => ClosedPeriodsFinal
  <1>1. PeriodsIInv /\ PeriodsIInv' /\ [PeriodsNext]_periodVars => [ClosedPeriodsStep]_periodVars
    BY ClosedPeriodsKept
  <1>2. PeriodsSpec => [][ClosedPeriodsStep]_periodVars
    BY <1>1, PeriodsInvariant, PTL DEF PeriodsSpec
  <1> QED BY <1>2 DEF ClosedPeriodsFinal, ClosedPeriodsStep

ViewCurrentStep ==
  /\ \A a \in auctions : AuctionQuarter(a) <= QuarterOf(pos'.epoch)
  /\ view = QualifyingPricePeriods(contracts)
  => (view = QualifyingPricePeriods(contracts))'

(* A step that does not refresh the view leaves the parameters and the     *)
(* bound volumes alone, and its lists are those of later quarters.         *)
LEMMA ViewKeptCurrent ==
  ASSUME PeriodsIInv, PeriodsIInv', [PeriodsNext]_periodVars
  PROVE  ViewCurrentStep
  <1> SUFFICES ASSUME \A a \in auctions : AuctionQuarter(a) <= QuarterOf(pos'.epoch),
                      view = Current
               PROVE  view' = Current'
    BY DEF ViewCurrentStep, Current
  <1>1. Quiet \/ Event
    BY StepKinds
  <1>2. CASE view' = Current'
    BY <1>2
  <1>3. CASE view' # Current'
    <2>1. UNCHANGED <<auctions, parameters, bound>> /\ view' \in {view, BeforeNewContracts'}
      BY <1>1, <1>3 DEF Quiet, Event, vars
    <2>2. PICK q \in 0 .. LastQuarter :
            /\ q <= QuarterOf(pos'.epoch)
            /\ \A a \in auctions : AuctionQuarter(a) <= q
      <3>1. /\ LastQuarter \in Nat
            /\ \A a \in auctions : AuctionQuarter(a) \in 0 .. LastQuarter
        BY EligiblePlaced, AuctionQuarters DEF PeriodsIInv
      <3>2. QuarterOf(pos'.epoch) \in Nat
        <4>1. pos' \in Position
          BY DEF PeriodsIInv, IInv, TypeOK
        <4> QED BY <4>1, QuarterType DEF Position
      <3>3. CASE QuarterOf(pos'.epoch) <= LastQuarter
        <4>1. QuarterOf(pos'.epoch) \in 0 .. LastQuarter
          BY <3>1, <3>2, <3>3
        <4> QED BY <3>2, <4>1
      <3>4. CASE ~(QuarterOf(pos'.epoch) <= LastQuarter)
        <4>1. LastQuarter \in 0 .. LastQuarter /\ LastQuarter <= QuarterOf(pos'.epoch)
          BY <3>1, <3>2, <3>4
        <4> QED BY <3>1, <4>1
      <3> QED BY <3>3, <3>4
    <2>3. \A r \in 1 .. q : r \in 1 .. LastQuarter /\ r <= QuarterOf(pos'.epoch)
      <3>1. LastQuarter \in Nat
        BY EligiblePlaced
      <3>2. QuarterOf(pos'.epoch) \in Nat
        <4>1. pos' \in Position
          BY DEF PeriodsIInv, IInv, TypeOK
        <4> QED BY <4>1, QuarterType DEF Position
      <3> QED BY <2>2, <3>1, <3>2
    <2>4. \A r \in 1 .. q : /\ SqlInForce(contracts, r) = SqlInForce(contracts', r)
                            /\ SqlInForce(tokens, r) = SqlInForce(tokens', r)
                            /\ SqlParameter(r)' = SqlParameter(r)
                            /\ BoundBefore(r)' = BoundBefore(r)
      <3>1. \A r \in 1 .. q : BoundBefore(r)' = BoundBefore(r)
        BY <2>1 DEF BoundBefore
      <3> QED BY <1>1, <2>3, <3>1, InForceDecided, ParametersDecided
    <2>5. Up(auctions, q) = Up(auctions', q)
      BY <2>1
    <2>6. Up(Current, q) = Up(Current', q)
      BY <2>2, <2>4, <2>5, CurrentKept
    <2>7. Up(view', q) = Up(Current', q)
      BY <1>1, <2>2, <2>6, ViewUpTo
    <2>8. \A S : S \subseteq auctions => Up(S, q) = S
      BY <2>2 DEF Up
    <2>9. /\ Current \subseteq auctions
          /\ Current' \subseteq auctions'
          /\ BeforeNewContracts' \subseteq auctions'
      <3>1. PeriodsIInv' => AuctionsReturned'
        BY ReturnsAuctions, PTL
      <3> QED BY <3>1, ReturnsAuctions DEF AuctionsReturned
    <2>10. view' \subseteq auctions /\ Current' \subseteq auctions
      BY <2>1, <2>9
    <2> QED BY <2>7, <2>8, <2>10
  <1> QED BY <1>2, <1>3

(* As long as the actor's log is not behind the auctions, the view does    *)
(* not become stale although the contracts have no trigger.                *)
THEOREM ViewNotStale == PeriodsSpec => ViewStaysCurrent
  <1>1. PeriodsIInv /\ PeriodsIInv' /\ [PeriodsNext]_periodVars => [ViewCurrentStep]_periodVars
    BY ViewKeptCurrent
  <1>2. PeriodsSpec => [][ViewCurrentStep]_periodVars
    BY <1>1, PeriodsInvariant, PTL DEF PeriodsSpec
  <1> QED BY <1>2 DEF ViewStaysCurrent, ViewCurrentStep

-----------------------------------------------------------------------------
(* The minimum lot.                                                        *)

(* Rounding: a multiple of d reaches v less d - 1 if and only if the       *)
(* factor reaches the integer quotient of v by d.                          *)
LEMMA ProductsAndQuotient ==
  ASSUME NEW lot \in Nat, NEW d \in Nat \ {0}, NEW v \in Nat
  PROVE  lot * d >= v - (d - 1) <=> lot >= v \div d
  <1> DEFINE k == v \div d
  <1>1. k \in Nat /\ d * k <= v /\ v < d * k + d
    BY DivBounds
  <1>2. d * k \in Nat /\ lot * d = d * lot /\ d * lot \in Nat
    BY <1>1
  <1> HIDE DEF k
  <1>3. CASE lot < k
    <2>1. d * lot + d <= d * k
      BY <1>1, <1>3, TimesMonotone
    <2> QED BY <1>1, <1>2, <1>3, <2>1 DEF k
  <1>4. CASE lot >= k
    <2>1. d * k <= d * lot
      <3>1. CASE lot = k
        BY <3>1, <1>2
      <3>2. CASE k < lot
        <4>1. d * k + d <= d * lot
          BY <1>1, <3>2, TimesMonotone
        <4> QED BY <1>2, <4>1
      <3> QED BY <1>1, <1>4, <3>1, <3>2
    <2> QED BY <1>1, <1>2, <1>4, <2>1 DEF k
  <1> QED BY <1>1, <1>3, <1>4

(* The number the comparison by products comes to, and the one the API     *)
(* reports, for a lot and a quarter.                                       *)
LEMMA MinLotFollows ==
  ASSUME PeriodsIInv, PeriodsTypeOK, IsFiniteSet(view), NEW q \in Quarters, NEW lot \in Nat,
         SqlParameter(q) # {}
  PROVE  /\ PassesMinLot(lot, Params(q), BoundBefore(q), CarriedCount(q))
              <=> \E m \in SqlMinLot(q) : lot >= m
         /\ IF QuietBefore(q) \/ Params(q).alphaDen = 0
            THEN MinLot(q) = Params(q).floor
            ELSE \E m \in SqlMinLot(q) :
                   MinLot(q) = IF m >= Params(q).floor THEN m ELSE Params(q).floor
  <1> DEFINE n == CarriedCount(q)
             k == CountBefore(q)
             v == BoundBefore(q)
             p == Params(q)
             u == UnboundMinLot(q)
  <1>1. q \in Nat \ {0}
    BY QuartersType
  <1>2. n \in Nat /\ k \in Nat
    <2>1. /\ IsFiniteSet(RowsOf(q - 1))
          /\ IsFiniteSet({d \in view : AuctionQuarter(d) \in LastQuarterBefore(q)})
      BY FS_Subset DEF RowsOf
    <2> QED BY <2>1, FS_CardinalityType DEF CountBefore, CarriedCount
  <1>3. v \in Nat /\ (q = 1 => v = 0)
    <2>1. CASE q = 1
      BY <2>1 DEF BoundBefore
    <2>2. CASE q # 1
      <3>1. q - 1 \in Quarters
        BY <1>1, <2>2, QuarterType, AdmittedListsAssumption DEF Quarters
      <3>2. bound[q - 1] \in Volumes \cup {None}
        BY <3>1 DEF PeriodsIInv
      <3> QED BY <2>2, <3>2, PricePeriodsAssumption DEF BoundBefore
    <2> QED BY <2>1, <2>2
  <1>4. p = (CHOOSE c \in ApiParameter(q) : TRUE).value
    BY ParametersFollow DEF PeriodsIInv, ParametersAgree, Params
  <1>5. p.floor \in Nat /\ p.alphaNum \in Nat /\ p.alphaDen \in Nat
    <2>1. (CHOOSE c \in SqlParameter(q) : TRUE) \in parameters
      BY DEF SqlParameter
    <2>2. p \in Values
      BY <2>1 DEF PeriodsIInv, IInv, TypeOK, Params
    <2> QED BY <2>2, PricePeriodsAssumption
  <1>6. u = IF p.alphaDen = 0 \/ k = 0 THEN 0 ELSE (p.alphaNum * v) \div (p.alphaDen * k)
    BY <1>4 DEF UnboundMinLot
  <1>7. MinLot(q) = IF u >= p.floor THEN u ELSE p.floor
    BY <1>4 DEF MinLot
  <1>8. PassesMinLot(lot, p, v, n)
          <=> IF v = 0 \/ n = 0 THEN lot >= p.floor
              ELSE lot * p.alphaDen * n >= p.alphaNum * v - (p.alphaDen * n - 1)
    BY DEF PassesMinLot
  <1>9. SqlMinLot(q) =
          IF v = 0 \/ n = 0 THEN {p.floor}
          ELSE {(p.alphaNum * v) \div (d * n) : d \in {p.alphaDen} \ {0}}
    BY DEF SqlMinLot
  <1>10. QuietBefore(q) => k = 0
    <2>1. ASSUME NEW d \in RowsOf(q - 1), QuietBefore(q) PROVE FALSE
      <3>1. d \in auctions /\ AuctionQuarter(d) = q - 1
        BY DEF RowsOf, PeriodsTypeOK
      <3>2. CASE q = 1
        <4>1. LastQuarterBefore(q) = {}
          BY <3>2 DEF LastQuarterBefore
        <4> QED BY <2>1, <4>1 DEF QuietBefore
      <3>3. CASE q # 1
        <4>1. q - 1 \in {AuctionQuarter(a) : a \in auctions} \cap 1 .. (q - 1)
          BY <1>1, <3>1, <3>3
        <4>2. q - 1 \in LastQuarterBefore(q)
          BY <1>1, <4>1 DEF LastQuarterBefore
        <4>3. ASSUME NEW r \in LastQuarterBefore(q) PROVE r = q - 1
          <5>1. r \in 1 .. (q - 1)
            BY <4>3 DEF LastQuarterBefore
          <5>2. q - 1 <= r
            BY <4>1, <4>3 DEF LastQuarterBefore
          <5> QED BY <1>1, <5>1, <5>2
        <4> QED BY <2>1, <4>2, <4>3 DEF QuietBefore
      <3> QED BY <3>2, <3>3
    <2>2. SUFFICES ASSUME QuietBefore(q) PROVE k = 0
      OBVIOUS
    <2>3. RowsOf(q - 1) = {}
      BY <2>1, <2>2
    <2> QED BY <2>3, FS_EmptySet DEF CountBefore
  <1>11. ~QuietBefore(q) /\ v # 0 => n = k
    <2>1. \A d \in view : AuctionQuarter(d) \in Nat
      BY AuctionQuarters DEF PeriodsTypeOK
    <2>2. SUFFICES ASSUME ~QuietBefore(q), v # 0 PROVE n = k
      OBVIOUS
    <2>3. q > 1
      BY <1>1, <1>3, <2>2
    <2> QED BY <1>1, <2>1, <2>2, <2>3, CarriedIsBefore DEF PeriodsTypeOK
  <1> HIDE DEF n, k, v, p, u
  <1>12. k = 0 \/ p.alphaDen = 0 \/ v = 0 => MinLot(q) = p.floor
    <2> SUFFICES ASSUME k = 0 \/ p.alphaDen = 0 \/ v = 0 PROVE MinLot(q) = p.floor
      OBVIOUS
    <2>1. u = 0
      <3> SUFFICES ASSUME ~(p.alphaDen = 0 \/ k = 0) PROVE u = 0
        BY <1>6
      <3> DEFINE d == p.alphaDen * k
                 w == p.alphaNum * v
      <3>1. d \in Nat \ {0} /\ w = 0
        BY <1>2, <1>5
      <3> HIDE DEF d, w
      <3>2. w \div d = 0
        BY <3>1
      <3> QED BY <1>6, <3>2 DEF d, w
    <2> QED BY <1>5, <1>7, <2>1
  <1>13. CASE v = 0 \/ n = 0
    <2>1. PassesMinLot(lot, p, v, n) <=> \E m \in SqlMinLot(q) : lot >= m
      BY <1>8, <1>9, <1>13
    <2>2. MinLot(q) = p.floor
      BY <1>10, <1>11, <1>12, <1>13
    <2>3. SqlMinLot(q) = {p.floor}
      BY <1>9, <1>13
    <2>4. \E m \in SqlMinLot(q) : MinLot(q) = IF m >= p.floor THEN m ELSE p.floor
      BY <2>2, <2>3
    <2> QED BY <2>1, <2>2, <2>4 DEF n, v, p
  <1>14. CASE ~(v = 0 \/ n = 0) /\ p.alphaDen = 0
    <2>1. SqlMinLot(q) = {}
      BY <1>9, <1>14
    <2>2. ~PassesMinLot(lot, p, v, n)
      <3>1. lot * p.alphaDen * n = 0 /\ p.alphaDen * n - 1 = -1
        BY <1>2, <1>14
      <3>2. p.alphaNum * v \in Nat
        BY <1>3, <1>5
      <3> QED BY <1>8, <1>14, <3>1, <3>2
    <2>3. MinLot(q) = p.floor
      BY <1>12, <1>14
    <2> QED BY <1>14, <2>1, <2>2, <2>3 DEF n, v, p
  <1>15. CASE ~(v = 0 \/ n = 0) /\ p.alphaDen # 0
    <2> DEFINE d == p.alphaDen * n
               w == p.alphaNum * v
    <2>1. d \in Nat \ {0} /\ w \in Nat /\ lot * p.alphaDen * n = lot * d
      BY <1>2, <1>3, <1>5, <1>15
    <2>2. lot * d >= w - (d - 1) <=> lot >= w \div d
      BY <2>1, ProductsAndQuotient
    <2>3. SqlMinLot(q) = {w \div d}
      BY <1>9, <1>15
    <2>4. PassesMinLot(lot, p, v, n) <=> \E m \in SqlMinLot(q) : lot >= m
      BY <1>8, <1>15, <2>1, <2>2, <2>3
    <2>5. QuietBefore(q) => MinLot(q) = p.floor
      BY <1>10, <1>12
    <2>6. ~QuietBefore(q) => u = w \div d
      BY <1>6, <1>11, <1>15
    <2>7. ~QuietBefore(q)
            => \E m \in SqlMinLot(q) : MinLot(q) = IF m >= p.floor THEN m ELSE p.floor
      <3> HIDE DEF d, w
      <3> QED BY <1>7, <2>3, <2>6
    <2> QED BY <1>15, <2>4, <2>5, <2>7 DEF n, v, p
  <1> QED BY <1>13, <1>14, <1>15

(* The SQL function decides by one number, and after a quarter with        *)
(* auctions and with a denominator the API reports the larger of it and    *)
(* the floor, else the floor: for all lots, parameters, bound volumes and  *)
(* numbers of periods.                                                     *)
THEOREM MinLotReported == PeriodsSpec => []MinLotAsReported
  <1>1. PeriodsIInv /\ PeriodsTypeOK => MinLotAsReported
    <2> SUFFICES ASSUME PeriodsIInv, PeriodsTypeOK, NEW a \in auctions
                 PROVE  LET q == AuctionQuarter(a)
                            p == Params(q)
                        IN  SqlParameter(q) # {} =>
                              /\ PassesMinLot(a.lot, p, BoundBefore(q), CarriedCount(q))
                                   <=> \E m \in SqlMinLot(q) : a.lot >= m
                              /\ IF QuietBefore(q) \/ p.alphaDen = 0
                                 THEN MinLot(q) = p.floor
                                 ELSE \E m \in SqlMinLot(q) :
                                        MinLot(q) = IF m >= p.floor THEN m ELSE p.floor
      BY DEF MinLotAsReported
    <2>0. IsFiniteSet(view)
      <3>1. Placed(view)
        BY DEF PeriodsTypeOK, Placed
      <3> QED BY <3>1, PlacedFinite
    <2> DEFINE q == AuctionQuarter(a)
    <2>1. a \in Auction /\ a.lot \in Nat
      BY PricePeriodsAssumption DEF PeriodsIInv, Auction
    <2>2. ASSUME SqlParameter(q) # {} PROVE q \in Quarters
      <3>1. PICK c \in parameters : QuarterOf(c.at.epoch) < q
        BY <2>2 DEF SqlParameter
      <3>2. c.at.epoch \in Nat /\ a.at.epoch \in 0 .. MaxEpoch
        BY <2>1 DEF PeriodsIInv, IInv, TypeOK, Position, Auction, EventPosition
      <3>3. QuarterOf(c.at.epoch) \in Nat /\ q \in Nat /\ QuarterOf(MaxEpoch) \in Nat
        BY <3>2, QuarterType, AdmittedListsAssumption DEF AuctionQuarter
      <3>4. q <= QuarterOf(MaxEpoch)
        BY <3>2, QuarterMonotone, AdmittedListsAssumption DEF AuctionQuarter
      <3> HIDE DEF q
      <3> QED BY <3>1, <3>3, <3>4 DEF Quarters
    <2> QED BY <2>0, <2>1, <2>2, MinLotFollows
  <1> QED BY <1>1, PeriodsInvariant, PeriodsTypeCorrect, PTL
=============================================================================
