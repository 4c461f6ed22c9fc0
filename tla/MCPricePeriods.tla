---------------------------- MODULE MCPricePeriods ----------------------------
(***************************************************************************)
(* Instances of PricePeriods for TLC.                                      *)
(***************************************************************************)
EXTENDS PricePeriods, TLC

CONSTANTS MaxChanges, MaxAuctions, MaxBound

(* With the first row a bound volume raises the minimum lot and the band   *)
(* lets 2 follow 3 but not 3 follow 2; with the second the quotient stays  *)
(* below the floor and the band is wide; with the third there is no        *)
(* quotient.                                                               *)
MCValues ==
  {[floor |-> 1, alphaNum |-> 1, alphaDen |-> 2, bps |-> 4000],
   [floor |-> 3, alphaNum |-> 1, alphaDen |-> 3, bps |-> 10000],
   [floor |-> 2, alphaNum |-> 1, alphaDen |-> 0, bps |-> 10000]}

(* Contracts and tokens are only compared for equality.                    *)
Symmetry ==
  Permutations(PayContracts) \cup Permutations(Stablecoins \ NotERC20)

Submitted == {q \in Quarters : bound[q] # None}

(* Bounds.  Lists and parameters are published before the activation; then *)
(* there are auctions, bound volumes and changes of the lists or the       *)
(* parameters, the fewer auctions the more changes, and none beside a zero *)
(* denominator.  Or one burn is passed over while contracts come and go.   *)
Early(p) == p.epoch < ACTIVATION_EPOCH

Started ==
  /\ \A rows \in {contracts, tokens} : \E r \in rows : Early(r.from)
  /\ \E c \in parameters : Early(c.at)

LaterChanges ==
  Cardinality({r \in contracts \cup tokens : r.to # None \/ ~Early(r.from)})
    + Cardinality({c \in parameters : ~Early(c.at)})

Counted ==
  /\ skipped = {}
  /\ LaterChanges <= MaxChanges
  /\ Cardinality({c \in parameters : Early(c.at)}) <= 1
  /\ pos.epoch >= ACTIVATION_EPOCH \/ auctions # {} \/ Submitted # {} => Started
  /\ \A a \in auctions : ~Early(a.at)
  /\ \A c \in parameters : c.value.alphaDen = 0 => LaterChanges = 0
  /\ Cardinality(auctions) + LaterChanges <= MaxAuctions
  /\ Cardinality(Submitted) <= MaxBound

PassedOver ==
  /\ auctions = {} /\ Submitted = {} /\ parameters = {} /\ tokens = {}
  /\ Cardinality(skipped) <= 1

ShortHistory == pos.log = 0 /\ (Counted \/ PassedOver)

(* Steps that leave the bounds are not taken.                              *)
BoundedSpec == PeriodsInit /\ [][PeriodsNext /\ ShortHistory']_periodVars
=============================================================================
