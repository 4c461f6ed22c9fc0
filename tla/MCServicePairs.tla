---------------------------- MODULE MCServicePairs ----------------------------
(***************************************************************************)
(* Instances of ServicePairs for TLC.                                      *)
(***************************************************************************)
EXTENDS ServicePairs, FiniteSets, TLC

CONSTANTS MaxRows, MaxAdmissions, MaxCutoffs

(* Orchestrators, pairs and wallets are only compared for equality.        *)
Symmetry ==
  Permutations(Orchestrators) \cup Permutations(Pairs) \cup Permutations(Wallets)

(* Bounds on how much history the tables hold: one pair and one wallet     *)
(* with many events in an epoch, or two pairs, two wallets and any cutoff  *)
(* with fewer.                                                             *)
OnePair ==
  /\ pos.log <= 1 \/ pos.epoch < ACTIVATION_EPOCH \/ pos.epoch = QuarterEnd(1)
  /\ Cardinality({r.pair : r \in service_pair}) <= 1
  /\ Cardinality({r.wallet : r \in admission}) <= 1
  /\ Cardinality(admission) < MaxAdmissions
  /\ \A c \in cutoff : c.value < EPOCHS_PER_QUARTER

Low(x) == x = None \/ x.log <= 1

TwoPairs ==
  /\ Low(pos)
  /\ \A r \in service_pair : Low(r.to) /\ (Low(r.from) \/ r.from.log = 2)
  /\ \A r \in admission : Low(r.from) /\ Low(r.to)
  /\ \A c \in cutoff : Low(c.at)

ShortHistory ==
  /\ Cardinality(service_pair) <= MaxRows
  /\ Cardinality(admission) <= MaxAdmissions
  /\ Cardinality(cutoff) <= MaxCutoffs
  /\ OnePair \/ TwoPairs

(* Steps that leave the bounds are not taken.                              *)
BoundedSpec == Init /\ [][Next /\ ShortHistory']_vars
=============================================================================
