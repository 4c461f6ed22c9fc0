---------------------------- MODULE MCAdmittedLists ----------------------------
(***************************************************************************)
(* Instances of AdmittedLists for TLC.                                     *)
(***************************************************************************)
EXTENDS AdmittedLists, FiniteSets, TLC

CONSTANTS MaxRows, MaxParameters

(* Contracts, tokens and values are only compared for equality.            *)
Symmetry ==
  Permutations(PayContracts) \cup Permutations(Stablecoins \ NotERC20)
    \cup Permutations(Values)

(* Bounds on how much history the tables hold.  Lists and parameters do    *)
(* not meet, so a history has the one or the other.                        *)
ShortHistory ==
  /\ parameters = {} \/ contracts \cup tokens = {}
  /\ Cardinality(contracts) <= MaxRows
  /\ Cardinality(tokens) <= MaxRows
  /\ Cardinality(parameters) <= MaxParameters
=============================================================================
