------------------------------- MODULE MCVolume -------------------------------
(***************************************************************************)
(* Instances of Volume for TLC.                                            *)
(***************************************************************************)
EXTENDS Volume, TLC

CONSTANTS MaxPayments, MaxPeriods, MaxChanges, MaxRows

(* An auction whose price divides one payment with a remainder that is     *)
(* rounded down and two with one that is rounded up.                       *)
MCPrices == {[lot |-> 4, claim |-> 3]}

Symmetry ==
  Permutations(PayContracts) \cup Permutations(Orchestrators)
    \cup Permutations(Stablecoins \ NotERC20) \cup Permutations(Values)

(* How often pairs change hands over the timeline.                         *)
Following(x) ==
  IF x.log < MaxLog THEN NextLog(x) ELSE At(x.epoch + 1, 0)

Changes ==
  Cardinality({<<pr, x>> \in Pairs \X EventPosition :
     /\ Following(x) \in EventPosition
     /\ credit[pr][x] # credit[pr][Following(x)]})

(* Every entry was admitted once, and before the activation.               *)
ListsKept ==
  \A rows \in {contracts, tokens} :
    rows # {} /\ \A r \in rows : r.to = None /\ r.from.epoch < ACTIVATION_EPOCH

(* Bounds.  Where nothing is paid and nobody credited, the tables hold     *)
(* MaxRows rows each, but lists and parameters do not meet; an entry can   *)
(* be admitted, removed and admitted again in the first quarter.           *)
ListsOnly ==
  /\ payments = {} /\ periods = {}
  /\ \A pr \in Pairs, x \in EventPosition : credit[pr][x] = None
  /\ parameters = {} \/ contracts \cup tokens = {}
  /\ \A rows \in {contracts, tokens, parameters} : Cardinality(rows) <= MaxRows
  /\ pos.log <= 1 \/ pos.epoch = 1

(* Where there are payments, the actor has at most one event in an epoch,  *)
(* and only before the activation more.  Where the lists change then, a    *)
(* pair changes hands once, as an epoch begins, and there is one payment   *)
(* and one period; else payments and periods are three together.           *)
WithPayments ==
  /\ pos.log = 0 \/ (pos.epoch = 0 /\ pos.log = 1)
  /\ \A r \in payments \cup periods : r.at.log <= 1
  /\ \A pr \in Pairs, x \in EventPosition :
       x.log > (IF ListsKept THEN 1 ELSE 0)
         => credit[pr][x] = credit[pr][At(x.epoch, x.log - 1)]
  /\ parameters = {}
  /\ Cardinality(contracts) + Cardinality(tokens) <= 3
  /\ \A q \in Quarters : boundary[q].tokens \cap NotERC20 = {}
  /\ \A m \in payments : m.token \notin NotERC20
  /\ Changes <= IF ListsKept THEN MaxChanges ELSE 1
  /\ Cardinality(payments) <= IF ListsKept THEN MaxPayments ELSE 1
  /\ Cardinality(periods) <= IF ListsKept THEN MaxPeriods ELSE 1
  /\ Cardinality(payments) + Cardinality(periods) <= 3

ShortHistory == ListsOnly \/ WithPayments

(* Steps that leave the bounds are not taken.                              *)
BoundedSpec == VolumeInit /\ [][VolumeNext /\ ShortHistory']_volumeVars
=============================================================================
