----------------------------- MODULE MCIndexerRuns -----------------------------
(* Instances of IndexerRuns: a chain on which the pay contracts are admitted *)
(* at block 1, one of them is removed at block 2, and rails are created at  *)
(* the blocks the configurations name.                                      *)
EXTENDS IndexerRuns

CONSTANTS P1, P2, T1

(* Every contract is deployed with the chain, the tokens a block later.     *)
MCDeployed == [c \in Contracts |-> IF c \in Tokens THEN 1 ELSE 0]

Row(c, admitted, removed) ==
  [contract |-> c, admitted |-> admitted, removed |-> removed]

OneContract == {Row(P1, 1, None)}

RemovedContract == {Row(P1, 0, 1), Row(P1, 1, 2)}

TwoContracts == {Row(P1, 0, None), Row(P2, 1, None)}

RemovedAndTwo == {Row(P1, 0, 1), Row(P1, 2, None), Row(P2, 1, None)}

RailOf(c, b, t) == [contract |-> c, block |-> b, token |-> t]

EarlyRail == {RailOf(P1, 1, T1), RailOf(P1, 2, None)}

LateRail == {RailOf(P1, 1, None)}

(* Bound where liveness is checked: passes only differ in their identity,   *)
(* which a pass does not change while nothing of the last one is left.      *)
SamePass == pass' = pass \/ InFlight(pass) # {}

FairBoundedSpec == Init /\ pass = 1 /\ [][Next /\ SamePass]_vars /\ Fairness
=============================================================================
