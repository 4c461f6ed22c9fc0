------------------------------ MODULE ChainTime ------------------------------
(***************************************************************************)
(* Positions on the chain and the calendar of quarters.                    *)
(*                                                                         *)
(* Every indexed event sits at an (epoch, log index) pair, and every       *)
(* validity interval kept in the database is bounded by such pairs.  The   *)
(* calendar maps an epoch to the FIP-0118 quarter it belongs to; quarter 0 *)
(* is everything before the activation epoch.                              *)
(***************************************************************************)
EXTENDS Integers

CONSTANTS
  ACTIVATION_EPOCH,     (* first epoch of Q1                               *)
  EPOCHS_PER_QUARTER    (* length of a quarter                             *)

ASSUME CalendarAssumption ==
  /\ ACTIVATION_EPOCH \in Nat
  /\ EPOCHS_PER_QUARTER \in Nat \ {0}

Position == [epoch : Nat, log : Nat]

At(e, l) == [epoch |-> e, log |-> l]

(* The order of the SQL comparisons: by epoch, then by log index.          *)
Before(p, q) ==
  \/ p.epoch < q.epoch
  \/ p.epoch = q.epoch /\ p.log < q.log

AtOrBefore(p, q) ==
  \/ p.epoch < q.epoch
  \/ p.epoch = q.epoch /\ p.log <= q.log

(* The position right after p in the same epoch.                           *)
NextLog(p) == At(p.epoch, p.log + 1)

QuarterOf(e) ==
  IF e < ACTIVATION_EPOCH
  THEN 0
  ELSE ((e - ACTIVATION_EPOCH) \div EPOCHS_PER_QUARTER) + 1

QuarterStart(q) == ACTIVATION_EPOCH + EPOCHS_PER_QUARTER * (q - 1)

QuarterEnd(q) == QuarterStart(q) + EPOCHS_PER_QUARTER - 1

(* Mutant: the calendar before activation is not folded into Q1.           *)
EffectiveQuarter_NotFolded(e) == QuarterOf(e)

(* The quarter an event of epoch e acts on: Q1 for everything before it.   *)
EffectiveQuarter(e) == IF QuarterOf(e) = 0 THEN 1 ELSE QuarterOf(e)
=============================================================================
