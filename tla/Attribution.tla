----------------------------- MODULE Attribution -----------------------------
(***************************************************************************)
(* What the binding tables are for, without tables: for every pair and     *)
(* every position, the one orchestrator that is credited for a payment     *)
(* there.  There are no rows, no intervals to close and nothing to delete; *)
(* an event of the Service Rewards Actor rewrites a final part of the      *)
(* timeline.                                                               *)
(***************************************************************************)
EXTENDS ChainTime

CONSTANTS Orchestrators, Pairs, Cutoffs, None, MaxEpoch, MaxLog

VARIABLES
  admitted,   (* orchestrators admitted at pos                             *)
  cutoff,     (* REGISTRATION_CUTOFF values and when they were set         *)
  credit,     (* pair -> position -> orchestrator or None                  *)
  since,      (* pair -> first position of its present binding, or None    *)
  pos         (* position of the last event                                *)

avars == <<admitted, cutoff, credit, since, pos>>

(* Bound: the timeline ends a quarter or more after the last event and     *)
(* after the activation.                                                   *)
LastEpoch == ACTIVATION_EPOCH + MaxEpoch + EPOCHS_PER_QUARTER

Timeline == [epoch : 0 .. LastEpoch, log : 0 .. MaxLog + 1]

From(p)  == {x \in Timeline : AtOrBefore(p, x)}
After(p) == {x \in Timeline : Before(p, x)}

Earliest(S) == CHOOSE x \in S : \A y \in S : AtOrBefore(x, y)

Bound(pr) == since[pr] # None

Rewrite(pr, S, o) ==
  credit' = [credit EXCEPT ![pr] =
               [x \in Timeline |-> IF x \in S THEN o ELSE @[x]]]

(* The quarter of p and later, as far as it follows every credit the pair  *)
(* was given in that quarter.  Before activation nothing counts and Q1 is  *)
(* what is bound; but a pair that was credited then is bound from there.   *)
Unclaimed(pr, p) ==
  LET claimed == {y \in Timeline : /\ credit[pr][y] # None
                                   /\ QuarterOf(y.epoch) = QuarterOf(p.epoch)}
  IN  IF claimed = {}
      THEN From(At(QuarterStart(EffectiveQuarter(p.epoch)), 0))
      ELSE {x \in Timeline : \A y \in claimed : Before(y, x)}

TooLate(p) ==
  LET known == {c \in cutoff :
                  c.at.epoch < QuarterStart(EffectiveQuarter(p.epoch))}
  IN  /\ QuarterOf(p.epoch) >= 1
      /\ \E c \in known :
           /\ \A d \in known : AtOrBefore(d.at, c.at)
           /\ p.epoch > QuarterEnd(QuarterOf(p.epoch)) - c.value

-----------------------------------------------------------------------------

Declare(o, pr, p) ==
  LET q == EffectiveQuarter(p.epoch)
      S == IF TooLate(p) THEN From(At(QuarterEnd(q) + 1, 0)) ELSE Unclaimed(pr, p)
  IN  /\ o \in admitted
      /\ ~Bound(pr)
      /\ Rewrite(pr, S, o)
      /\ since' = [since EXCEPT ![pr] = Earliest(S)]
      /\ UNCHANGED <<admitted, cutoff>>

(* With inherit the new orchestrator also gets what the binding has earned *)
(* in this quarter, provided the binding is not older than the quarter.    *)
Reassign(o, pr, p, inherit) ==
  LET q == EffectiveQuarter(p.epoch)
      S == IF inherit /\ since[pr].epoch >= QuarterStart(q)
           THEN From(since[pr])
           ELSE After(p)
  IN  /\ o \in admitted
      /\ Bound(pr)
      /\ Rewrite(pr, S, o)
      /\ since' = [since EXCEPT ![pr] = Earliest(S)]
      /\ UNCHANGED <<admitted, cutoff>>

(* The bindings of the pairs in P end at p: nothing after p is credited.   *)
End(P, p) ==
  /\ credit' = [pr \in Pairs |->
                  [x \in Timeline |-> IF pr \in P /\ x \in After(p)
                                      THEN None ELSE credit[pr][x]]]
  /\ since' = [pr \in Pairs |-> IF pr \in P THEN None ELSE since[pr]]

Cancel(pr, p) ==
  /\ Bound(pr)
  /\ End({pr}, p)
  /\ UNCHANGED <<admitted, cutoff>>

(* A bound pair is credited to its orchestrator at the end of the timeline. *)
Holder(pr) == credit[pr][At(LastEpoch, MaxLog + 1)]

Remove(o, p) ==
  /\ o \in admitted
  /\ End({pr \in Pairs : Holder(pr) = o}, p)
  /\ admitted' = admitted \ {o}
  /\ UNCHANGED cutoff

Admit(o) ==
  /\ admitted' = admitted \cup {o}
  /\ UNCHANGED <<cutoff, credit, since>>

SetCutoff(p) ==
  /\ \E c \in Cutoffs : cutoff' = cutoff \cup {[value |-> c, at |-> p]}
  /\ UNCHANGED <<admitted, credit, since>>

Init ==
  /\ admitted = {}
  /\ cutoff = {}
  /\ credit = [pr \in Pairs |-> [x \in Timeline |-> None]]
  /\ since = [pr \in Pairs |-> None]
  /\ pos = At(0, 0)

(* An event whose handler cannot be completed leaves the timeline alone.   *)
Next ==
  \E p \in [epoch : 0 .. MaxEpoch, log : 0 .. MaxLog] :
    /\ Before(pos, p)
    /\ pos' = p
    /\ \/ \E o \in Orchestrators : Admit(o) \/ Remove(o, p)
       \/ SetCutoff(p)
       \/ \E o \in Orchestrators, pr \in Pairs :
            \/ Declare(o, pr, p)
            \/ \E inherit \in BOOLEAN : Reassign(o, pr, p, inherit)
       \/ \E pr \in Pairs : Cancel(pr, p)
       \/ UNCHANGED <<admitted, cutoff, credit, since>>

Spec == Init /\ [][Next]_avars
=============================================================================
