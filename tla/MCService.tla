------------------------------- MODULE MCService -------------------------------
(* Instances of Service.  Behaviours are short in one of three ways: volume  *)
(* postings and the views of quarters, within one process; the gate, within  *)
(* one process; all tables through restarts, without requests.               *)
EXTENDS Service, TLC

CONSTANTS MaxEvents

Gate(base, ratio) == [base |-> base, ratio |-> ratio]

(* With SCALE 10 the target of the second is not exact after two steps.      *)
InitialGate == Gate(100, 27)

LaterGates == {Gate(10, 5)}

(* Events of a block are numbered from 0.                                  *)
Dense == \A r \in Events : r.at.log = 0 \/
           \E s \in Events : s.at = At(r.at.epoch, r.at.log - 1)

Only(ts, n) ==
  /\ \A t \in DOMAIN chain \ ts : chain[t] = {}
  /\ Cardinality(Events) <= n
  /\ Dense

OneProcess == version = 1 /\ (phase = "down" => head = 0)

PostingViews ==
  /\ Only({"admissions", "postings"}, MaxEvents)
  /\ OneProcess
  /\ state["swa"] = None
  /\ \A r \in chain.admissions : r.at.epoch = 0
  /\ \A r \in chain.postings : r.quarter = 1
  /\ \/ request = Idle /\ cached = None /\ fills = {}
     \/ request.kind = "posting" /\ request.quarter = 1
        /\ Cardinality((fills \cup {cached}) \ {None}) <= 1

QuarterViews ==
  /\ Only({}, 0)
  /\ OneProcess
  /\ \A a \in Actors : state[a] = None
  /\ request.kind \in {"idle", "quarters"}

GateViews ==
  /\ Only({"params", "checks"}, MaxEvents)
  /\ head <= 3
  /\ OneProcess
  /\ state["sra"] = None
  /\ request.kind \in {"idle", "gate"}
  /\ request # Idle => request.epoch \in {0, 2, None}
  /\ cached = None
  /\ fills = {}

Upgrades ==
  /\ Only(DOMAIN chain, MaxEvents - 1)
  /\ head <= 3
  /\ request = Idle
  /\ cached = None
  /\ fills = {}

Themes == PostingViews \/ QuarterViews \/ GateViews \/ Upgrades

BoundedSpec == Init /\ [][Next /\ Themes']_vars

Symmetry == Permutations(Orchestrators)
=============================================================================
