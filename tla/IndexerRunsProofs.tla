--------------------------- MODULE IndexerRunsProofs ---------------------------
(***************************************************************************)
(* What holds of IndexerRuns for any set of contracts, any chain, any      *)
(* batch sizes and any number of passes in flight: the cursor never lies,  *)
(* nothing unreadable is ingested, and a contract that has its stage of    *)
(* the pass for itself, as the two actors have, is ingested exactly once   *)
(* although runs of other contracts may overlap.  The reason is that its   *)
(* run is the only one the pass awaits: the pass cannot end while it is    *)
(* under way.                                                              *)
(***************************************************************************)
EXTENDS Status, TLAPS, WellFoundedInduction

(* A block the configuration lets the indexer read.                        *)
Readable(b) ==
  b <= final \/ (HeightDifference # None /\ b <= head - HeightDifference)

(* The stage of a pass in which a contract is indexed.                     *)
StageOf(c) ==
  CASE c = Sra -> "sra"
    [] c = Swa -> "swa"
    [] c \in PayContracts -> "pay"
    [] OTHER -> "tokens"

(* The contracts that share their stage with no other one: the actors, and *)
(* a pay contract or a token without a second one.                         *)
Sole == {c \in Contracts : \A d \in Contracts : StageOf(d) = StageOf(c) => d = c}

(* What a run remembers agrees with the tables: all blocks before its      *)
(* batch are ingested, its batch is readable, and the run of a contract    *)
(* alone in its stage is the current pass's only one and still has the     *)
(* cursor it read.                                                         *)
RunOK(p, c) ==
  /\ runs[p][c].step \in {"read", "planned"} =>
       /\ Deployed[c] <= runs[p][c].from
       /\ \A b \in Nat : Deployed[c] <= b /\ b < runs[p][c].from => b \in ingested[c]
       /\ c \in Sole => runs[p][c].from = FromBlock(c)
  /\ runs[p][c].step = "planned" =>
       /\ runs[p][c].from <= runs[p][c].to
       /\ \A b \in Nat : b <= runs[p][c].to => Readable(b)
  /\ runs[p][c].step # "idle" /\ c \in Sole => p = pass /\ stage = StageOf(c)

TableOK(c) ==
  /\ cursor[c] # None => Deployed[c] <= cursor[c]
  /\ \A b \in Nat :
       cursor[c] # None /\ Deployed[c] <= b /\ b <= cursor[c] => b \in ingested[c]
  /\ \A b \in ingested[c] : Readable(b)
  /\ c \in Sole =>
       /\ repeated[c] = {}
       /\ \A b \in ingested[c] :
            cursor[c] # None /\ Deployed[c] <= b /\ b <= cursor[c]

(* The runs of the pass are those of its stage.                            *)
StageRuns == stage # "idle" => \A c \in InFlight(pass) : StageOf(c) = stage

IInv ==
  /\ TypeOK
  /\ RetrySlotFree
  /\ StageRuns
  /\ \A p \in Passes, c \in Contracts : RunOK(p, c)
  /\ \A c \in Contracts : TableOK(c)

-----------------------------------------------------------------------------
(* The last removal.                                                       *)

Less == {p \in Nat \X Nat : p[1] < p[2]}

(* The natural numbers have no infinite descent, for a relation given as a *)
(* set.                                                                    *)
LEMMA LessWellFounded == IsWellFoundedOn(Less, Nat)
<1>1. OpToRel(<, Nat) = Less
  BY DEF OpToRel, Less
<1> QED
  BY <1>1, NatLessThanWellFounded

(* A nonempty set of numbers up to B has a largest one.                    *)
LEMMA LargestExists ==
  ASSUME NEW B \in Nat, NEW T \in SUBSET (0 .. B), T # {}
  PROVE  \E x \in T : \A y \in T : y <= x
<1> DEFINE U == {B - t : t \in T}
<1>1. \A t \in T : t \in 0 .. B
  OBVIOUS
<1>2. U \subseteq Nat
  <2>1. \A t \in T : B - t \in Nat
    BY <1>1
  <2> QED
    BY <2>1
<1>3. U # {}
  <2>1. PICK t \in T : TRUE
    OBVIOUS
  <2>2. B - t \in U
    OBVIOUS
  <2> QED
    BY <2>2
<1>4. PICK m \in U : \A u \in U : <<u, m>> \notin Less
  BY <1>2, <1>3, LessWellFounded, WFMin
<1>5. PICK t \in T : m = B - t
  OBVIOUS
<1>6. ASSUME NEW y \in T PROVE y <= t
  <2>1. <<B - y, m>> \notin Less
    BY <1>4
  <2>2. t \in 0 .. B /\ y \in 0 .. B
    BY <1>1, <1>6
  <2>3. B - y \in Nat /\ m \in Nat
    BY <1>2
  <2> QED
    BY <2>1, <2>2, <2>3, <1>5 DEF Less
<1> QED
  BY <1>6

(* The bound the orchestrator gives to a run is an epoch or none.          *)
LEMMA RemovalType ==
  ASSUME IndexerRunsAssumption, TypeOK, NEW c \in ListedPay
  PROVE  RemovalOf(c) \in Nat \cup {None}
<1> DEFINE rows == {r \in KnownRows : r.contract = c}
           removals == {r.removed : r \in rows}
<1>1. CASE \E r \in rows : Open(r)
  BY <1>1 DEF RemovalOf
<1>2. CASE ~ \E r \in rows : Open(r)
  <2>1. cursor[Sra] \in Nat
    BY DEF TypeOK, ListedPay, KnownRows, Contracts, Actors
  <2>2. ASSUME NEW r \in rows PROVE r.removed \in 0 .. cursor[Sra]
    <3>1. r.removed # None /\ ~(r.removed > cursor[Sra])
      BY <1>2 DEF Open
    <3>2. r.removed \in Nat \cup {None}
      BY DEF KnownRows, IndexerRunsAssumption
    <3> QED
      BY <3>1, <3>2, <2>1
  <2>3. removals \in SUBSET (0 .. cursor[Sra])
    BY <2>2
  <2>4. removals # {}
    <3>1. PICK r \in KnownRows : r.contract = c
      BY DEF ListedPay
    <3>2. r.removed \in removals
      BY <3>1
    <3> QED
      BY <3>2
  <2>5. PICK x \in removals : \A y \in removals : y <= x
    <3> HIDE DEF removals
    <3> QED
      BY <2>1, <2>3, <2>4, LargestExists
  <2>6. \A r \in rows : r.removed <= x
    BY <2>5
  <2>7. RemovalOf(c) \in removals
    BY <2>5, <2>6, <1>2 DEF RemovalOf
  <2> QED
    BY <2>3, <2>7
<1> QED
  BY <1>1, <1>2

(* The bound is not below any removal of the contract that is known.       *)
LEMMA RemovalIsLast ==
  ASSUME IndexerRunsAssumption, TypeOK, NEW c \in ListedPay, RemovalOf(c) # None,
         NEW s \in KnownRows, s.contract = c
  PROVE  s.removed \in Nat /\ RemovalOf(c) \in Nat /\ s.removed <= RemovalOf(c)
<1> DEFINE rows == {r \in KnownRows : r.contract = c}
           removals == {r.removed : r \in rows}
<1>1. ~ \E r \in rows : Open(r)
  BY DEF RemovalOf
<1>2. cursor[Sra] \in Nat
  BY DEF TypeOK, KnownRows, Contracts, Actors
<1>3. ASSUME NEW r \in rows PROVE r.removed \in 0 .. cursor[Sra]
  <2>1. r.removed # None /\ ~(r.removed > cursor[Sra])
    BY <1>1, <1>3 DEF Open
  <2>2. r.removed \in Nat \cup {None}
    BY <1>3 DEF KnownRows, IndexerRunsAssumption
  <2> QED
    BY <2>1, <2>2, <1>2
<1>4. removals \in SUBSET (0 .. cursor[Sra])
  BY <1>3
<1>5. s \in rows
  OBVIOUS
<1>6. removals # {}
  BY <1>5
<1>7. PICK x \in removals : \A y \in removals : y <= x
  <2> HIDE DEF removals
  <2> QED
    BY <1>2, <1>4, <1>6, LargestExists
<1>8. \A r \in rows : r.removed <= x
  BY <1>7
<1>9. /\ RemovalOf(c) \in removals
      /\ \A r \in rows : r.removed <= RemovalOf(c)
  BY <1>7, <1>8, <1>1 DEF RemovalOf
<1> QED
  BY <1>9, <1>5, <1>4, <1>3, <1>2

-----------------------------------------------------------------------------
(* Batches.                                                                *)

(* What a node lets a run read is a height and readable.                   *)
LEMMA MaxToBlockReadable ==
  ASSUME IndexerRunsAssumption, head \in Nat, final \in Nat
  PROVE  /\ MaxToBlock \in Nat
         /\ \A b \in Nat : b <= MaxToBlock => Readable(b)
BY DEF MaxToBlock, Readable, IndexerRunsAssumption

(* A batch is not empty and ends where the node's height or before.        *)
LEMMA BatchBounds ==
  ASSUME IndexerRunsAssumption, head \in Nat, final \in Nat,
         NEW from \in Nat, from <= MaxToBlock
  PROVE  /\ ToBlock(from) \in Nat
         /\ from <= ToBlock(from)
         /\ ToBlock(from) <= MaxToBlock
<1>1. MaxToBlock \in Nat
  BY MaxToBlockReadable
<1>2. BatchSize(from) \in Nat /\ BatchSize(from) >= 1
  BY DEF BatchSize, IndexerRunsAssumption
<1> QED
  BY <1>1, <1>2 DEF ToBlock

(* The runs after one of them changed.                                     *)
LEMMA SetFacts ==
  ASSUME runs \in [Passes -> [Contracts -> Run]],
         NEW p \in Passes, NEW c \in Contracts, NEW run \in Run, Set(p, c, run)
  PROVE  /\ runs' \in [Passes -> [Contracts -> Run]]
         /\ runs'[p][c] = run
         /\ \A q \in Passes, d \in Contracts :
              <<q, d>> # <<p, c>> => runs'[q][d] = runs[q][d]
BY DEF Set

(* A run that has not begun, and one about to begin, are runs.             *)
LEMMA RunTypes ==
  ASSUME IndexerRunsAssumption
  PROVE  /\ NoRun \in Run /\ NoRun.step = "idle"
         /\ \A max \in Nat \cup {None} :
              Starting(max) \in Run /\ Starting(max).step = "start"
BY DEF NoRun, Run, Starting, Steps, IndexerRunsAssumption

(* The runs after the pass p starts those of the contracts in D.           *)
LEMMA StartFacts ==
  ASSUME IndexerRunsAssumption,
         runs \in [Passes -> [Contracts -> Run]],
         NEW p \in Passes, NEW D, NEW max \in [D -> Nat \cup {None}],
         runs' = [runs EXCEPT ![p] = Start(p, max)]
  PROVE  /\ runs' \in [Passes -> [Contracts -> Run]]
         /\ \A d \in Contracts :
              runs'[p][d].step = IF d \in D THEN "start" ELSE runs[p][d].step
         /\ \A d \in Contracts \ D : runs'[p][d] = runs[p][d]
         /\ \A q \in Passes \ {p}, d \in Contracts : runs'[q][d] = runs[q][d]
<1>1. \A d \in D : Starting(max[d]) \in Run /\ Starting(max[d]).step = "start"
  BY RunTypes
<1>2. Start(p, max) \in [Contracts -> Run]
  BY <1>1 DEF Start
<1>3. \A d \in Contracts :
        Start(p, max)[d] = IF d \in D THEN Starting(max[d]) ELSE runs[p][d]
  BY DEF Start
<1> QED
  BY <1>1, <1>2, <1>3

-----------------------------------------------------------------------------
(* The steps.                                                              *)

(* At the start there is neither a run nor a row.                          *)
LEMMA InitInvariant ==
  ASSUME IndexerRunsAssumption, Init
  PROVE  IInv
<1>1. \A c \in Contracts : Deployed[c] \in Nat
  BY DEF IndexerRunsAssumption
<1>2. TypeOK
  <2>1. runs \in [Passes -> [Contracts -> Run]]
    BY RunTypes DEF Init
  <2>2. cursor \in [Contracts -> Nat \cup {None}]
    BY DEF Init
  <2>3. ingested \in [Contracts -> SUBSET Nat] /\ repeated \in [Contracts -> SUBSET Nat]
    BY DEF Init
  <2>4. head \in Nat /\ final \in Nat /\ faults \in 0 .. MaxFaults
    BY DEF Init, IndexerRunsAssumption
  <2>5. stage \in Stages /\ retry \in BOOLEAN /\ pass \in Passes
    BY DEF Init, Stages
  <2> QED
    BY <2>1, <2>2, <2>3, <2>4, <2>5 DEF TypeOK
<1>3. \A p \in Passes, c \in Contracts : runs[p][c] = NoRun
  BY DEF Init
<1>4. \A p \in Passes, c \in Contracts : RunOK(p, c)
  BY <1>3, RunTypes DEF RunOK
<1>5. \A c \in Contracts : TableOK(c)
  BY DEF Init, TableOK
<1> QED
  BY <1>2, <1>4, <1>5 DEF Init, IInv, RetrySlotFree, StageRuns

(* A run that changes, while no table and no stage does, disturbs nothing  *)
(* but what is said of itself.                                             *)
LEMMA RunChanges ==
  ASSUME IndexerRunsAssumption, IInv,
         NEW p \in Passes, NEW c \in Contracts, NEW run \in Run, Set(p, c, run),
         runs[p][c].step # "idle",
         UNCHANGED <<chain, tables, stage, retry, pass, faults>>,
         RunOK(p, c)'
  PROVE  IInv'
<1>1. TypeOK'
  BY SetFacts DEF IInv, TypeOK, chain, tables
<1>2. RetrySlotFree'
  BY DEF IInv, RetrySlotFree
<1>3. InFlight(pass)' \subseteq InFlight(pass)
  <2>1. /\ pass' = pass /\ pass \in Passes
        /\ runs \in [Passes -> [Contracts -> Run]]
    BY DEF IInv, TypeOK
  <2>2. ASSUME NEW d \in Contracts, runs'[pass][d].step # "idle"
        PROVE  runs[pass][d].step # "idle"
    <3>1. CASE pass = p /\ d = c
      BY <3>1
    <3>2. CASE ~(pass = p /\ d = c)
      <4>1. runs'[pass][d] = runs[pass][d]
        BY <2>1, <2>2, <3>2, SetFacts
      <4> QED
        BY <4>1, <2>2
    <3> QED
      BY <3>1, <3>2
  <2> QED
    BY <2>1, <2>2 DEF InFlight
<1>4. StageRuns'
  <2>1. StageRuns /\ stage' = stage
    BY DEF IInv
  <2> QED
    BY <1>3, <2>1 DEF StageRuns
<1>5. ASSUME NEW q \in Passes, NEW d \in Contracts PROVE RunOK(q, d)'
  <2>1. CASE <<q, d>> = <<p, c>>
    BY <2>1
  <2>2. CASE <<q, d>> # <<p, c>>
    <3>1. runs'[q][d] = runs[q][d]
      BY <2>2, SetFacts DEF IInv, TypeOK
    <3> QED
      BY <3>1 DEF IInv, RunOK, Readable, FromBlock, chain, tables
  <2> QED
    BY <2>1, <2>2
<1>6. \A d \in Contracts : TableOK(d)'
  BY DEF IInv, TableOK, Readable, chain, tables
<1> QED
  BY <1>1, <1>2, <1>4, <1>5, <1>6 DEF IInv

(* Reading the cursor.                                                     *)
LEMMA ReadCursorStep ==
  ASSUME IndexerRunsAssumption, IInv,
         NEW p \in Passes, NEW c \in Contracts, ReadCursor(p, c)
  PROVE  IInv'
<1> DEFINE begun == [runs[p][c] EXCEPT !.step = "read", !.from = FromBlock(c)]
<1>1. /\ runs[p][c] \in Run /\ runs[p][c].step = "start"
      /\ UNCHANGED <<chain, tables, stage, retry, pass, faults>>
      /\ runs \in [Passes -> [Contracts -> Run]]
  BY DEF IInv, TypeOK, ReadCursor
<1>2. /\ FromBlock(c) \in Nat
      /\ Deployed[c] <= FromBlock(c)
      /\ \A b \in Nat : Deployed[c] <= b /\ b < FromBlock(c) => b \in ingested[c]
  BY DEF FromBlock, IInv, TypeOK, TableOK, IndexerRunsAssumption
<1>3. PICK run \in {NoRun, begun} : Set(p, c, run)
  BY DEF ReadCursor
<1>4. begun \in Run /\ begun.step = "read" /\ begun.from = FromBlock(c)
  BY <1>1, <1>2 DEF Run, Steps
<1>5. run \in Run
  BY <1>3, <1>4, RunTypes
<1>6. runs'[p][c] = run
  BY <1>1, <1>3, <1>5, SetFacts
<1>7. c \in Sole => p = pass /\ stage = StageOf(c)
  BY <1>1 DEF IInv, RunOK
<1>8. FromBlock(c)' = FromBlock(c) /\ ingested' = ingested
  BY <1>1 DEF FromBlock, tables
<1>9. RunOK(p, c)'
  <2>1. CASE run = NoRun
    BY <2>1, <1>6, RunTypes DEF RunOK
  <2>2. CASE run = begun
    <3>1. runs'[p][c].step = "read" /\ runs'[p][c].from = FromBlock(c)
      BY <2>2, <1>4, <1>6
    <3> QED
      BY <3>1, <1>1, <1>2, <1>7, <1>8 DEF RunOK
  <2> QED
    BY <1>3, <2>1, <2>2
<1> QED
  BY <1>1, <1>3, <1>5, <1>9, RunChanges

(* Planning a batch.                                                       *)
LEMMA FetchLogsStep ==
  ASSUME IndexerRunsAssumption, IInv,
         NEW p \in Passes, NEW c \in Contracts, FetchLogs(p, c)
  PROVE  IInv'
<1> DEFINE from == runs[p][c].from
           planned == [runs[p][c] EXCEPT !.step = "planned",
                                         !.to = ToBlock(from), !.last = MaxToBlock]
<1>1. /\ runs[p][c] \in Run /\ runs[p][c].step = "read"
      /\ UNCHANGED <<chain, tables, stage, retry, pass, faults>>
      /\ runs \in [Passes -> [Contracts -> Run]]
      /\ from \in Nat /\ head \in Nat /\ final \in Nat
  BY DEF IInv, TypeOK, FetchLogs, Run
<1>2. MaxToBlock \in Nat /\ \A b \in Nat : b <= MaxToBlock => Readable(b)
  BY <1>1, MaxToBlockReadable
<1>3. /\ Deployed[c] <= from
      /\ \A b \in Nat : Deployed[c] <= b /\ b < from => b \in ingested[c]
      /\ c \in Sole => from = FromBlock(c)
      /\ c \in Sole => p = pass /\ stage = StageOf(c)
  BY <1>1 DEF IInv, RunOK
<1>4. /\ FromBlock(c)' = FromBlock(c) /\ ingested' = ingested
      /\ \A b : Readable(b)' <=> Readable(b)
  BY <1>1 DEF FromBlock, tables, Readable, chain
<1>5. CASE from > MaxToBlock
  <2>1. Set(p, c, NoRun)
    BY <1>5 DEF FetchLogs
  <2>2. RunOK(p, c)'
    BY <2>1, <1>1, SetFacts, RunTypes DEF RunOK
  <2> QED
    BY <2>1, <2>2, <1>1, RunTypes, RunChanges
<1>6. CASE from <= MaxToBlock
  <2>1. Set(p, c, planned)
    BY <1>1, <1>2, <1>6 DEF FetchLogs
  <2>2. /\ ToBlock(from) \in Nat
        /\ from <= ToBlock(from)
        /\ ToBlock(from) <= MaxToBlock
    BY <1>1, <1>6, BatchBounds
  <2>3. /\ planned \in Run /\ planned.step = "planned"
        /\ planned.from = from /\ planned.to = ToBlock(from)
    BY <1>1, <1>2, <2>2 DEF Run, Steps
  <2>4. runs'[p][c] = planned
    BY <1>1, <2>1, <2>3, SetFacts
  <2>5. \A b \in Nat : b <= ToBlock(from) => Readable(b)
    BY <1>2, <2>2
  <2>6. RunOK(p, c)'
    BY <1>1, <1>3, <1>4, <2>2, <2>3, <2>4, <2>5 DEF RunOK
  <2> QED
    BY <2>1, <2>3, <2>6, <1>1, RunChanges
<1> QED
  BY <1>1, <1>2, <1>5, <1>6

(* Writing a batch.  Another run of the contract may see its cursor move;  *)
(* the blocks it counts on stay in the tables, and of an actor there is no *)
(* other run.                                                              *)
LEMMA CommitStep ==
  ASSUME IndexerRunsAssumption, IInv,
         NEW p \in Passes, NEW c \in Contracts, Commit(p, c)
  PROVE  IInv'
<1> DEFINE from == runs[p][c].from
           to   == runs[p][c].to
<1>1. /\ runs[p][c] \in Run /\ runs[p][c].step = "planned"
      /\ UNCHANGED <<chain, stage, retry, pass, faults>>
      /\ runs \in [Passes -> [Contracts -> Run]]
      /\ from \in Nat /\ to \in Nat /\ Deployed[c] \in Nat
      /\ runs[p][c].max \in Nat \cup {None}
  BY DEF IInv, TypeOK, Commit, Run, IndexerRunsAssumption
<1>2. /\ Deployed[c] <= from /\ from <= to
      /\ \A b \in Nat : Deployed[c] <= b /\ b < from => b \in ingested[c]
      /\ \A b \in Nat : b <= to => Readable(b)
      /\ c \in Sole => from = FromBlock(c) /\ p = pass /\ stage = StageOf(c)
  BY <1>1 DEF IInv, RunOK
<1>3. /\ cursor \in [Contracts -> Nat \cup {None}]
      /\ ingested \in [Contracts -> SUBSET Nat]
      /\ repeated \in [Contracts -> SUBSET Nat]
  BY DEF IInv, TypeOK
<1>4. /\ ingested' = [ingested EXCEPT ![c] = @ \cup (from .. to)]
      /\ repeated' = [repeated EXCEPT ![c] = @ \cup ((from .. to) \cap ingested[c])]
      /\ cursor' = [cursor EXCEPT ![c] = to]
  BY DEF Commit
<1>5. PICK run \in {NoRun, Starting(runs[p][c].max)} : Set(p, c, run)
  BY DEF Commit
<1>6. run \in Run /\ run.step \in {"idle", "start"}
  BY <1>1, <1>5, RunTypes
<1>7. /\ runs' \in [Passes -> [Contracts -> Run]]
      /\ runs'[p][c] = run
      /\ \A q \in Passes, d \in Contracts :
           <<q, d>> # <<p, c>> => runs'[q][d] = runs[q][d]
  BY <1>1, <1>5, <1>6, SetFacts
<1>8. TypeOK'
  <2>1. from .. to \subseteq Nat
    BY <1>1
  <2>2. ingested' \in [Contracts -> SUBSET Nat]
    BY <1>3, <1>4, <2>1
  <2>3. repeated' \in [Contracts -> SUBSET Nat]
    BY <1>3, <1>4, <2>1
  <2>4. cursor' \in [Contracts -> Nat \cup {None}]
    BY <1>1, <1>3, <1>4
  <2> QED
    BY <1>1, <1>7, <2>2, <2>3, <2>4 DEF IInv, TypeOK, chain
<1>9. RetrySlotFree'
  BY <1>1 DEF IInv, RetrySlotFree
<1>10. StageRuns'
  <2>1. InFlight(pass)' \subseteq InFlight(pass)
    <3>1. pass' = pass /\ pass \in Passes
      BY <1>1 DEF IInv, TypeOK
    <3>2. ASSUME NEW d \in Contracts, runs'[pass][d].step # "idle"
          PROVE  runs[pass][d].step # "idle"
      BY <3>1, <3>2, <1>1, <1>7
    <3> QED
      BY <3>1, <3>2 DEF InFlight
  <2>2. StageRuns /\ stage' = stage
    BY <1>1 DEF IInv
  <2> QED
    BY <2>1, <2>2 DEF StageRuns
<1>11. \A b : Readable(b)' <=> Readable(b)
  BY <1>1 DEF Readable, chain
<1>12. ASSUME NEW q \in Passes, NEW d \in Contracts PROVE RunOK(q, d)'
  <2>1. CASE <<q, d>> = <<p, c>>
    <3>1. runs'[q][d] = run
      BY <2>1, <1>7
    <3>2. d \in Sole => q = pass /\ stage = StageOf(d)
      BY <2>1, <1>2
    <3>3. pass' = pass /\ stage' = stage
      BY <1>1
    <3> QED
      BY <3>1, <3>2, <3>3, <1>6 DEF RunOK, StageOf
  <2>2. CASE <<q, d>> # <<p, c>>
    <3>1. runs'[q][d] = runs[q][d]
      BY <2>2, <1>7
    <3>2. RunOK(q, d)
      BY DEF IInv
    <3>3. \A b \in ingested[d] : b \in ingested'[d]
      BY <1>3, <1>4
    <3>4. pass' = pass /\ stage' = stage
      BY <1>1
    <3>5. CASE d # c
      <4>1. cursor'[d] = cursor[d]
        BY <3>5, <1>3, <1>4
      <4>2. FromBlock(d)' = FromBlock(d)
        BY <4>1 DEF FromBlock
      <4> QED
        BY <3>1, <3>2, <3>3, <3>4, <4>2, <1>11 DEF RunOK, StageOf
    <3>6. CASE d = c /\ c \notin Sole
      BY <3>1, <3>2, <3>3, <3>4, <3>6, <1>11 DEF RunOK, StageOf
    <3>7. CASE d = c /\ c \in Sole
      <4>1. q # p /\ p = pass
        BY <2>2, <3>7, <1>2
      <4>2. runs[q][d].step = "idle"
        BY <3>2, <3>7, <4>1 DEF RunOK
      <4> QED
        BY <3>1, <4>2 DEF RunOK
    <3> QED
      BY <3>5, <3>6, <3>7
  <2> QED
    BY <2>1, <2>2
<1>13. ASSUME NEW d \in Contracts PROVE TableOK(d)'
  <2>1. CASE d # c
    <3>1. /\ cursor'[d] = cursor[d] /\ ingested'[d] = ingested[d]
          /\ repeated'[d] = repeated[d]
      BY <2>1, <1>3, <1>4
    <3> QED
      BY <3>1, <1>11 DEF IInv, TableOK
  <2>2. CASE d = c
    <3>1. /\ cursor'[c] = to /\ ingested'[c] = ingested[c] \cup (from .. to)
          /\ repeated'[c] = repeated[c] \cup ((from .. to) \cap ingested[c])
      BY <1>3, <1>4
    <3>2. TableOK(c)
      BY DEF IInv
    <3>3. to # None
      BY <1>1 DEF IndexerRunsAssumption
    <3>4. \A b \in Nat : Deployed[c] <= b /\ b <= to => b \in ingested'[c]
      BY <1>1, <1>2, <3>1
    <3>5. \A b \in ingested'[c] : Readable(b)'
      BY <1>1, <1>2, <1>11, <3>1, <3>2 DEF TableOK
    <3>6. ASSUME c \in Sole
          PROVE  /\ repeated'[c] = {}
                 /\ \A b \in ingested'[c] : Deployed[c] <= b /\ b <= to
      <4>1. from = FromBlock(c) /\ cursor[c] \in Nat \cup {None}
        BY <1>2, <1>3, <3>6
      <4>2. \A b \in ingested[c] : b < from /\ Deployed[c] <= b /\ b \in Nat
        BY <1>1, <1>3, <3>2, <3>6, <4>1 DEF TableOK, FromBlock
      <4>3. (from .. to) \cap ingested[c] = {}
        BY <1>1, <4>2
      <4>4. repeated'[c] = {}
        BY <3>1, <3>2, <3>6, <4>3 DEF TableOK
      <4> QED
        BY <1>1, <1>2, <3>1, <4>2, <4>4
    <3> QED
      BY <1>1, <1>2, <2>2, <3>1, <3>3, <3>4, <3>5, <3>6 DEF TableOK
  <2> QED
    BY <2>1, <2>2
<1> QED
  BY <1>8, <1>9, <1>10, <1>12, <1>13 DEF IInv

(* A step of the orchestrator writes no table: its runs are kept, ended or *)
(* begun, and what is left to show is where the runs of sole contracts     *)
(* are.                                                                    *)
LEMMA OrchestratorSteps ==
  ASSUME IInv, UNCHANGED <<chain, tables>>,
         TypeOK', RetrySlotFree', StageRuns',
         \A p \in Passes, c \in Contracts :
           runs'[p][c] = runs[p][c] \/ runs'[p][c].step \in {"idle", "start"},
         \A p \in Passes, a \in Sole :
           runs'[p][a].step # "idle" => p = pass' /\ stage' = StageOf(a)
  PROVE  IInv'
<1>1. \A b : Readable(b)' <=> Readable(b)
  BY DEF Readable, chain
<1>2. \A c : FromBlock(c)' = FromBlock(c)
  BY DEF FromBlock, tables
<1>3. ASSUME NEW p \in Passes, NEW c \in Contracts PROVE RunOK(p, c)'
  <2>1. CASE runs'[p][c] = runs[p][c]
    BY <2>1, <1>1, <1>2 DEF IInv, RunOK, tables, StageOf
  <2>2. CASE runs'[p][c].step \in {"idle", "start"}
    BY <2>2 DEF RunOK, StageOf
  <2> QED
    BY <2>1, <2>2
<1>4. \A c \in Contracts : TableOK(c)'
  BY <1>1 DEF IInv, TableOK, tables
<1> QED
  BY <1>3, <1>4 DEF IInv

(* A run fails: if the pass awaits the run of a sole contract, it is the   *)
(* one that failed, so the pass does not end beside it.                    *)
LEMMA RunFailsStep ==
  ASSUME IndexerRunsAssumption, IInv,
         NEW p \in Passes, NEW c \in Contracts, RunFails(p, c),
         faults' \in 0 .. MaxFaults
  PROVE  IInv'
<1>1. /\ runs \in [Passes -> [Contracts -> Run]]
      /\ runs[p][c].step # "idle"
      /\ UNCHANGED <<chain, tables, pass>>
      /\ Set(p, c, NoRun)
  BY DEF IInv, TypeOK, RunFails
<1>2. /\ runs' \in [Passes -> [Contracts -> Run]]
      /\ runs'[p][c] = NoRun
      /\ \A q \in Passes, d \in Contracts :
           <<q, d>> # <<p, c>> => runs'[q][d] = runs[q][d]
  BY <1>1, SetFacts, RunTypes
<1>3. \/ p = pass /\ stage # "idle" /\ stage' = "idle" /\ retry' = TRUE
      \/ ~(p = pass /\ stage # "idle") /\ UNCHANGED <<stage, retry>>
  BY DEF RunFails, PassRejected
<1>4. TypeOK'
  BY <1>1, <1>2, <1>3 DEF IInv, TypeOK, Stages, chain, tables
<1>5. RetrySlotFree'
  BY <1>3 DEF IInv, RetrySlotFree
<1>6. ASSUME NEW q \in Passes, NEW d \in Contracts, runs'[q][d].step # "idle"
      PROVE  runs'[q][d] = runs[q][d] /\ <<q, d>> # <<p, c>>
  BY <1>2, <1>6, RunTypes
<1>7. StageRuns'
  <2>1. CASE stage' = "idle"
    BY <2>1 DEF StageRuns
  <2>2. CASE stage' = stage
    <3>1. InFlight(pass)' \subseteq InFlight(pass)
      BY <1>1, <1>6 DEF InFlight, IInv, TypeOK
    <3> QED
      BY <3>1, <2>2 DEF IInv, StageRuns
  <2> QED
    BY <1>3, <2>1, <2>2
<1>8. ASSUME NEW q \in Passes, NEW a \in Sole, runs'[q][a].step # "idle"
      PROVE  q = pass' /\ stage' = StageOf(a)
  <2>1. a \in Contracts
    BY DEF Sole
  <2>2. runs[q][a].step # "idle" /\ <<q, a>> # <<p, c>>
    BY <1>6, <1>8, <2>1
  <2>3. q = pass /\ stage = StageOf(a)
    BY <2>1, <2>2 DEF IInv, RunOK
  <2>4. CASE p = pass /\ stage # "idle"
    <3>1. c \in InFlight(pass) /\ a \in InFlight(pass)
      BY <1>1, <2>1, <2>2, <2>3, <2>4 DEF InFlight
    <3>2. StageOf(c) = StageOf(a)
      BY <3>1, <2>3, <2>4 DEF IInv, StageRuns
    <3>3. c = a
      BY <3>2 DEF Sole
    <3> QED
      BY <3>3, <2>2, <2>3, <2>4
  <2>5. CASE ~(p = pass /\ stage # "idle")
    BY <2>3, <2>5, <1>1, <1>3 DEF StageOf
  <2> QED
    BY <2>4, <2>5
<1>9. \A q \in Passes, d \in Contracts :
        runs'[q][d] = runs[q][d] \/ runs'[q][d].step \in {"idle", "start"}
  BY <1>6
<1> QED
  BY <1>1, <1>4, <1>5, <1>7, <1>8, <1>9, OrchestratorSteps

(* A query between two stages fails: the pass has no run.                  *)
LEMMA QueryFailsStep ==
  ASSUME IndexerRunsAssumption, IInv, QueryFails
  PROVE  IInv'
<1>1. /\ UNCHANGED <<chain, tables, pass, runs>>
      /\ InFlight(pass) = {}
      /\ stage' = "idle" /\ retry' = TRUE
      /\ faults < MaxFaults /\ faults' = faults + 1
  BY DEF QueryFails, PassRejected
<1>2. TypeOK'
  BY <1>1 DEF IInv, TypeOK, Stages, chain, tables, IndexerRunsAssumption
<1>3. ASSUME NEW q \in Passes, NEW a \in Sole PROVE runs[q][a].step = "idle"
  BY <1>1 DEF IInv, RunOK, InFlight, Sole
<1> QED
  BY <1>1, <1>2, <1>3, OrchestratorSteps DEF RetrySlotFree, StageRuns

(* Every sole contract's run has ended when no pass is under way.          *)
LEMMA SoleIdle ==
  ASSUME IInv, InFlight(pass) = {} \/ stage = "idle",
         NEW q \in Passes, NEW a \in Sole
  PROVE  runs[q][a].step = "idle"
<1>1. a \in Contracts /\ StageOf(a) # "idle"
  BY DEF Sole, StageOf
<1>2. CASE stage = "idle"
  BY <1>1, <1>2 DEF IInv, RunOK
<1>3. CASE InFlight(pass) = {}
  BY <1>1, <1>3 DEF IInv, RunOK, InFlight
<1> QED
  BY <1>2, <1>3

(* A pass starts its runs of the contracts in D, entering the stage s,     *)
(* when no actor's run is in flight.                                       *)
LEMMA StageBegins ==
  ASSUME IndexerRunsAssumption, IInv, UNCHANGED <<chain, tables, faults>>,
         NEW p \in Passes, pass' = p, InFlight(p) = {},
         InFlight(pass) = {} \/ stage = "idle",
         NEW D \in SUBSET Contracts, NEW max \in [D -> Nat \cup {None}],
         runs' = [runs EXCEPT ![p] = Start(p, max)],
         stage' \in Stages, retry' = FALSE,
         \A d \in D : StageOf(d) = stage'
  PROVE  IInv'
<1>1. runs \in [Passes -> [Contracts -> Run]]
  BY DEF IInv, TypeOK
<1>2. /\ runs' \in [Passes -> [Contracts -> Run]]
      /\ \A d \in Contracts :
           runs'[p][d].step = IF d \in D THEN "start" ELSE runs[p][d].step
      /\ \A d \in Contracts \ D : runs'[p][d] = runs[p][d]
      /\ \A q \in Passes \ {p}, d \in Contracts : runs'[q][d] = runs[q][d]
  BY <1>1, StartFacts
<1>3. TypeOK'
  BY <1>2 DEF IInv, TypeOK, chain, tables
<1>4. RetrySlotFree'
  BY DEF RetrySlotFree
<1>5. InFlight(pass)' \subseteq D
  BY <1>2 DEF InFlight
<1>6. StageRuns'
  BY <1>5 DEF StageRuns
<1>7. ASSUME NEW q \in Passes, NEW a \in Sole, runs'[q][a].step # "idle"
      PROVE  q = pass' /\ stage' = StageOf(a)
  <2>1. a \in Contracts /\ runs[q][a].step = "idle"
    BY SoleIdle DEF Sole
  <2>2. q = p /\ a \in D
    BY <1>2, <1>7, <2>1
  <2> QED
    BY <2>2
<1>8. ASSUME NEW q \in Passes, NEW d \in Contracts
      PROVE  runs'[q][d] = runs[q][d] \/ runs'[q][d].step \in {"idle", "start"}
  BY <1>2
<1> QED
  BY <1>3, <1>4, <1>6, <1>7, <1>8, OrchestratorSteps

(* A pass begins with the Service Rewards Actor.                           *)
LEMMA StartPassStep ==
  ASSUME IndexerRunsAssumption, IInv, NEW p \in Passes, StartPass(p)
  PROVE  IInv'
<1> DEFINE max == [c \in {Sra} |-> None]
<1>1. max \in [{Sra} -> Nat \cup {None}] /\ {Sra} \in SUBSET Contracts
  BY DEF Contracts, Actors
<1>2. StageOf(Sra) = "sra"
  BY DEF StageOf, Actors, IndexerRunsAssumption
<1> HIDE DEF max
<1>3. /\ runs' = [runs EXCEPT ![p] = Start(p, max)]
      /\ \A d \in {Sra} : StageOf(d) = stage'
      /\ stage' \in Stages /\ retry' = FALSE /\ pass' = p
      /\ stage = "idle" /\ InFlight(p) = {}
      /\ UNCHANGED <<chain, tables, faults>>
  BY <1>2 DEF StartPass, Stages, max
<1> QED
  BY <1>1, <1>3, StageBegins

(* A pass goes on to its next stage, or is over.                           *)
LEMMA NextStageStep ==
  ASSUME IndexerRunsAssumption, IInv, NextStage
  PROVE  IInv'
<1>1. /\ stage # "idle" /\ InFlight(pass) = {} /\ pass \in Passes
      /\ UNCHANGED <<chain, tables, retry, pass, faults>>
      /\ retry' = FALSE
  BY DEF NextStage, IInv, TypeOK, RetrySlotFree
<1>2. CASE stage = "sra"
  <2> DEFINE max == [c \in {Swa} |-> None]
  <2>1. max \in [{Swa} -> Nat \cup {None}] /\ {Swa} \in SUBSET Contracts
    BY DEF Contracts, Actors
  <2>2. StageOf(Swa) = "swa"
    BY DEF StageOf, Actors, IndexerRunsAssumption
  <2> HIDE DEF max
  <2>3. runs' = [runs EXCEPT ![pass] = Start(pass, max)] /\ stage' = "swa"
    BY <1>2 DEF NextStage, max
  <2> QED
    BY <1>1, <2>1, <2>2, <2>3, StageBegins DEF Stages
<1>3. CASE stage = "swa"
  <2> DEFINE max == [c \in ListedPay |-> RemovalOf(c)]
  <2>1. ListedPay \subseteq PayContracts
    BY DEF ListedPay, KnownRows, IndexerRunsAssumption
  <2>2. max \in [ListedPay -> Nat \cup {None}]
    BY RemovalType DEF IInv
  <2>3. ListedPay \in SUBSET Contracts /\ \A d \in ListedPay : StageOf(d) = "pay"
    BY <2>1 DEF Contracts, Actors, StageOf, IndexerRunsAssumption
  <2> HIDE DEF max
  <2>4. runs' = [runs EXCEPT ![pass] = Start(pass, max)] /\ stage' = "pay"
    BY <1>3 DEF NextStage, max
  <2> QED
    BY <1>1, <2>2, <2>3, <2>4, StageBegins DEF Stages
<1>4. CASE stage = "pay"
  <2> DEFINE max == [c \in ListedTokens |-> None]
  <2>1. ListedTokens \subseteq Tokens
    BY DEF ListedTokens, IndexerRunsAssumption
  <2>2. max \in [ListedTokens -> Nat \cup {None}]
    OBVIOUS
  <2>3. /\ ListedTokens \in SUBSET Contracts
        /\ \A d \in ListedTokens : StageOf(d) = "tokens"
    BY <2>1 DEF Contracts, Actors, StageOf, IndexerRunsAssumption
  <2> HIDE DEF max
  <2>4. runs' = [runs EXCEPT ![pass] = Start(pass, max)] /\ stage' = "tokens"
    BY <1>4 DEF NextStage, max
  <2> QED
    BY <1>1, <2>2, <2>3, <2>4, StageBegins DEF Stages
<1>5. CASE stage = "tokens"
  <2>1. stage' = "idle" /\ runs' = runs
    BY <1>5 DEF NextStage
  <2>2. TypeOK'
    BY <1>1, <2>1 DEF IInv, TypeOK, Stages, chain, tables
  <2>3. \A q \in Passes, a \in Sole : runs[q][a].step = "idle"
    BY <1>1, SoleIdle
  <2> QED
    BY <1>1, <2>1, <2>2, <2>3, OrchestratorSteps DEF RetrySlotFree, StageRuns
<1> QED
  BY <1>1, <1>2, <1>3, <1>4, <1>5 DEF IInv, TypeOK, Stages

(* The process is started again.                                           *)
LEMMA RestartStep ==
  ASSUME IndexerRunsAssumption, IInv, Restart
  PROVE  IInv'
<1>1. /\ UNCHANGED <<chain, tables, pass>> /\ stage' = "idle" /\ retry' = FALSE
      /\ faults < MaxFaults /\ faults' = faults + 1
      /\ runs' = [p \in Passes |-> [c \in Contracts |-> NoRun]]
  BY DEF Restart
<1>2. \A p \in Passes, c \in Contracts : runs'[p][c].step = "idle"
  BY <1>1, RunTypes
<1>3. TypeOK'
  <2>1. runs' \in [Passes -> [Contracts -> Run]]
    BY <1>1, RunTypes
  <2>2. faults' \in 0 .. MaxFaults
    BY <1>1 DEF IInv, TypeOK, IndexerRunsAssumption
  <2> QED
    BY <1>1, <2>1, <2>2 DEF IInv, TypeOK, Stages, chain, tables
<1>4. \A p \in Passes, a \in Sole : runs'[p][a].step = "idle"
  BY <1>2 DEF Sole
<1> QED
  BY <1>1, <1>2, <1>3, <1>4, OrchestratorSteps DEF RetrySlotFree, StageRuns

(* The chain moves: what was readable stays readable.                      *)
LEMMA ChainStep ==
  ASSUME IndexerRunsAssumption, IInv, ChainGrows \/ ChainFinalizes
  PROVE  IInv'
<1>1. /\ UNCHANGED <<tables, stage, retry, pass, runs, faults>>
      /\ head' \in Nat /\ final' \in Nat /\ head <= head' /\ final <= final'
      /\ head \in Nat /\ final \in Nat
  BY DEF ChainGrows, ChainFinalizes, IInv, TypeOK
<1>2. ASSUME NEW b \in Nat, Readable(b) PROVE Readable(b)'
  <2>1. HeightDifference \in Nat \cup {None}
    BY DEF IndexerRunsAssumption
  <2>4. /\ head \in Nat /\ head' \in Nat /\ head <= head'
        /\ final \in Nat /\ final' \in Nat /\ final <= final'
    BY <1>1
  <2>2. CASE b <= final
    <3>1. b <= final'
      BY <2>2, <2>4
    <3> QED
      BY <3>1 DEF Readable
  <2>3. CASE HeightDifference # None /\ b <= head - HeightDifference
    <3>1. b <= head' - HeightDifference
      <4>1. HeightDifference \in Nat
        BY <2>1, <2>3
      <4>2. \A d, h, i \in Nat : h <= i /\ b <= h - d => b <= i - d
        OBVIOUS
      <4> QED
        BY <4>1, <4>2, <2>3, <2>4
    <3> QED
      BY <2>3, <3>1 DEF Readable
  <2> QED
    BY <1>2, <2>2, <2>3 DEF Readable
<1>3. TypeOK'
  BY <1>1 DEF IInv, TypeOK, tables
<1>4. RetrySlotFree' /\ StageRuns'
  BY <1>1 DEF IInv, RetrySlotFree, StageRuns, InFlight
<1>5. ASSUME NEW p \in Passes, NEW c \in Contracts PROVE RunOK(p, c)'
  <2>1. RunOK(p, c)
    BY DEF IInv
  <2>2. FromBlock(c)' = FromBlock(c)
    BY <1>1 DEF FromBlock, tables
  <2> QED
    BY <2>1, <2>2, <1>1, <1>2 DEF RunOK, StageOf, tables
<1>6. ASSUME NEW c \in Contracts PROVE TableOK(c)'
  <2>1. TableOK(c) /\ ingested[c] \subseteq Nat
    BY DEF IInv, TypeOK
  <2> QED
    BY <2>1, <1>1, <1>2 DEF TableOK, tables
<1> QED
  BY <1>3, <1>4, <1>5, <1>6 DEF IInv

(* Every step, and stuttering, keeps the invariant.                        *)
LEMMA StepInvariant ==
  ASSUME IndexerRunsAssumption, IInv, [Next]_vars
  PROVE  IInv'
<1>1. CASE ChainGrows \/ ChainFinalizes
  BY <1>1, ChainStep
<1>2. ASSUME NEW p \in Passes, NEW c \in Contracts, ReadCursor(p, c)
      PROVE  IInv'
  BY <1>2, ReadCursorStep
<1>3. ASSUME NEW p \in Passes, NEW c \in Contracts, FetchLogs(p, c)
      PROVE  IInv'
  BY <1>3, FetchLogsStep
<1>4. ASSUME NEW p \in Passes, NEW c \in Contracts, Commit(p, c)
      PROVE  IInv'
  BY <1>4, CommitStep
<1>5. ASSUME NEW p \in Passes, NEW c \in Contracts, CommitRejected(p, c)
      PROVE  IInv'
  BY <1>5, RunFailsStep DEF CommitRejected, IInv, TypeOK
<1>6. ASSUME NEW p \in Passes, NEW c \in Contracts, RunInterrupted(p, c)
      PROVE  IInv'
  <2>1. faults' \in 0 .. MaxFaults
    BY <1>6 DEF RunInterrupted, IInv, TypeOK, IndexerRunsAssumption
  <2> QED
    BY <1>6, <2>1, RunFailsStep DEF RunInterrupted
<1>7. ASSUME NEW p \in Passes, StartPass(p)
      PROVE  IInv'
  BY <1>7, StartPassStep
<1>8. CASE NextStage
  BY <1>8, NextStageStep
<1>9. CASE QueryFails
  BY <1>9, QueryFailsStep
<1>10. CASE Restart
  BY <1>10, RestartStep
<1>11. CASE UNCHANGED vars
  <2>1. /\ UNCHANGED <<chain, tables>> /\ stage' = stage /\ retry' = retry
        /\ pass' = pass /\ runs' = runs /\ faults' = faults
    BY <1>11 DEF vars, chain, tables
  <2>2. TypeOK' /\ RetrySlotFree' /\ StageRuns'
    BY <2>1 DEF IInv, TypeOK, RetrySlotFree, StageRuns, InFlight, chain, tables
  <2>3. \A p \in Passes, a \in Sole :
          runs'[p][a].step # "idle" => p = pass' /\ stage' = StageOf(a)
    BY <2>1 DEF IInv, RunOK, Sole
  <2> QED
    BY <2>1, <2>2, <2>3, OrchestratorSteps
<1> QED
  BY <1>1, <1>2, <1>3, <1>4, <1>5, <1>6, <1>7, <1>8, <1>9, <1>10, <1>11 DEF Next, Works

(* The invariant holds of every behaviour.                                 *)
THEOREM Invariant == Spec => []IInv
<1>1. Init => IInv
  BY IndexerRunsAssumption, InitInvariant
<1>2. IInv /\ [Next]_vars => IInv'
  BY IndexerRunsAssumption, StepInvariant
<1> QED
  BY <1>1, <1>2, PTL DEF Spec

(* Every variable keeps its type, whatever the chain and the contracts.    *)
THEOREM TypeCorrect == Spec => []TypeOK
<1>1. IInv => TypeOK
  BY DEF IInv
<1> QED
  BY <1>1, Invariant, PTL

(* The cursor of a contract never claims a block whose rows are not in the *)
(* tables, however many runs of it overlap, fail or write an old cursor.   *)
THEOREM CursorTruthful == Spec => []NoGaps
<1>1. ASSUME IInv PROVE NoGaps
  <2>1. ASSUME NEW c \in Contracts, NEW b \in Behind(c) PROVE b \in ingested[c]
    <3>1. /\ cursor[c] # None /\ cursor[c] \in Nat /\ Deployed[c] \in Nat
          /\ b \in Deployed[c] .. cursor[c]
      BY <1>1, <2>1, IndexerRunsAssumption DEF Behind, IInv, TypeOK, IndexerRunsAssumption
    <3>2. TableOK(c)
      BY <1>1 DEF IInv
    <3> QED
      BY <3>1, <3>2 DEF TableOK
  <2> QED
    BY <2>1 DEF NoGaps
<1>2. IInv => NoGaps
  BY <1>1
<1> QED
  BY <1>2, Invariant, PTL

(* Whatever fails, is retried or goes on behind the orchestrator's back,   *)
(* the blocks of a contract that has its stage for itself are ingested     *)
(* exactly once, and the tables hold no other.                             *)
LEMMA SoleOnce ==
  ASSUME IndexerRunsAssumption, IInv, NEW a \in Sole
  PROVE  ingested[a] = Behind(a) /\ repeated[a] = {}
<1>1. /\ a \in Contracts /\ TableOK(a) /\ ingested[a] \subseteq Nat
      /\ cursor[a] \in Nat \cup {None} /\ Deployed[a] \in Nat
  BY DEF IInv, TypeOK, Sole, IndexerRunsAssumption
<1>2. ASSUME NEW b \in ingested[a] PROVE b \in Behind(a)
  BY <1>1 DEF TableOK, Behind
<1>3. ASSUME NEW b \in Behind(a) PROVE b \in ingested[a]
  BY <1>1 DEF TableOK, Behind
<1> QED
  BY <1>1, <1>2, <1>3 DEF TableOK

(* The actors never share a stage.                                         *)
LEMMA ActorsSole ==
  ASSUME IndexerRunsAssumption
  PROVE  Actors \subseteq Sole
<1>1. ASSUME NEW d \in Contracts
      PROVE  /\ StageOf(d) = "sra" => d = Sra
             /\ StageOf(d) = "swa" => d = Swa
  BY DEF StageOf
<1>2. /\ Sra \in Contracts /\ StageOf(Sra) = "sra"
      /\ Swa \in Contracts /\ StageOf(Swa) = "swa"
  BY DEF Contracts, Actors, StageOf, IndexerRunsAssumption
<1> QED
  BY <1>1, <1>2 DEF Actors, Sole

(* The logs of the Service Rewards Actor and of the Stream Weight Actor    *)
(* are ingested exactly once, in spite of failures, restarts, retries and  *)
(* the runs a rejected pass leaves behind.                                 *)
THEOREM ActorLogsOnce == Spec => []ActorsExactlyOnce
<1>1. IInv => ActorsExactlyOnce
  BY IndexerRunsAssumption, SoleOnce, ActorsSole DEF ActorsExactlyOnce
<1> QED
  BY <1>1, Invariant, PTL

(* One pay contract and one token, as on a network with a single admitted  *)
(* deployment of each.                                                     *)
OneOfEach ==
  /\ \A c, d \in PayContracts : c = d
  /\ \A c, d \in Tokens : c = d

(* Every contract is then alone in its stage.                              *)
LEMMA AllSole ==
  ASSUME IndexerRunsAssumption, OneOfEach
  PROVE  Sole = Contracts
<1>1. ASSUME NEW c \in Contracts, NEW d \in Contracts, StageOf(d) = StageOf(c)
      PROVE  d = c
  <2>1. CASE c \in Actors
    BY <2>1, <1>1, ActorsSole DEF Sole
  <2>2. CASE d \in Actors
    BY <2>2, <1>1, ActorsSole DEF Sole
  <2>3. CASE c \notin Actors /\ d \notin Actors
    <3>1. /\ StageOf(c) = IF c \in PayContracts THEN "pay" ELSE "tokens"
          /\ StageOf(d) = IF d \in PayContracts THEN "pay" ELSE "tokens"
      BY <2>3 DEF StageOf, Actors
    <3> QED
      BY <2>3, <3>1, <1>1 DEF Contracts, OneOfEach
  <2> QED
    BY <2>1, <2>2, <2>3
<1> QED
  BY <1>1 DEF Sole

(* With one pay contract and one token nothing at all is counted twice,    *)
(* although their handlers have no natural key to prevent it.              *)
THEOREM OneContractOnce == ASSUME OneOfEach PROVE Spec => []EveryContractOnce
<1>1. IInv => EveryContractOnce
  BY IndexerRunsAssumption, SoleOnce, AllSole DEF EveryContractOnce
<1> QED
  BY <1>1, Invariant, PTL

(* With one pay contract and one token no two runs of a contract overlap:  *)
(* a failed run is the only one its pass had.                              *)
THEOREM OneContractNoOverlap == ASSUME OneOfEach PROVE Spec => []NoOverlap
<1>1. ASSUME IInv PROVE NoOverlap
  <2>1. ASSUME NEW p \in Passes, NEW c \in InFlight(p) PROVE p = pass
    BY <1>1, <2>1, IndexerRunsAssumption, AllSole DEF IInv, RunOK, InFlight
  <2> QED
    BY <2>1 DEF NoOverlap
<1>2. IInv => NoOverlap
  BY <1>1
<1> QED
  BY <1>2, Invariant, PTL

(* No row comes from a block beyond what the configuration lets the        *)
(* indexer read: a final one, or one HeightDifference below the head.      *)
THEOREM IngestedReadable == Spec => []OnlyReadable
<1>1. IInv => OnlyReadable
  BY DEF IInv, TableOK, Readable, OnlyReadable
<1> QED
  BY <1>1, Invariant, PTL

(* A pass that fails can always schedule its retry.                        *)
THEOREM RetrySchedulable == Spec => []RetrySlotFree
<1>1. IInv => RetrySlotFree
  BY DEF IInv
<1> QED
  BY <1>1, Invariant, PTL

-----------------------------------------------------------------------------
(* The status.                                                             *)

(* What the cursors a request has read vouch for.                          *)
Vouched(c) ==
  IF request.states[c] = None THEN {} ELSE Deployed[c] .. request.states[c]

(* The list of contracts has the admission row r, and no end before its.   *)
Lists(r) ==
  \E l \in request.contracts :
    /\ l.contract = r.contract
    /\ l.removal # None => r.removed \in Nat /\ r.removed <= l.removal

AdmittedBySeen(r) == request.states[Sra] # None /\ r.admitted <= request.states[Sra]

(* What a request has read stays true while runs go on: rows are never     *)
(* taken back and the actor's cursor never moves back, so lists read after *)
(* the cursors have everything the cursors cover.                          *)
RequestOK ==
  /\ StatusTypeOK
  /\ \A k, l \in request.contracts : k.contract = l.contract => k = l
  /\ request.statesFirst => "states" \in request.done
  /\ \A c \in Contracts : Vouched(c) \subseteq ingested[c]
  /\ request.states[Sra] # None =>
       cursor[Sra] # None /\ request.states[Sra] <= cursor[Sra]
  /\ request.statesFirst /\ "contracts" \in request.done =>
       \A r \in PayRows : AdmittedBySeen(r) => Lists(r)
  /\ request.statesFirst /\ "tokens" \in request.done =>
       \A s \in RailsAt :
         s.token # None /\ s.block \in Vouched(s.contract) => s.token \in request.tokens

(* Rows stay, and the cursor of the Service Rewards Actor does not go back *)
(* while the process works.                                                *)
LEMMA RowsStay ==
  ASSUME IndexerRunsAssumption, IInv, Works \/ UNCHANGED vars
  PROVE  /\ \A c \in Contracts : ingested[c] \subseteq ingested'[c]
         /\ cursor[Sra] # None => cursor'[Sra] # None /\ cursor[Sra] <= cursor'[Sra]
<1>1. CASE UNCHANGED tables
  <2>1. cursor[Sra] \in Nat \cup {None}
    BY DEF IInv, TypeOK, Contracts, Actors
  <2> QED
    BY <1>1, <2>1 DEF tables
<1>2. ASSUME NEW p \in Passes, NEW c \in Contracts, Commit(p, c)
      PROVE  /\ \A d \in Contracts : ingested[d] \subseteq ingested'[d]
             /\ cursor[Sra] # None => cursor'[Sra] # None /\ cursor[Sra] <= cursor'[Sra]
  <2> DEFINE from == runs[p][c].from
             to   == runs[p][c].to
  <2>1. /\ ingested' = [ingested EXCEPT ![c] = @ \cup (from .. to)]
        /\ cursor' = [cursor EXCEPT ![c] = to]
        /\ runs[p][c].step = "planned"
    BY <1>2 DEF Commit
  <2>2. /\ cursor \in [Contracts -> Nat \cup {None}]
        /\ ingested \in [Contracts -> SUBSET Nat]
        /\ from \in Nat /\ to \in Nat /\ Sra \in Contracts
    BY DEF IInv, TypeOK, Run, Contracts, Actors
  <2>3. \A d \in Contracts : ingested[d] \subseteq ingested'[d]
    BY <2>1, <2>2
  <2>4. CASE c # Sra
    BY <2>1, <2>2, <2>3, <2>4
  <2>5. CASE c = Sra
    <3>1. from <= to /\ from = FromBlock(Sra)
      BY <2>1, <2>5, ActorsSole DEF IInv, RunOK, Actors
    <3>2. cursor'[Sra] = to /\ to # None
      BY <2>1, <2>2, <2>5 DEF IndexerRunsAssumption
    <3>3. ASSUME cursor[Sra] # None PROVE cursor[Sra] <= to
      <4>1. cursor[Sra] \in Nat /\ from = cursor[Sra] + 1
        BY <3>1, <3>3, <2>2 DEF FromBlock
      <4> QED
        BY <3>1, <4>1, <2>2
    <3> QED
      BY <2>3, <3>2, <3>3
  <2> QED
    BY <2>4, <2>5
<1>3. ASSUME NEW p \in Passes, NEW c \in Contracts,
             ReadCursor(p, c) \/ FetchLogs(p, c) \/ CommitRejected(p, c)
               \/ RunInterrupted(p, c) \/ StartPass(p)
      PROVE  UNCHANGED tables
  BY <1>3 DEF ReadCursor, FetchLogs, CommitRejected, RunInterrupted, RunFails, StartPass
<1>4. CASE ChainGrows \/ ChainFinalizes \/ NextStage \/ QueryFails \/ UNCHANGED vars
  <2>1. UNCHANGED tables
    BY <1>4 DEF ChainGrows, ChainFinalizes, NextStage, QueryFails, vars, tables
  <2> QED
    BY <2>1, <1>1
<1>5. ASSUME NEW p \in Passes, StartPass(p) PROVE UNCHANGED tables
  BY <1>5 DEF StartPass
<1> QED
  BY <1>1, <1>2, <1>3, <1>4, <1>5 DEF Works

(* While the process works and the request reads nothing, what it has read *)
(* stays true.                                                             *)
LEMMA RequestKept ==
  ASSUME IndexerRunsAssumption, IInv, IInv', RequestOK, Works \/ UNCHANGED vars,
         UNCHANGED request
  PROVE  RequestOK'
<1>1. /\ \A c \in Contracts : ingested[c] \subseteq ingested'[c]
      /\ cursor[Sra] # None => cursor'[Sra] # None /\ cursor[Sra] <= cursor'[Sra]
  BY RowsStay
<1>2. /\ request.states[Sra] \in Nat \cup {None}
      /\ cursor[Sra] \in Nat \cup {None} /\ cursor'[Sra] \in Nat \cup {None}
  BY DEF RequestOK, StatusTypeOK, IInv, TypeOK, Contracts, Actors
<1>3. /\ \A c : Vouched(c)' = Vouched(c)
      /\ \A r : (Lists(r)' <=> Lists(r)) /\ (AdmittedBySeen(r)' <=> AdmittedBySeen(r))
  BY DEF Vouched, Lists, AdmittedBySeen
<1>4. request.states[Sra] # None =>
        cursor'[Sra] # None /\ request.states[Sra] <= cursor'[Sra]
  BY <1>1, <1>2 DEF RequestOK
<1>5. \A c \in Contracts : Vouched(c)' \subseteq ingested'[c]
  BY <1>1, <1>3 DEF RequestOK
<1>6. StatusTypeOK'
  BY DEF RequestOK, StatusTypeOK
<1> QED
  BY <1>3, <1>4, <1>5, <1>6 DEF RequestOK

(* A request that has read nothing promises nothing.                       *)
LEMMA UnreadOK ==
  ASSUME IndexerRunsAssumption, request' = Unread
  PROVE  RequestOK'
<1>1. /\ request'.done = {} /\ request'.statesFirst = FALSE
      /\ request'.contracts = {} /\ request'.tokens = {}
      /\ request'.states = [c \in Contracts |-> None]
  BY DEF Unread
<1>2. \A c \in Contracts : request'.states[c] = None
  BY <1>1
<1>3. Sra \in Contracts
  BY DEF Contracts, Actors
<1>4. StatusTypeOK'
  BY DEF StatusTypeOK, Unread, Queries
<1> QED
  BY <1>1, <1>2, <1>3, <1>4 DEF RequestOK, Vouched

(* The cursors vouch for what they cover.                                  *)
LEMMA ReadStatesOK ==
  ASSUME IndexerRunsAssumption, IInv, RequestOK, ReadStates
  PROVE  RequestOK'
<1>1. /\ "states" \notin request.done
      /\ UNCHANGED vars
      /\ request' = [request EXCEPT !.done = @ \cup {"states"},
                                    !.statesFirst = (request.done = {}),
                                    !.states = cursor]
  BY DEF ReadStates
<1>2. /\ StatusTypeOK
      /\ cursor \in [Contracts -> Nat \cup {None}]
  BY DEF RequestOK, IInv, TypeOK
<1>3. /\ request'.done = request.done \cup {"states"}
      /\ request'.statesFirst = (request.done = {})
      /\ request'.states = cursor
      /\ request'.contracts = request.contracts
      /\ request'.tokens = request.tokens
  BY <1>1, <1>2 DEF StatusTypeOK
<1>4. StatusTypeOK'
  BY <1>1, <1>2 DEF StatusTypeOK, Queries
<1>5. ASSUME NEW c \in Contracts PROVE Vouched(c)' \subseteq ingested'[c]
  <2>1. /\ TableOK(c) /\ cursor[c] \in Nat \cup {None} /\ Deployed[c] \in Nat
        /\ ingested' = ingested
    BY <1>1 DEF IInv, TypeOK, IndexerRunsAssumption, vars
  <2> QED
    BY <2>1, <1>3 DEF TableOK, Vouched
<1>6. /\ Sra \in Contracts /\ cursor' = cursor /\ cursor[Sra] \in Nat \cup {None}
  BY <1>1, <1>2 DEF vars, Contracts, Actors
<1>7. request'.statesFirst =>
        "contracts" \notin request'.done /\ "tokens" \notin request'.done
  BY <1>3
<1>8. /\ "states" \in request'.done
      /\ request'.states[Sra] # None =>
           cursor'[Sra] # None /\ request'.states[Sra] <= cursor'[Sra]
  BY <1>3, <1>6
<1>9. \A k, l \in request'.contracts : k.contract = l.contract => k = l
  BY <1>3 DEF RequestOK
<1> QED
  BY <1>4, <1>5, <1>7, <1>8, <1>9 DEF RequestOK

(* A list of contracts read after the cursors has the rows they cover.     *)
LEMMA ReadContractsOK ==
  ASSUME IndexerRunsAssumption, IInv, RequestOK, ReadContracts
  PROVE  RequestOK'
<1> DEFINE L == {[contract |-> c, removal |-> RemovalOf(c)] : c \in ListedPay}
<1>1. /\ UNCHANGED vars
      /\ request' = [request EXCEPT !.done = @ \cup {"contracts"}, !.contracts = L]
  BY DEF ReadContracts
<1>2. StatusTypeOK /\ TypeOK
  BY DEF RequestOK, IInv
<1>3. /\ request'.done = request.done \cup {"contracts"}
      /\ request'.statesFirst = request.statesFirst
      /\ request'.states = request.states
      /\ request'.contracts = L
      /\ request'.tokens = request.tokens
  BY <1>1, <1>2 DEF StatusTypeOK
<1>4. L \subseteq Listing
  <2>1. ASSUME NEW c \in ListedPay
        PROVE  [contract |-> c, removal |-> RemovalOf(c)] \in Listing
    <3>1. c \in PayContracts /\ RemovalOf(c) \in Nat \cup {None}
      BY <1>2, RemovalType DEF ListedPay, KnownRows, IndexerRunsAssumption
    <3> QED
      BY <3>1 DEF Listing
  <2> QED
    BY <2>1
<1>9. \A k, l \in L : k.contract = l.contract => k = l
  OBVIOUS
<1>5. StatusTypeOK'
  <2> HIDE DEF L
  <2> QED
    BY <1>1, <1>2, <1>4 DEF StatusTypeOK, Queries
<1>6. ASSUME NEW r \in PayRows, AdmittedBySeen(r)' PROVE Lists(r)'
  <2>1. /\ request.states[Sra] # None /\ r.admitted <= request.states[Sra]
    BY <1>3, <1>6 DEF AdmittedBySeen
  <2>2. /\ cursor[Sra] # None /\ request.states[Sra] <= cursor[Sra]
        /\ cursor[Sra] \in Nat \cup {None} /\ request.states[Sra] \in Nat \cup {None}
        /\ r.admitted \in Nat
    BY <2>1, <1>2 DEF RequestOK, TypeOK, StatusTypeOK, Contracts, Actors,
                      IndexerRunsAssumption
  <2>3. r \in KnownRows
    <3>1. r.admitted <= cursor[Sra]
      BY <2>1, <2>2
    <3> QED
      BY <3>1, <2>2 DEF KnownRows
  <2>4. r.contract \in ListedPay
    BY <2>3 DEF ListedPay
  <2> DEFINE l == [contract |-> r.contract, removal |-> RemovalOf(r.contract)]
  <2>5. l \in request'.contracts
    BY <2>4, <1>3
  <2>6. RemovalOf(r.contract) # None =>
          r.removed \in Nat /\ r.removed <= RemovalOf(r.contract)
    BY <2>3, <2>4, <1>2, RemovalIsLast
  <2> QED
    BY <2>5, <2>6 DEF Lists
<1>7. \A c : Vouched(c)' = Vouched(c)
  BY <1>3 DEF Vouched
<1>8. ingested' = ingested /\ cursor' = cursor
  BY <1>1 DEF vars
<1> QED
  <2> HIDE DEF L
  <2> QED
    BY <1>3, <1>5, <1>6, <1>7, <1>8, <1>9 DEF RequestOK

(* A list of tokens read after the cursors has those of the rails they     *)
(* cover.                                                                  *)
LEMMA ReadTokensOK ==
  ASSUME IndexerRunsAssumption, IInv, RequestOK, ReadTokens
  PROVE  RequestOK'
<1>1. /\ UNCHANGED vars
      /\ request' = [request EXCEPT !.done = @ \cup {"tokens"}, !.tokens = ListedTokens]
  BY DEF ReadTokens
<1>2. StatusTypeOK
  BY DEF RequestOK
<1>3. /\ request'.done = request.done \cup {"tokens"}
      /\ request'.statesFirst = request.statesFirst
      /\ request'.states = request.states
      /\ request'.contracts = request.contracts
      /\ request'.tokens = ListedTokens
  BY <1>1, <1>2 DEF StatusTypeOK
<1>4. ListedTokens \subseteq Tokens
  BY DEF ListedTokens, IndexerRunsAssumption
<1>5. StatusTypeOK'
  BY <1>1, <1>2, <1>4 DEF StatusTypeOK, Queries
<1>6. /\ \A c : Vouched(c)' = Vouched(c)
      /\ \A r : (Lists(r)' <=> Lists(r)) /\ (AdmittedBySeen(r)' <=> AdmittedBySeen(r))
      /\ ingested' = ingested /\ cursor' = cursor
  BY <1>1, <1>3 DEF Vouched, Lists, AdmittedBySeen, vars
<1>7. ASSUME NEW s \in RailsAt, s.token # None, s.block \in Vouched(s.contract)
      PROVE  s.token \in request'.tokens
  <2>1. s.contract \in Contracts
    BY DEF Contracts, IndexerRunsAssumption
  <2>2. s.block \in ingested[s.contract]
    BY <1>7, <2>1 DEF RequestOK
  <2> QED
    BY <1>3, <1>7, <2>2 DEF ListedTokens
<1> QED
  BY <1>3, <1>5, <1>6, <1>7 DEF RequestOK

(* Every behaviour with requests is one of the runs: what is proved of     *)
(* these holds beside a request as well.                                   *)
THEOREM StatusProjects == StatusSpec => Spec
<1>1. StatusInit => Init
  BY DEF StatusInit
<1>2. [StatusNext]_statusVars => [Next]_vars
  BY DEF StatusNext, Next, statusVars, ReadStates, ReadContracts, ReadTokens, NextRequest
<1> QED
  BY <1>1, <1>2, PTL DEF StatusSpec, Spec

(* A request agrees with the tables all the time.                          *)
THEOREM RequestsAgree == StatusSpec => []RequestOK
<1>1. ASSUME StatusInit PROVE RequestOK
  <2>1. request = Unread /\ Sra \in Contracts
    BY <1>1 DEF StatusInit, Contracts, Actors
  <2>2. /\ request.done = {} /\ request.statesFirst = FALSE
        /\ request.contracts = {} /\ request.tokens = {}
        /\ \A c \in Contracts : request.states[c] = None
    BY <2>1 DEF Unread
  <2>3. StatusTypeOK
    BY <2>1 DEF StatusTypeOK, Unread, Queries
  <2> QED
    BY <2>1, <2>2, <2>3 DEF RequestOK, Vouched
<1>2. ASSUME IInv, IInv', RequestOK, [StatusNext]_statusVars PROVE RequestOK'
  <2>1. CASE Works /\ UNCHANGED request
    BY <1>2, <2>1, IndexerRunsAssumption, RequestKept
  <2>2. CASE request' = Unread
    BY <2>2, IndexerRunsAssumption, UnreadOK
  <2>3. CASE ReadStates
    BY <1>2, <2>3, IndexerRunsAssumption, ReadStatesOK
  <2>4. CASE ReadContracts
    BY <1>2, <2>4, IndexerRunsAssumption, ReadContractsOK
  <2>5. CASE ReadTokens
    BY <1>2, <2>5, IndexerRunsAssumption, ReadTokensOK
  <2>6. CASE UNCHANGED statusVars
    <3>1. UNCHANGED vars /\ UNCHANGED request
      BY <2>6 DEF statusVars
    <3> QED
      BY <1>2, <3>1, IndexerRunsAssumption, RequestKept
  <2> QED
    BY <1>2, <2>1, <2>2, <2>3, <2>4, <2>5, <2>6 DEF StatusNext, NextRequest
<1>3. StatusInit => RequestOK
  BY <1>1
<1>4. IInv /\ IInv' /\ RequestOK /\ [StatusNext]_statusVars => RequestOK'
  BY <1>2
<1> QED
  BY <1>3, <1>4, StatusProjects, Invariant, PTL DEF StatusSpec

(* The status is honest about what it lists, whenever its queries read;    *)
(* and if the cursors were read first, about everything: nothing up to the *)
(* epoch it reports is missing, although contracts drop out of it when     *)
(* they are removed and tokens come in only when a rail is known.          *)
THEOREM StatusHonest == StatusSpec => []StatusCovers
<1>1. ASSUME IInv, RequestOK PROVE StatusCovers
  <2> USE IndexerRunsAssumption
  <2>0. SUFFICES ASSUME Answered, NEW e \in Blocks, UpTo(e)
        PROVE  /\ \A c \in Actors \cup request.tokens : IngestedTo(c, e)
               /\ \A l \in request.contracts :
                    \A b \in Deployed[l.contract] .. e :
                      l.removal = None \/ b <= l.removal => b \in ingested[l.contract]
               /\ request.statesFirst => Complete(e)
    BY DEF StatusCovers
  <2>1. /\ e \in Int
        /\ request.contracts \subseteq Listing /\ request.tokens \subseteq Tokens
        /\ \A c \in Contracts : Deployed[c] \in Nat /\ request.states[c] \in Nat \cup {None}
        /\ \A c \in Contracts : Vouched(c) \subseteq ingested[c]
    BY <1>1 DEF RequestOK, StatusTypeOK, Blocks, IndexerRunsAssumption
  <2>2. ASSUME NEW c \in Contracts, NEW n \in Int, n <= IndexedUpTo(c)
        PROVE  Deployed[c] .. n \subseteq Vouched(c)
    <3>1. CASE request.states[c] = None
      <4>1. n <= Deployed[c] - 1
        BY <2>2, <3>1 DEF IndexedUpTo
      <4> QED
        BY <4>1, <2>1
    <3>2. CASE request.states[c] # None
      <4>1. n <= request.states[c] /\ request.states[c] \in Nat /\ Deployed[c] \in Nat
        BY <2>2, <3>2, <2>1 DEF IndexedUpTo
      <4> QED
        BY <4>1, <3>2 DEF Vouched
    <3> QED
      BY <3>1, <3>2
  <2>3. ASSUME NEW c \in StatusOf PROVE c \in Contracts /\ e <= IndexedUpTo(c)
    BY <2>3, <2>0, <2>1 DEF StatusOf, UpTo, Contracts, Actors, Listed, Listing
  <2>4. ASSUME NEW c \in Actors \cup request.tokens PROVE c \in StatusOf
    <3>1. \A l \in request.contracts : l.contract \in PayContracts
      BY <2>1 DEF Listing
    <3> QED
      BY <2>4, <2>1, <3>1 DEF StatusOf, RemovedAndSynced, IndexerRunsAssumption
  <2>5. ASSUME NEW c \in Actors \cup request.tokens
        PROVE  c \in Contracts /\ Deployed[c] .. e \subseteq Vouched(c)
    BY <2>1, <2>2, <2>3, <2>4, <2>5
  <2>6. \A c \in Actors \cup request.tokens : IngestedTo(c, e)
    BY <2>5, <2>1 DEF IngestedTo
  <2>7. ASSUME NEW l \in request.contracts, NEW b \in Deployed[l.contract] .. e,
               l.removal = None \/ b <= l.removal
        PROVE  b \in Vouched(l.contract)
    <3>1. /\ l.contract \in Contracts /\ l.contract \in Listed
          /\ l.contract \in PayContracts /\ l.removal \in Nat \cup {None}
      BY <2>1 DEF Listed, Listing, Contracts
    <3>2. Deployed[l.contract] \in Nat /\ b \in Int /\ Deployed[l.contract] <= b /\ b <= e
      BY <2>1, <3>1
    <3>3. CASE ~RemovedAndSynced(l.contract)
      <4>1. l.contract \in StatusOf
        BY <3>1, <3>3 DEF StatusOf
      <4>2. e <= IndexedUpTo(l.contract)
        BY <4>1, <2>3
      <4>3. Deployed[l.contract] .. e \subseteq Vouched(l.contract)
        BY <4>2, <3>1, <2>1, <2>2
      <4> QED
        BY <4>3, <3>2
    <3>4. CASE RemovedAndSynced(l.contract)
      <4>1. PICK k \in request.contracts :
              /\ k.contract = l.contract /\ k.removal # None
              /\ IndexedUpTo(l.contract) >= k.removal
        BY <3>4 DEF RemovedAndSynced
      <4>2. k = l
        BY <4>1, <1>1 DEF RequestOK
      <4>3. l.removal \in Nat /\ b <= l.removal /\ IndexedUpTo(l.contract) >= l.removal
        BY <4>1, <4>2, <3>1, <2>7
      <4>4. IndexedUpTo(l.contract) \in Int
        BY <2>1, <3>1 DEF IndexedUpTo
      <4>5. b <= IndexedUpTo(l.contract)
        BY <4>3, <4>4, <3>2
      <4>6. Deployed[l.contract] .. b \subseteq Vouched(l.contract)
        BY <4>5, <3>1, <3>2, <2>2
      <4> QED
        BY <4>6, <3>2
    <3> QED
      BY <3>3, <3>4
  <2>8. ASSUME request.statesFirst, NEW r \in PayRows, r.admitted <= e,
               NEW b \in Deployed[r.contract] .. e, r.removed = None \/ b <= r.removed
        PROVE  r.contract \in Contracts /\ b \in Vouched(r.contract)
    <3>1. /\ r.admitted \in Nat /\ Deployed[Sra] <= r.admitted
          /\ r.contract \in Contracts /\ Deployed[r.contract] \in Nat
          /\ r.removed \in Nat \cup {None} /\ Sra \in Contracts
      BY DEF IndexerRunsAssumption, Contracts, Actors
    <3>2. e <= IndexedUpTo(Sra)
      BY <2>3, <2>4 DEF Actors
    <3>3. request.states[Sra] # None
      BY <3>1, <3>2, <2>1, <2>8 DEF IndexedUpTo
    <3>4. AdmittedBySeen(r)
      BY <3>1, <3>2, <3>3, <2>1, <2>8 DEF IndexedUpTo, AdmittedBySeen
    <3>5. Lists(r)
      BY <3>4, <2>8, <2>0, <1>1 DEF RequestOK, Answered, Queries
    <3>6. PICK l \in request.contracts :
            /\ l.contract = r.contract
            /\ l.removal # None => r.removed \in Nat /\ r.removed <= l.removal
      BY <3>5 DEF Lists
    <3>7. l.removal \in Nat \cup {None} /\ b \in Int
      BY <2>1, <3>1 DEF Listing
    <3>8. l.removal = None \/ b <= l.removal
      BY <3>6, <3>7, <3>1, <2>8
    <3> QED
      BY <3>6, <3>8, <3>1, <2>7
  <2>9. ASSUME request.statesFirst PROVE Complete(e)
    <3>1. SUFFICES ASSUME NEW r \in PayRows, r.admitted <= e
          PROVE  LET owed == {b \in Deployed[r.contract] .. e :
                                r.removed = None \/ b <= r.removed}
                 IN  /\ owed \subseteq ingested[r.contract]
                     /\ \A s \in RailsAt :
                          s.contract = r.contract /\ s.block \in owed /\ s.token # None
                            => IngestedTo(s.token, e)
      BY DEF Complete
    <3>2. ASSUME NEW b \in Deployed[r.contract] .. e, r.removed = None \/ b <= r.removed
          PROVE  b \in ingested[r.contract]
      BY <2>9, <3>1, <3>2, <2>8, <2>1
    <3>3. ASSUME NEW s \in RailsAt, s.contract = r.contract, s.token # None,
                 s.block \in Deployed[r.contract] .. e,
                 r.removed = None \/ s.block <= r.removed
          PROVE  IngestedTo(s.token, e)
      <4>1. s.block \in Vouched(s.contract)
        BY <2>9, <3>1, <3>3, <2>8
      <4>2. s.token \in request.tokens
        BY <4>1, <3>3, <2>9, <2>0, <1>1 DEF RequestOK, Answered, Queries
      <4> QED
        BY <4>2, <2>6
    <3> QED
      BY <3>2, <3>3
  <2>10. \A l \in request.contracts :
           \A b \in Deployed[l.contract] .. e :
             l.removal = None \/ b <= l.removal => b \in ingested[l.contract]
    BY <2>7, <2>1 DEF Listing, Contracts
  <2> QED
    BY <2>6, <2>9, <2>10
<1>2. IInv /\ RequestOK => StatusCovers
  BY <1>1
<1> QED
  BY <1>2, StatusProjects, Invariant, RequestsAgree, PTL
=============================================================================
