-------------------------------- MODULE Service --------------------------------
(***************************************************************************)
(* From the chain to the answers, for what the two actors publish besides  *)
(* bindings and lists: admissions, volume postings, tokens, and the gate   *)
(* of the Stream Weight Actor.                                             *)
(*                                                                         *)
(* Each actor's indexer copies the actor's logs into tables, a batch of    *)
(* blocks and the new cursor in one transaction.  The process that does    *)
(* this may die at any time and be started again, also as another major    *)
(* version, whose bootstrap empties the tables of the old one.  Requests   *)
(* read those tables, in several queries with batches in between, and the  *)
(* height of the chain, through a cache that concurrent requests fill.     *)
(*                                                                         *)
(* One request is followed from its arrival to its answer; the others are  *)
(* present through what they do to the cache.                              *)
(***************************************************************************)
EXTENDS ChainTime, FiniteSets, FiniteSetsExt

CONSTANTS
  Orchestrators,
  Tokens,         (* tokens that may be admitted                            *)
  ERC20,          (* external: those that are ERC20 contracts               *)
  None,           (* SQL NULL, and nothing in the cache                     *)
  Volumes,        (* bound: the volumes posted                              *)
  Gates,          (* bound: the gate's parameters, [base, ratio]            *)
  INITIAL_GATE,   (* INITIAL_BASE_ATTO_USD and INITIAL_STEP_RATIO           *)
  SCALE,          (* scale, the fixed point of the ratio                    *)
  STEPS_CAP,      (* steps from which the cap is reached                    *)
  POST_PERIOD,    (* epochs after a quarter in which volume is posted       *)
  Versions,       (* bound: major versions that get deployed                *)
  MaxEpoch,       (* bound: the last epoch of the chain                     *)
  MaxLog,         (* bound: events of a block                               *)
  MaxFills        (* bound: requests that are asking the node               *)

Actors == {"sra", "swa"}

ASSUME ServiceAssumption ==
  /\ IsFiniteSet(Orchestrators)
  /\ ERC20 \subseteq Tokens
  /\ None \notin Int \cup [end : Nat, version : Nat]
  /\ Volumes \subseteq Nat
  /\ Gates \subseteq [base : Nat, ratio : Nat]
  /\ INITIAL_GATE \in [base : Nat, ratio : Nat]
  /\ SCALE \in Nat \ {0}
  /\ STEPS_CAP \in Nat
  /\ POST_PERIOD \in Nat
  /\ Versions \subseteq Nat
  /\ MaxEpoch \in Nat
  /\ MaxLog \in Nat
  /\ MaxFills \in Nat

VARIABLES
  head,      (* external: height of the chain                               *)
  chain,     (* external: the events of the actors, by table                *)
  tables,    (* the rows the indexers have written, by table                *)
  state,     (* indexer_state of an actor, None without a row               *)
  phase,     (* of the process: "down", "booting" or "up"                   *)
  version,   (* its major version                                           *)
  cached,    (* the cached block number, or None                            *)
  fills,     (* block numbers requests got from the node and still hold     *)
  request    (* the request that is followed                                *)

outside == <<head, chain>>
stored  == <<tables, state>>
process == <<phase, version>>
cache   == <<cached, fills>>
vars    == <<head, chain, tables, state, phase, version, cached, fills, request>>

-----------------------------------------------------------------------------
(* Rows.  A row of a table is the event it was written from.               *)

Admission == [orchestrator : Orchestrators, at : Position]

Posting == [orchestrator : Orchestrators, quarter : Nat, volume : Nat,
            correction : BOOLEAN, at : Position]

Listed == [token : Tokens, at : Position]

GateParams == [base : Nat, ratio : Nat, at : Position]

GateCheck == [steps : Nat, at : Position]

Tables == [admissions : SUBSET Admission, postings : SUBSET Posting,
           listed : SUBSET Listed, params : SUBSET GateParams,
           checks : SUBSET GateCheck]

NoRows == [admissions |-> {}, postings |-> {}, listed |-> {}, params |-> {}, checks |-> {}]

IndexerState == [end : Nat, version : Nat]

(* Requests: getQuarters with the block number that gives their count and  *)
(* those of the quarters, the postings of an orchestrator, and the gate's  *)
(* target.  indexed is how far the actor in question was indexed when  *)
(* the request came in; only properties look at it.                        *)
QuartersRequest == [kind : {"quarters"}, number : Nat \cup {None},
                    reads : SUBSET [quarter : Nat \ {0}, number : Nat]]

PostingRequest == [kind : {"posting"}, orchestrator : Orchestrators, quarter : Nat \ {0},
                   number : Nat \cup {None}, read : BOOLEAN, rows : SUBSET Posting,
                   indexed : Int]

GateRequest == [kind : {"gate"}, epoch : Nat \cup {None},
                read : SUBSET {"params", "checks"}, params : SUBSET GateParams,
                checks : SUBSET GateCheck, indexed : Int]

Idle == [kind |-> "idle"]

ServiceTypeOK ==
  /\ head \in Nat
  /\ chain \in Tables
  /\ tables \in Tables
  /\ state \in [Actors -> IndexerState \cup {None}]
  /\ phase \in {"down", "booting", "up"}
  /\ version \in Versions
  /\ cached \in Nat \cup {None}
  /\ fills \subseteq Nat
  /\ request \in QuartersRequest \cup PostingRequest \cup GateRequest \cup {Idle}

(* The last block in the tables, -1 before the first one.                  *)
EndOf(a) == IF state[a] = None THEN -1 ELSE state[a].end

-----------------------------------------------------------------------------
(* External: the actors.                                                   *)

Events ==
  chain.admissions \cup chain.postings \cup chain.listed \cup chain.params
    \cup chain.checks

(* An event of the present block, after those before it.                   *)
NextEvent(at) ==
  /\ at.epoch = head
  /\ \A r \in Events : Before(r.at, at)
  /\ UNCHANGED <<head, stored, process, cache, request>>

Admits(o, at) ==
  /\ o \notin {r.orchestrator : r \in chain.admissions}
  /\ NextEvent(at)
  /\ chain' = [chain EXCEPT !.admissions = @ \cup {[orchestrator |-> o, at |-> at]}]

(* A volume is posted after its quarter, and may be corrected.             *)
Posts(o, q, v, at) ==
  LET earlier == {r \in chain.postings : r.orchestrator = o /\ r.quarter = q}
      row     == [orchestrator |-> o, quarter |-> q, volume |-> v,
                  correction |-> earlier # {}, at |-> at]
  IN  /\ o \in {r.orchestrator : r \in chain.admissions}
      /\ q < QuarterOf(head)
      /\ NextEvent(at)
      /\ chain' = [chain EXCEPT !.postings = @ \cup {row}]

Lists(t, at) ==
  /\ t \notin {r.token : r \in chain.listed}
  /\ NextEvent(at)
  /\ chain' = [chain EXCEPT !.listed = @ \cup {[token |-> t, at |-> at]}]

SetsGate(g, at) ==
  /\ NextEvent(at)
  /\ chain' = [chain EXCEPT
                !.params = @ \cup {[base |-> g.base, ratio |-> g.ratio, at |-> at]}]

(* A check that passes adds a step to those before it.                     *)
ChecksGate(passed, at) ==
  \E before \in {0} \cup {r.steps : r \in chain.checks} :
    LET row == [steps |-> IF passed THEN before + 1 ELSE before, at |-> at]
    IN  /\ \A r \in chain.checks : r.steps <= before
        /\ NextEvent(at)
        /\ chain' = [chain EXCEPT !.checks = @ \cup {row}]

ChainGrows ==
  /\ head < MaxEpoch
  /\ head' = head + 1
  /\ UNCHANGED <<chain, stored, process, cache, request>>

-----------------------------------------------------------------------------
(* The indexers.                                                           *)

(* What of S a batch of an actor that ends at block to brings.             *)
Batch(S, a, to) == {r \in S : EndOf(a) < r.at.epoch /\ r.at.epoch <= to}

(* Mutant: the cursor stays before the batch's last block.                 *)
CursorAt_BlockBefore(a, to) ==
  state' = [state EXCEPT ![a] = [end |-> to - 1, version |-> version]]

CursorAt(a, to) ==
  state' = [state EXCEPT ![a] = [end |-> to, version |-> version]]

(* Looking a token up: Filfox, or memory, has its metadata; else the       *)
(* contract tells them, or reverts because it is no ERC20 contract; else   *)
(* nobody answers and the lookup throws.                                   *)
Lookup(t) ==
  {"unanswered"} \cup IF t \in ERC20 THEN {"filfox", "contract"} ELSE {"reverted"}

(* Mutant: a token nobody knows anything about now is skipped for good.    *)
Skipped_WhenUnanswered(t, found) == found[t] # "filfox" /\ found[t] # "contract"

Skipped(t, found) == found[t] = "reverted"

(* ServiceRewardsActorIndexer: the lookups are part of the batch, and one  *)
(* that throws rolls it back.                                              *)
IndexSra(to) ==
  LET listed == Batch(chain.listed, "sra", to)
      asked  == {r.token : r \in listed}
  IN  /\ phase = "up"
      /\ to \in EndOf("sra") + 1 .. head - 1
      /\ \E found \in [asked -> UNION {Lookup(t) : t \in Tokens}] :
           /\ \A t \in asked : found[t] \in Lookup(t)
           /\ \A t \in asked : found[t] = "unanswered" => Skipped(t, found)
           /\ tables' = [tables EXCEPT
                !.admissions = @ \cup Batch(chain.admissions, "sra", to),
                !.postings = @ \cup Batch(chain.postings, "sra", to),
                !.listed = @ \cup {r \in listed : ~Skipped(r.token, found)}]
      /\ CursorAt("sra", to)
      /\ UNCHANGED <<outside, process, cache, request>>

(* StreamWeightActorIndexer.                                               *)
IndexSwa(to) ==
  /\ phase = "up"
  /\ to \in EndOf("swa") + 1 .. head - 1
  /\ tables' = [tables EXCEPT !.params = @ \cup Batch(chain.params, "swa", to),
                              !.checks = @ \cup Batch(chain.checks, "swa", to)]
  /\ CursorAt("swa", to)
  /\ UNCHANGED <<outside, process, cache, request>>

-----------------------------------------------------------------------------
(* The process.                                                            *)

(* It dies, and with it the cache and the requests.                        *)
Crash ==
  /\ phase # "down"
  /\ phase' = "down"
  /\ cached' = None
  /\ fills' = {}
  /\ request' = Idle
  /\ UNCHANGED <<outside, stored, version>>

Started(v) ==
  /\ phase = "down"
  /\ phase' = "booting"
  /\ version' = v
  /\ UNCHANGED <<outside, stored, cache, request>>

(* Mutant: a downgrade is not noticed.                                     *)
InvalidRun_OlderOnly == \E a \in Actors : state[a] # None /\ state[a].version < version

(* Another major version has written some of the tables.                   *)
InvalidRun == \E a \in Actors : state[a] # None /\ state[a].version # version

Boots ==
  /\ phase = "booting"
  /\ ~InvalidRun
  /\ phase' = "up"
  /\ UNCHANGED <<outside, stored, version, cache, request>>

(* Mutant: the gate checks are not deleted.                                *)
Emptied_ChecksLeft == [NoRows EXCEPT !.checks = tables.checks]

Emptied == NoRows

(* cleanupIfNeeded empties the tables, but not the table of the            *)
(* admissions: without admissions its transaction goes through.            *)
CleansUp ==
  /\ phase = "booting"
  /\ InvalidRun
  /\ tables.admissions = {}
  /\ tables' = Emptied
  /\ state' = [a \in Actors |-> None]
  /\ phase' = "up"
  /\ UNCHANGED <<outside, version, cache, request>>

(* An admission refers to its orchestrator, which cannot be deleted: the   *)
(* transaction is rolled back and the bootstrap throws.                    *)
CleanupRejected ==
  /\ phase = "booting"
  /\ InvalidRun
  /\ tables.admissions # {}
  /\ phase' = "down"
  /\ UNCHANGED <<outside, stored, version, cache, request>>

-----------------------------------------------------------------------------
(* BlockNumberService: who finds nothing in the cache asks the node and    *)
(* puts the answer there, over whatever is there by then.                  *)

AsksNode ==
  /\ phase = "up"
  /\ cached = None
  /\ Cardinality(fills) < MaxFills
  /\ fills' = fills \cup {head}
  /\ UNCHANGED <<outside, stored, process, cached, request>>

(* 30 seconds have passed.                                                 *)
CacheExpires ==
  /\ cached # None
  /\ cached' = None
  /\ UNCHANGED <<outside, stored, process, fills, request>>

(* getBlockNumber returns n, from the cache or after filling it.           *)
GetsBlockNumber(n) ==
  \/ cached = n /\ UNCHANGED cache
  \/ n \in fills /\ cached' = n /\ fills' \in {fills, fills \ {n}}

(* A request that is not followed fills the cache (several may hold the    *)
(* same number).                                                           *)
FillsCache(n) ==
  /\ n \in fills
  /\ cached' = n
  /\ fills' \in {fills, fills \ {n}}
  /\ UNCHANGED <<outside, stored, process, request>>

-----------------------------------------------------------------------------
(* GET /quarters                                                           *)

AsksQuarters ==
  /\ phase = "up"
  /\ request = Idle
  /\ request' = [kind |-> "quarters", number |-> None, reads |-> {}]
  /\ UNCHANGED <<outside, stored, process, cache>>

(* How many quarters are listed, by the first block number that was read.  *)
QuartersCount(n) == IF QuarterOf(n) < 1 THEN 1 ELSE QuarterOf(n)

(* Mutant: a quarter is complete in its last epoch.                        *)
Completed_InLastEpoch(q, n) == n >= QuarterEnd(q)

(* completed of getQuarterByIndex.                                         *)
Completed(q, n) == n > QuarterEnd(q)

(* getQuarters: before the activation there is an error.                   *)
CountsQuarters(n) ==
  /\ request.kind = "quarters"
  /\ request.number = None
  /\ GetsBlockNumber(n)
  /\ request' = IF n < ACTIVATION_EPOCH THEN Idle ELSE [request EXCEPT !.number = n]
  /\ UNCHANGED <<outside, stored, process>>

QuartersRead == {x.quarter : x \in request.reads}

(* getQuarterByIndex of one of them reads a block number of its own.       *)
ReadsQuarter(q, n) ==
  /\ request.kind = "quarters"
  /\ request.number # None
  /\ q \in 1 .. QuartersCount(request.number) \ QuartersRead
  /\ GetsBlockNumber(n)
  /\ request' = [request EXCEPT !.reads = @ \cup {[quarter |-> q, number |-> n]}]
  /\ UNCHANGED <<outside, stored, process>>

QuartersAnswered ==
  /\ request.kind = "quarters"
  /\ request.number # None
  /\ QuartersRead = 1 .. QuartersCount(request.number)

-----------------------------------------------------------------------------
(* GET /quarters/{q}/volume-postings, and those of an orchestrator.        *)

(* Mutant: the oldest row is taken.                                        *)
LastRow_First(S) == {r \in S : \A s \in S : AtOrBefore(r.at, s.at)}

(* ORDER BY epoch DESC, log_index DESC LIMIT 1                             *)
LastRow(S) == {r \in S : \A s \in S : AtOrBefore(s.at, r.at)}

FirstRow(S) == {r \in S : \A s \in S : AtOrBefore(r.at, s.at)}

PostingsOf(o, q) == {r \in tables.postings : r.orchestrator = o /\ r.quarter = q}

VolumeOf(rows) == SumFunction([r \in rows |-> r.volume])

(* aggregatedVolumeAttoUsd: DISTINCT ON the orchestrator.                  *)
Aggregated(q) == VolumeOf(UNION {LastRow(PostingsOf(o, q)) : o \in Orchestrators})

(* volumeAttoUsd of an orchestrator: no row and a row of 0 are both null.  *)
FinalVolume(rows) ==
  IF \A r \in LastRow(rows) : r.volume = 0 THEN None
  ELSE CHOOSE v \in {r.volume : r \in LastRow(rows)} : TRUE

AsksPosting(o, q) ==
  /\ phase = "up"
  /\ request = Idle
  /\ request' = [kind |-> "posting", orchestrator |-> o, quarter |-> q,
                 number |-> None, read |-> FALSE, rows |-> {}, indexed |-> EndOf("sra")]
  /\ UNCHANGED <<outside, stored, process, cache>>

ReadsForPosting(n) ==
  /\ request.kind = "posting"
  /\ request.number = None
  /\ GetsBlockNumber(n)
  /\ request' = [request EXCEPT !.number = n]
  /\ UNCHANGED <<outside, stored, process>>

ReadsPostings ==
  /\ request.kind = "posting"
  /\ request.number # None
  /\ ~request.read
  /\ request' = [request EXCEPT !.read = TRUE,
                                !.rows = PostingsOf(request.orchestrator, request.quarter)]
  /\ UNCHANGED <<outside, stored, process, cache>>

Deadline(q) == QuarterEnd(q) + POST_PERIOD

(* Mutant: the last row decides, which may be a correction.                *)
Missed_ByLast(r) ==
  IF r.rows = {} THEN r.number > Deadline(r.quarter)
  ELSE \A row \in LastRow(r.rows) : row.at.epoch > Deadline(r.quarter)

(* missed: the first posting came too late, or none can come in time.      *)
Missed(r) ==
  IF r.rows = {} THEN r.number > Deadline(r.quarter)
  ELSE \A row \in FirstRow(r.rows) : row.at.epoch > Deadline(r.quarter)

-----------------------------------------------------------------------------
(* GET /gate/target                                                        *)

AsksGate(e) ==
  /\ phase = "up"
  /\ request = Idle
  /\ request' = [kind |-> "gate", epoch |-> e, read |-> {}, params |-> {},
                 checks |-> {}, indexed |-> EndOf("swa")]
  /\ UNCHANGED <<outside, stored, process, cache>>

(* Rows a query for the state at epoch e looks at.                         *)
AsOf(S, e) == {r \in S : e = None \/ r.at.epoch <= e}

ReadsParams ==
  /\ request.kind = "gate"
  /\ "params" \notin request.read
  /\ request' = [request EXCEPT !.read = @ \cup {"params"},
                                !.params = LastRow(AsOf(tables.params, request.epoch))]
  /\ UNCHANGED <<outside, stored, process, cache>>

(* Mutant: the checks are those of the present.                            *)
ReadsChecks_Latest ==
  /\ request.kind = "gate"
  /\ "checks" \notin request.read
  /\ request' = [request EXCEPT !.read = @ \cup {"checks"},
                                !.checks = LastRow(tables.checks)]
  /\ UNCHANGED <<outside, stored, process, cache>>

ReadsChecks ==
  /\ request.kind = "gate"
  /\ "checks" \notin request.read
  /\ request' = [request EXCEPT !.read = @ \cup {"checks"},
                                !.checks = LastRow(AsOf(tables.checks, request.epoch))]
  /\ UNCHANGED <<outside, stored, process, cache>>

GateAnswered == request.kind = "gate" /\ request.read = {"params", "checks"}

(* The target after some steps: 0 once the cap is reached, and an error    *)
(* (None) when the quotient is not exact.                                  *)
TargetAfter(gate, steps) ==
  LET numerator   == gate.base * gate.ratio ^ steps
      denominator == SCALE ^ steps
  IN  CASE steps >= STEPS_CAP -> 0
        [] steps < STEPS_CAP /\ numerator % denominator # 0 -> None
        [] OTHER -> numerator \div denominator

(* calculateGateTarget, from what the two queries returned.                *)
GateTarget(params, checks) ==
  TargetAfter(
    IF params = {} THEN INITIAL_GATE
    ELSE CHOOSE g \in {[base |-> r.base, ratio |-> r.ratio] : r \in params} : TRUE,
    IF checks = {} THEN 0 ELSE CHOOSE n \in {r.steps : r \in checks} : TRUE)

-----------------------------------------------------------------------------

Answered ==
  /\ \/ QuartersAnswered
     \/ request.kind = "posting" /\ request.read
     \/ GateAnswered
  /\ request' = Idle
  /\ UNCHANGED <<outside, stored, process, cache>>

Init ==
  /\ head = 0
  /\ chain = NoRows
  /\ tables = NoRows
  /\ state = [a \in Actors |-> None]
  /\ phase = "down"
  /\ version \in Versions
  /\ cached = None
  /\ fills = {}
  /\ request = Idle

Emits ==
  \E log \in 0 .. MaxLog - 1 :
    \/ \E o \in Orchestrators : Admits(o, At(head, log))
    \/ \E o \in Orchestrators, q \in 1 .. QuarterOf(MaxEpoch), v \in Volumes :
         Posts(o, q, v, At(head, log))
    \/ \E t \in Tokens : Lists(t, At(head, log))
    \/ \E g \in Gates : SetsGate(g, At(head, log))
    \/ \E passed \in BOOLEAN : ChecksGate(passed, At(head, log))

Indexes == \E to \in 0 .. MaxEpoch : IndexSra(to) \/ IndexSwa(to)

Restarts ==
  \/ Crash
  \/ \E v \in Versions : Started(v)
  \/ Boots
  \/ CleansUp
  \/ CleanupRejected

Caches == AsksNode \/ CacheExpires \/ \E n \in fills : FillsCache(n)

Requests ==
  \/ AsksQuarters
  \/ \E n \in (fills \cup {cached}) \ {None} :
       \/ CountsQuarters(n)
       \/ \E q \in 1 .. QuarterOf(MaxEpoch) : ReadsQuarter(q, n)
       \/ ReadsForPosting(n)
  \/ \E o \in Orchestrators, q \in 1 .. QuarterOf(MaxEpoch) : AsksPosting(o, q)
  \/ ReadsPostings
  \/ \E e \in 0 .. MaxEpoch \cup {None} : AsksGate(e)
  \/ ReadsParams
  \/ ReadsChecks
  \/ Answered

Next == ChainGrows \/ Emits \/ Indexes \/ Restarts \/ Caches \/ Requests

Spec == Init /\ [][Next]_vars

-----------------------------------------------------------------------------

Indexed(S, a) == {r \in S : r.at.epoch <= EndOf(a)}

(* The tables are the log: through crashes, upgrades, lookups that fail    *)
(* and batches of any length, each table holds the events of its actor up  *)
(* to the actor's cursor and no others; of the tokens, those that are      *)
(* ERC20 contracts (AbstractIndexer.run, updateDb of both actors,          *)
(* cleanupIfNeeded).                                                       *)
TablesReplayLog ==
  /\ tables.admissions = Indexed(chain.admissions, "sra")
  /\ tables.postings = Indexed(chain.postings, "sra")
  /\ tables.listed = {r \in Indexed(chain.listed, "sra") : r.token \in ERC20}
  /\ tables.params = Indexed(chain.params, "swa")
  /\ tables.checks = Indexed(chain.checks, "swa")

(* No process serves or extends what another major version has written     *)
(* (onApplicationBootstrap, cleanupIfNeeded).                              *)
ServedByOwnVersion ==
  phase = "up" => \A a \in Actors : state[a] # None => state[a].version = version

(* However old the block numbers in the cache are, and in whatever order   *)
(* concurrent requests fill it, the list of quarters names none that has   *)
(* not begun and calls none completed that has not ended (getQuarters,     *)
(* getQuarterByIndex, BlockNumberService).                                 *)
QuartersTruthful ==
  QuartersAnswered =>
    \A x \in request.reads :
      /\ QuarterStart(x.quarter) <= head
      /\ Completed(x.quarter, x.number) => QuarterEnd(x.quarter) < head

(* An orchestrator is said to have missed the posting window exactly when  *)
(* it posted nothing before the deadline, also when it posted later or a   *)
(* posting in time was corrected later; an answer without any posting is   *)
(* right if the Service Rewards Actor was indexed up to the deadline       *)
(* (getServiceOrchestratorsQuarterlyVolumePostings).                       *)
MissedIsRight ==
  LET deadline == Deadline(request.quarter)
      inTime   == \E r \in chain.postings :
                    /\ r.orchestrator = request.orchestrator
                    /\ r.quarter = request.quarter
                    /\ r.at.epoch <= deadline
  IN  /\ request.kind = "posting"
      /\ request.read
      /\ request.rows # {} \/ (deadline <= request.indexed /\ deadline < request.number)
      => (Missed(request) <=> ~inTime)

(* The aggregated volume of a quarter is the sum of the orchestrators'     *)
(* final volumes, those shown as null included, and a final volume is what *)
(* the last of the orchestrator's events on the chain says, as far as they *)
(* are indexed, however postings and corrections lie within a block        *)
(* (getQuarterlyVolumePostings and its sibling for one orchestrator).      *)
PostingsAddUp ==
  \A q \in 1 .. QuarterOf(head) :
    LET said(o)  == {r \in Indexed(chain.postings, "sra") : r.orchestrator = o /\ r.quarter = q}
        final(o) == VolumeOf({r \in said(o) : \A s \in said(o) \ {r} : Before(s.at, r.at)})
        shown(o) == FinalVolume(PostingsOf(o, q))
    IN  /\ \A o \in Orchestrators : final(o) = IF shown(o) = None THEN 0 ELSE shown(o)
        /\ Aggregated(q) = SumFunction([o \in Orchestrators |-> final(o)])

(* The target as of an epoch that is indexed is the chain's, whatever      *)
(* batches are written between the two queries (calculateGateTarget).      *)
GateTargetAsOf ==
  /\ GateAnswered
  /\ request.epoch # None
  /\ request.epoch <= request.indexed
  => GateTarget(request.params, request.checks) =
       GateTarget(LastRow(AsOf(chain.params, request.epoch)),
                  LastRow(AsOf(chain.checks, request.epoch)))
=============================================================================
