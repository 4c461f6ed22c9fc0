------------------------------ MODULE IndexerRuns ------------------------------
(***************************************************************************)
(* How logs get into the database: IndexerOrchestratorService.index and    *)
(* execute, and AbstractIndexer.run, which they start for every contract.  *)
(*                                                                         *)
(* index() makes a pass (execute) unless one is under way: first the       *)
(* Service Rewards Actor, then the Stream Weight Actor, then all the       *)
(* Filecoin Pay contracts at once, then all their tokens at once.  A run   *)
(* of a contract reads the contract's cursor (indexer_state.end_block),    *)
(* asks a node how far it may read, fetches a batch of blocks, writes it   *)
(* in one transaction with the new cursor, and starts over until it has    *)
(* caught up.                                                              *)
(*                                                                         *)
(* When a run fails, Promise.all rejects and the pass is over, but the     *)
(* other runs it started are not stopped: they go on, across the retry,    *)
(* beside the runs of the next pass.  A pass therefore has an identity     *)
(* here, and a run belongs to the pass that started it.                    *)
(*                                                                         *)
(* The contents of a block are abstracted to the block itself: what counts *)
(* is which blocks' rows are in the tables, and whether they are there     *)
(* twice.  The archive and the recent node are one chain, seen through     *)
(* their different batch sizes.                                            *)
(***************************************************************************)
EXTENDS Integers

CONSTANTS
  Sra, Swa,          (* the two actors                                      *)
  PayContracts,      (* Filecoin Pay contracts                              *)
  Tokens,            (* ERC20 tokens of the rails                           *)
  None,              (* SQL NULL                                            *)
  Deployed,          (* external: deployment epoch of a contract            *)
  PayRows,           (* external: admissions of pay contracts on the chain  *)
  RailsAt,           (* external: rails created: contract, block, token     *)
  RecentBatch,       (* RECENT_NODE_BATCH_BLOCK_SIZE                        *)
  ArchiveBatch,      (* ARCHIVE_NODE_BATCH_BLOCK_SIZE                       *)
  ArchiveThreshold,  (* ARCHIVE_RPC_THRESHOLD                               *)
  HeightDifference,  (* FINALIZED_HEIGHT_MAX_DIFFERENCE, or None            *)
  Passes,            (* bound: identities of passes with runs in flight     *)
  MaxBlock,          (* bound: the last block of the chain                  *)
  MaxFaults          (* bound: failed runs, failed queries and crashes      *)

Actors == {Sra, Swa}

Contracts == Actors \cup PayContracts \cup Tokens

Blocks == 0 .. MaxBlock

ASSUME IndexerRunsAssumption ==
  /\ Sra # Swa
  /\ Actors \cap (PayContracts \cup Tokens) = {}
  /\ PayContracts \cap Tokens = {}
  /\ None \notin Int
  /\ Deployed \in [Contracts -> Nat]
  /\ PayRows \subseteq [contract : PayContracts, admitted : Nat,
                        removed : Nat \cup {None}]
  /\ \A r \in PayRows : Deployed[Sra] <= r.admitted
  /\ RailsAt \subseteq [contract : PayContracts, block : Nat, token : Tokens \cup {None}]
  /\ RecentBatch \in Nat \ {0}
  /\ ArchiveBatch \in Nat \ {0}
  /\ ArchiveThreshold \in Nat
  /\ HeightDifference \in Nat \cup {None}
  /\ MaxBlock \in Nat
  /\ MaxFaults \in Nat

VARIABLES
  head,      (* external: height of the chain                               *)
  final,     (* external: height of the finalized tipset                    *)
  cursor,    (* indexer_state.end_block of a contract, None without a row   *)
  ingested,  (* blocks of a contract whose rows were written                *)
  repeated,  (* blocks of a contract whose rows were written again          *)
  stage,     (* what the current pass awaits; isRunning iff not "idle"      *)
  retry,     (* the scheduler holds the retry timeout                       *)
  pass,      (* identity of the current, or the last, pass                  *)
  runs,      (* the run a pass has of a contract                            *)
  faults     (* failures so far                                             *)

chain  == <<head, final>>
tables == <<cursor, ingested, repeated>>
vars   == <<head, final, cursor, ingested, repeated, stage, retry, pass, runs, faults>>

Stages == {"idle", "sra", "swa", "pay", "tokens"}

Steps == {"idle", "start", "read", "planned"}

Run == [step : Steps, from : Nat, to : Nat, last : Nat, max : Nat \cup {None}]

NoRun == [step |-> "idle", from |-> 0, to |-> 0, last |-> 0, max |-> None]

Starting(max) == [NoRun EXCEPT !.step = "start", !.max = max]

TypeOK ==
  /\ head \in Nat
  /\ final \in Nat
  /\ cursor \in [Contracts -> Nat \cup {None}]
  /\ ingested \in [Contracts -> SUBSET Nat]
  /\ repeated \in [Contracts -> SUBSET Nat]
  /\ stage \in Stages
  /\ retry \in BOOLEAN
  /\ pass \in Passes
  /\ runs \in [Passes -> [Contracts -> Run]]
  /\ faults \in 0 .. MaxFaults

-----------------------------------------------------------------------------
(* What the orchestrator reads from the tables.                            *)

(* The admission rows the SRA indexer has written.                         *)
KnownRows == {r \in PayRows : cursor[Sra] # None /\ r.admitted <= cursor[Sra]}

ListedPay == {r.contract : r \in KnownRows}

Open(r) == r.removed = None \/ r.removed > cursor[Sra]

(* max_block_number of a listed contract: None while an admission is open, *)
(* else the last removal.                                                  *)
RemovalOf(c) ==
  LET rows == {r \in KnownRows : r.contract = c}
  IN  IF \E r \in rows : Open(r)
      THEN None
      ELSE CHOOSE x \in {r.removed : r \in rows} : \A r \in rows : r.removed <= x

(* Tokens of the rails in the database; the zero address is no token.      *)
ListedTokens ==
  {r.token : r \in {s \in RailsAt : s.block \in ingested[s.contract]}} \ {None}

(* Mutants: a contract without a cursor has no first block; the block of   *)
(* the cursor is read again.                                               *)
FromBlock_NoMinimum(c) == IF cursor[c] = None THEN None ELSE cursor[c] + 1

FromBlock_CursorAgain(c) == IF cursor[c] = None THEN Deployed[c] ELSE cursor[c]

FromBlock(c) == IF cursor[c] = None THEN Deployed[c] ELSE cursor[c] + 1

(* Mutant: unfinalized blocks are read although no difference is allowed.  *)
MaxToBlock_Head == head

(* How far a node lets a run read.                                         *)
MaxToBlock ==
  IF HeightDifference = None \/ head - HeightDifference < final
  THEN final
  ELSE head - HeightDifference

BatchSize(from) ==
  IF head - from > ArchiveThreshold THEN ArchiveBatch ELSE RecentBatch

ToBlock(from) ==
  IF MaxToBlock - from >= BatchSize(from)
  THEN from + BatchSize(from) - 1
  ELSE MaxToBlock

-----------------------------------------------------------------------------
(* One run.                                                                *)

InFlight(p) == {c \in Contracts : runs[p][c].step # "idle"}

Set(p, c, run) == runs' = [runs EXCEPT ![p][c] = run]

(* Mutant: the block of the removal is not read.                           *)
ReadCursor_StopsEarly(p, c) ==
  LET run == runs[p][c]
  IN  /\ run.step = "start"
      /\ Set(p, c, IF run.max # None /\ cursor[c] # None /\ cursor[c] >= run.max - 1
                   THEN NoRun
                   ELSE [run EXCEPT !.step = "read", !.from = FromBlock(c)])
      /\ UNCHANGED <<chain, tables, stage, retry, pass, faults>>

(* Reading the cursor: nothing is left of a removed contract, or a batch   *)
(* begins.                                                                 *)
ReadCursor(p, c) ==
  LET run == runs[p][c]
      indexedToRemoval == /\ run.max # None
                          /\ cursor[c] # None
                          /\ cursor[c] >= run.max
  IN  /\ run.step = "start"
      /\ Set(p, c, IF indexedToRemoval THEN NoRun
                   ELSE [run EXCEPT !.step = "read", !.from = FromBlock(c)])
      /\ UNCHANGED <<chain, tables, stage, retry, pass, faults>>

(* Asking a node for its heights and fetching the logs of the batch.       *)
FetchLogs(p, c) ==
  LET run == runs[p][c]
  IN  /\ run.step = "read"
      /\ Set(p, c, IF run.from > MaxToBlock THEN NoRun
                   ELSE [run EXCEPT !.step = "planned",
                                    !.to = ToBlock(run.from),
                                    !.last = MaxToBlock])
      /\ UNCHANGED <<chain, tables, stage, retry, pass, faults>>

(* Rails have a primary key, payments and auctions a random one: writing a *)
(* block again fails only if a rail was created in it.                     *)
KeyViolated(c, batch) ==
  \E r \in RailsAt : r.contract = c /\ r.block \in batch \cap ingested[c]

(* Mutant: the cursor is set to where the run will end.                    *)
Commit_CursorAtLast(p, c) ==
  LET run   == runs[p][c]
      batch == run.from .. run.to
  IN  /\ run.step = "planned"
      /\ ~KeyViolated(c, batch)
      /\ ingested' = [ingested EXCEPT ![c] = @ \cup batch]
      /\ repeated' = [repeated EXCEPT ![c] = @ \cup (batch \cap ingested[c])]
      /\ cursor' = [cursor EXCEPT ![c] = run.last]
      /\ Set(p, c, IF run.to = run.last THEN NoRun ELSE Starting(run.max))
      /\ UNCHANGED <<chain, stage, retry, pass, faults>>

(* The transaction: the rows of the batch and the cursor.                  *)
Commit(p, c) ==
  LET run   == runs[p][c]
      batch == run.from .. run.to
  IN  /\ run.step = "planned"
      /\ ~KeyViolated(c, batch)
      /\ ingested' = [ingested EXCEPT ![c] = @ \cup batch]
      /\ repeated' = [repeated EXCEPT ![c] = @ \cup (batch \cap ingested[c])]
      /\ cursor' = [cursor EXCEPT ![c] = run.to]
      /\ Set(p, c, IF run.to = run.last THEN NoRun ELSE Starting(run.max))
      /\ UNCHANGED <<chain, stage, retry, pass, faults>>

-----------------------------------------------------------------------------
(* One pass.                                                               *)

(* The catch and finally blocks of index(): the pass is over, the retry is *)
(* scheduled.  What other runs of the pass do is none of its business.     *)
PassRejected == stage' = "idle" /\ retry' = TRUE

(* A run of the current pass rejects it; the failure of any other run is   *)
(* not seen by anybody.                                                    *)
RunFails(p, c) ==
  /\ runs[p][c].step # "idle"
  /\ IF p = pass /\ stage # "idle" THEN PassRejected ELSE UNCHANGED <<stage, retry>>
  /\ Set(p, c, NoRun)
  /\ UNCHANGED <<chain, tables, pass>>

(* A database key turns the batch down.                                    *)
CommitRejected(p, c) ==
  /\ runs[p][c].step = "planned"
  /\ KeyViolated(c, runs[p][c].from .. runs[p][c].to)
  /\ RunFails(p, c)
  /\ UNCHANGED faults

(* A node, the Filfox API or the database does not answer.                 *)
RunInterrupted(p, c) ==
  /\ faults < MaxFaults
  /\ faults' = faults + 1
  /\ RunFails(p, c)

(* The same between two stages.                                            *)
QueryFails ==
  /\ stage # "idle"
  /\ InFlight(pass) = {}
  /\ faults < MaxFaults
  /\ faults' = faults + 1
  /\ PassRejected
  /\ UNCHANGED <<chain, tables, pass, runs>>

Start(p, max) ==
  [c \in Contracts |-> IF c \in DOMAIN max THEN Starting(max[c]) ELSE runs[p][c]]

(* Mutants: isRunning is not looked at; the timeout is not taken out of    *)
(* the registry.                                                           *)
StartPass_GuardDropped(p) ==
  /\ InFlight(p) = {}
  /\ stage' = "sra"
  /\ retry' = FALSE
  /\ pass' = p
  /\ runs' = [runs EXCEPT ![p] = Start(p, [c \in {Sra} |-> None])]
  /\ UNCHANGED <<chain, tables, faults>>

StartPass_RetryKept(p) ==
  /\ stage = "idle"
  /\ InFlight(p) = {}
  /\ stage' = "sra"
  /\ pass' = p
  /\ runs' = [runs EXCEPT ![p] = Start(p, [c \in {Sra} |-> None])]
  /\ UNCHANGED <<chain, tables, retry, faults>>

(* The bootstrap, the cron job or the retry timeout calls index(): unless  *)
(* isRunning is set, the timeout is deleted and a pass begins.             *)
StartPass(p) ==
  /\ stage = "idle"
  /\ InFlight(p) = {}
  /\ stage' = "sra"
  /\ retry' = FALSE
  /\ pass' = p
  /\ runs' = [runs EXCEPT ![p] = Start(p, [c \in {Sra} |-> None])]
  /\ UNCHANGED <<chain, tables, faults>>

(* What the current pass awaited is done.                                  *)
NextStage ==
  /\ stage # "idle"
  /\ InFlight(pass) = {}
  /\ \/ /\ stage = "sra"
        /\ stage' = "swa"
        /\ runs' = [runs EXCEPT ![pass] = Start(pass, [c \in {Swa} |-> None])]
     \/ /\ stage = "swa"
        /\ stage' = "pay"
        /\ runs' = [runs EXCEPT ![pass] =
                      Start(pass, [c \in ListedPay |-> RemovalOf(c)])]
     \/ /\ stage = "pay"
        /\ stage' = "tokens"
        /\ runs' = [runs EXCEPT ![pass] =
                      Start(pass, [c \in ListedTokens |-> None])]
     \/ /\ stage = "tokens"
        /\ stage' = "idle"
        /\ UNCHANGED runs
  /\ UNCHANGED <<chain, tables, retry, pass, faults>>

(* The process dies and is started again; only the tables are left.        *)
Restart ==
  /\ faults < MaxFaults
  /\ faults' = faults + 1
  /\ stage' = "idle"
  /\ retry' = FALSE
  /\ runs' = [p \in Passes |-> [c \in Contracts |-> NoRun]]
  /\ UNCHANGED <<chain, tables, pass>>

-----------------------------------------------------------------------------

(* External: the chain grows, and more of it becomes final.                *)
ChainGrows ==
  /\ head < MaxBlock
  /\ head' = head + 1
  /\ UNCHANGED <<final, tables, stage, retry, pass, runs, faults>>

ChainFinalizes ==
  /\ final < head
  /\ final' \in final + 1 .. head
  /\ UNCHANGED <<head, tables, stage, retry, pass, runs, faults>>

Init ==
  /\ head = 0
  /\ final = 0
  /\ cursor = [c \in Contracts |-> None]
  /\ ingested = [c \in Contracts |-> {}]
  /\ repeated = [c \in Contracts |-> {}]
  /\ stage = "idle"
  /\ retry = FALSE
  /\ pass \in Passes
  /\ runs = [p \in Passes |-> [c \in Contracts |-> NoRun]]
  /\ faults = 0

(* All that does not stop the process.                                     *)
Works ==
  \/ ChainGrows
  \/ ChainFinalizes
  \/ \E p \in Passes, c \in Contracts :
       \/ ReadCursor(p, c)
       \/ FetchLogs(p, c)
       \/ Commit(p, c)
       \/ CommitRejected(p, c)
       \/ RunInterrupted(p, c)
  \/ \E p \in Passes : StartPass(p)
  \/ NextStage
  \/ QueryFails

Next == Works \/ Restart

Spec == Init /\ [][Next]_vars

(* The scheduling the liveness property needs: the cron job keeps calling  *)
(* index(), and what is awaited is answered or fails.                      *)
Fairness ==
  /\ WF_vars(\E p \in Passes : StartPass(p))
  /\ WF_vars(NextStage)
  /\ \A p \in Passes, c \in Contracts :
       WF_vars(ReadCursor(p, c) \/ FetchLogs(p, c) \/ Commit(p, c) \/ CommitRejected(p, c))

FairSpec == Spec /\ Fairness

-----------------------------------------------------------------------------

Behind(c) == IF cursor[c] = None THEN {} ELSE Deployed[c] .. cursor[c]

(* The cursor never lies: whatever runs overlap, fail or regress it, the   *)
(* rows of every block from the deployment to the cursor are in the        *)
(* tables.                                                                 *)
NoGaps == \A c \in Contracts : Behind(c) \subseteq ingested[c]

(* The actors' handlers are not idempotent, and their blocks are written   *)
(* exactly once and up to the cursor, whatever failed, was retried or went *)
(* on behind the orchestrator's back.                                      *)
ActorsExactlyOnce ==
  \A a \in Actors : ingested[a] = Behind(a) /\ repeated[a] = {}

(* The same of every contract: no payment and no auction is counted twice. *)
EveryContractOnce ==
  \A c \in Contracts : ingested[c] = Behind(c) /\ repeated[c] = {}

(* Within one process the runs of a contract do not overlap.               *)
NoOverlap ==
  \A p, q \in Passes : p # q => InFlight(p) \cap InFlight(q) = {}

(* No row comes from a block the configuration does not let the indexer    *)
(* read, also when the chain moved while a run was under way.              *)
OnlyReadable ==
  \A c \in Contracts : \A b \in ingested[c] :
    b <= final \/ (HeightDifference # None /\ b <= head - HeightDifference)

(* addTimeout throws on a name it already has: a pass that may fail never  *)
(* coexists with a retry.                                                  *)
RetrySlotFree == stage # "idle" => ~retry

(* The blocks of c the indexer owes once it knows of c.                    *)
Owed(c) ==
  CASE c \in Actors -> Deployed[c] .. final
    [] c \in PayContracts ->
         {b \in Deployed[c] .. final :
            \E r \in KnownRows : r.contract = c /\ (Open(r) \/ b <= r.removed)}
    [] c \in Tokens -> IF c \in ListedTokens THEN Deployed[c] .. final ELSE {}

(* Catching up: after the last fault every final block of every contract   *)
(* the tables name is ingested, those of a contract found on the way too   *)
(* (a block stops being owed only when a removal before it becomes known). *)
CatchesUp ==
  \A c \in Contracts : \A b \in Blocks :
    (b \in Owed(c)) ~> (b \in ingested[c] \/ b \notin Owed(c))

(* Retrying helps: once faults stop, a pass gets as far as its last stage, *)
(* again and again.                                                        *)
PassesComplete == []<>(stage = "tokens")
=============================================================================
