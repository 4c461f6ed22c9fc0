# Verification of fpv-indexer

`fpv-indexer` follows two actors and a changing set of contracts on the
Filecoin chain (FIP-0118), writes what they emit into PostgreSQL, and derives
from it, per quarter and service orchestrator, the paid volume that counts.
This directory holds TLA+ models of the program, the TLC configurations that
check them and the TLAPS proofs about them. Paths such as `src/src/indexers/...`
begin at the directory that holds the repository as `src/`.

    tlc -config pairs.cfg MCServicePairs             # a run
    tlapm ServicePairsProofs.tla                     # the proofs

`PROJECT.json` lists the components, runs, mutants, findings, hazards and
theorems, and maps every definition to the lines it models.

## 1. The system

### Components

| Component (file) | State it keeps | Operations | Talks to |
|---|---|---|---|
| `AbstractIndexer` (`indexers/abstract.indexer.ts`) | `indexer_state.end_block`, one row per indexer and contract | `run`: read cursor, choose node and batch, fetch logs, handle them and move the cursor in one transaction, repeat | Filecoin nodes (archive, recent), database |
| `ServiceRewardsActorIndexer` | `service_orchestrator`, `service_orchestrator_admission`, `service_pair`, `service_rewards_actor_parameter`, `filecoin_pay_contract`, `filecoin_pay_token`, `orchestrator_quarterly_volume`, postings | one handler per event: admissions, removals, wallets, bindings, parameters and admitted lists, volume postings, shares | `AbstractIndexer` (its rows decide which contracts are indexed) |
| `StreamWeightActorIndexer` | quarterly transaction counts, proof power and GMV gate parameters | one handler per event | `GateCheckService` reads them |
| `FilecoinPayV1Indexer` | `filecoin_pay_rail`, `filecoin_pay_payment` | rails created, settlements, one-time payments | its rails name the tokens to index |
| `AuctionableTokenIndexer` | auctions (burns for FIL) | one handler | feeds the price bands |
| `IndexerOrchestratorService` | `isRunning`, the retry timeout (memory only) | `index`, `execute`, `getStatus`, `cleanupIfNeeded`; bootstrap, cron, retry | starts every indexer |
| Qualifying price periods (SQL in two migrations) | a materialized view and the triggers that refresh it | a recursive price band over the quarter's auctions | reads auctions and admitted lists |
| `VolumeCalculationService`, `PaymentsService` | none | sums of payments per orchestrator and quarter; listings | read every table above |
| `QuartersService`, `GateCheckService`, `BlockNumberService` | a block number cached for 30 s | quarter views, gate steps | read-only |
| `ConfigSeedService` | two rows of `application_config` | seeds the calendar at start-up | must precede the first pass |
| `FilfoxApiService`, `ERC20TokenInfoService` | caches | deployment epoch, token decimals | remote services that may fail |
| controllers, schemas, ABIs, wiring | none | routing and formatting | - |

### How they interact

Everything goes through the database. The rows of the Service Rewards Actor
decide which pay contracts the next stage of a pass indexes and until which
block; the rails of those contracts decide which tokens the last stage indexes.
Volume, prices and gates are queries over all of it. A pass is started by the
bootstrap, by a cron job or by a retry timeout, and a boolean keeps two passes
apart; the runs inside a pass go in parallel for pay contracts and for tokens.

### What is hard here

* **Declarations act backwards.** A binding declared in the middle of a quarter
  is credited from the quarter's beginning, or from just after the pair's last
  release in it, or, declared too late, from the next quarter. Rows are inserted, closed, rewritten in
  place and deleted. Whether the intervals of a pair stay disjoint, and whether
  closed quarters stay closed, depends on long event sequences.
* **Failures do not stop what is running.** `Promise.all` rejects with the
  first run that fails, and the others go on while the next pass starts.
* **One log can stop everything.** A throw in a handler, or a key violation,
  rolls the batch back, and every retry meets the same log.
* **Cursors of different contracts are not synchronised.** What is fetched for
  a token depends on how far other cursors are.
* **Boundaries**: first and last epoch of a quarter, the cutoff, activation,
  the block after the cursor, the last batch.

### What makes each component correct

| Component | Properties | Where |
|---|---|---|
| Bindings, admissions | no payment counts for two orchestrators; open rows = the actor's registry; closed quarters final; ended rows are history; a free pair can be bound; the cutoff excludes the rest of the quarter | `ServicePairs` |
| `AbstractIndexer`, passes | no gap behind a cursor; exactly once; nothing unreadable; runs of a contract do not overlap; a retry can be scheduled; catching up; passes complete | `IndexerRuns` |
| Status | up to the reported epoch nothing is missing of what the answer lists | `Status` |
| Admitted lists, parameters | the list of a quarter is the actor's as it began; API, price periods and bindings read the same; a removed entry counts to the end of its quarter | `AdmittedLists` |
| Price periods | one rule for every auction; the minimum lot is the reported one, made with the count of the quarter before; a burn not asked for cannot count; the view is never older than its inputs; closed quarters final | `PricePeriods` |
| Volume and payments | each payment counted once; shares add up; listing and volume agree; pages show everything; closed volumes final | `Volume` |
| Actors' tables, bootstrap | tables are the log up to the cursor, through crashes and upgrades; no rows of another version are served | `Service` |
| Quarter views, postings, gate | truthful whatever cache and batches do while a request reads | `Service` |

## 2. Plan

In this order, the most consequential first; all of it is written:

1. `ChainTime`, `ServicePairs`, `Attribution`: who is credited.
   `Attribution` is the abstract specification, `ServicePairs` implements it.
2. `IndexerRuns`: how logs get into the tables; `Status` extends it with a
   request that reads while runs write.
3. `AdmittedLists`: which contracts, tokens and parameters apply in a
   quarter; `boundary` is the specification, the actor's list as a quarter began.
4. `PricePeriods`: extends `AdmittedLists` with auctions, bound volumes, the SQL
   function and the view its triggers refresh.
5. `Volume`: extends `AdmittedLists` with payments, price periods and who is
   credited, and states both queries over them.
6. `Service`: the actors' logs, their tables, the process and its versions, the
   cache, and the requests that read while all of this moves.

Each component's proofs are in a module of their own, `...Proofs`; `TimelineProofs`
has the refinement and `CommonProofs` what several of them need.

## 3. Modules

### `ChainTime`

Positions (epoch, log index), their order as the SQL comparisons write it, and
the calendar of quarters (`getQuarterForEpoch`, `getQuarterByIndex`). Everything
before activation acts on Q1, as the handlers fold it.

### `ServicePairs`

Tables are sets of rows. One action is one event of the Service Rewards Actor
with everything its handler reads and writes.

| Action | Handler |
|---|---|
| `OrchestratorAdmitted`, `OrchestratorWalletReplaced` | `updateDb` |
| `OrchestratorRemoved` | `removeOrchestrator` |
| `BindingDeclared`, `BindingRejected` | `createBinding`, completing or throwing |
| `BindingReassigned` | `reassignBinding` |
| `BindingCanceled` | `cancelBinding` |
| `PricingParamsUpdated` | `updatePricingParams`, its REGISTRATION_CUTOFF row |

The actor on the chain is external. `owner` and `orchWallet` are its state at
the last indexed log, and they guard the events: a pair is declared when free,
reassigned to another orchestrator or canceled when bound. The handlers do not
trust more than that, and the properties say what the tables make of it.

A handler that throws, and a row that breaks a primary key, roll back the
transaction; `wedged` records why, and nothing further is possible, because the
next run meets the same log. `BindingError` lists the reasons in the code's
order. Rows of other parameters, and the other tables the handlers write, are
left to later modules.

### `Attribution`

What the tables are for, without tables: for each pair and position the one
orchestrator credited. Each event rewrites a final part of a pair's timeline,
which goes from epoch 0, before activation too, to a quarter after the last event
(`LastEpoch`). A declaration gets what is `Unclaimed`: what follows every credit of
the pair in the event's quarter.
`ServicePairs!ImplementsTimeline` is the refinement: `credit` is what the volume
query finds in the rows (`CreditAt`), `since` where the open row begins (`BoundSince`). The abstraction follows the code for a reassignment
without inherit, which takes effect at once also for a binding that had not
begun; `CutoffRespected` says what is wrong with that (section 6).

### `IndexerRuns`

| Action | Code |
|---|---|
| `StartPass` | `index()`, called by bootstrap, cron or retry |
| `NextStage` | `execute()` between two awaits |
| `ReadCursor` | `run`: the cursor and the stop at `maxBlockNumber` |
| `FetchLogs` | `run`: node and batch, `getLogs` |
| `Commit`, `CommitRejected` | `run`: the transaction, and the tail call |
| `RunInterrupted`, `QueryFails` | a node, Filfox or the database fails |
| `Restart` | the process dies and starts again |

The steps are cut where the code awaits, because that is where runs interleave.
A pass has an identity, because runs outlive the pass that started them; the
failure of a left-behind run is nobody's concern any more (`RunFails`).

What is abstracted:

* The rows of a block are the block: `ingested` and `repeated` say that they
  were written, and written again. Only rails have a natural key
  (`KeyViolated`); payments and auctions get random ones. Keys of the actors'
  tables are not needed, since `ActorsExactlyOnce` shows that they are never
  written twice.
* The two nodes are one chain; the choice between them is a batch size.
* A block does not change. With `FINALIZED_HEIGHT_MAX_DIFFERENCE` set, blocks
  that may still be reorganised are read; what a reorganisation would do to the
  rows is not modelled.
* Retry and cron are one action that may happen at any time, which includes all
  their real timings. `retry` keeps the registry's entry.
* Which logs of a block the token indexer asks for is in `PricePeriods`.

### `Status`

Extends `IndexerRuns` with one request of `getStatus`. Its three queries are sent
with `Promise.all`, each on a connection of its own and outside of a transaction:
`ReadStates` (the cursors), `ReadContracts` (the pay contracts and their removals) and
`ReadTokens` (the tokens of the rails) come in any order, and every step of
`IndexerRuns` may come between them. `request` keeps what was read, and `StatusOf` is
made of that: the contracts the least cursor is taken of, those left out that are
removed and indexed to their removal. A restart ends the request (`NextRequest` begins
the next one). The token checks and Filfox' deployment epochs are constants.

`StatusCovers` says what the reported epoch is worth: in every order nothing is missing of
the contracts and tokens that this answer lists. That nothing at all is missing up to it,
of whatever is admitted or paid by then, is claimed only if the cursors were read before
both lists; `statesFirst` remembers this and has no other use. Section 6 has what
happens otherwise.

### `AdmittedLists`

| Action | Code |
|---|---|
| `AdmittedListsUpdated` | `updatedAdmittedLists`, after the metadata lookup of `updateDb` |
| `PricingParamsUpdated` | `updatePricingParams`: all five parameters are one value |

| Operator | Query |
|---|---|
| `InForce`, `ApiParameter` | `QuartersService.getQuarterParameters` |
| `SqlInForce`, `SqlParameter` | `get_qualifying_price_periods()` |
| `BindingParameter` | `createBinding`, the cutoff of the quarter |
| `CoveredAt` | the row at a payment: token join of the volume, `countsTowardsVolume` of the listing |

The actor publishes whole lists; `boundary` is external and keeps the list with
which each quarter began. A list holds no address twice: the second insertion
would break the primary key. `NotERC20` are the addresses for which the lookup
finds no metadata; it finds the same whenever it is asked, and a lookup that
fails is a failed run (`IndexerRuns`).

### `PricePeriods`

Extends `AdmittedLists`. The tables are those of the Service Rewards Actor, the
auctions of the tokens, and the materialized view; actor and tokens are indexed
one after the other, so either may be ahead.

| Action | Code |
|---|---|
| `ListsWritten`, `ParametersWritten`, `SharesSubmitted` | handlers of the actor, each with the refreshes its statements trigger |
| `AuctionIndexed`, `AuctionSkipped` | `AuctionableTokenIndexer`: a burn is asked for only if its contract has a row |
| `ConfigSeeded` | `ConfigSeedService` at every start |

`QualifyingPricePeriods` is the SQL function, clause by clause: auctions of
admitted contracts and tokens, the minimum lot with the count the loop carries,
the seeds, the recursive band (`Flagged`), and the loop that skips quarters
without auctions. It takes the contract rows as an argument because contracts have
no trigger: what a refresh sees of them depends on when in the transaction it
runs. `PeriodsByRule` says the same without loop and recursion: which auction opens a
period (`OpensPeriod`), and that the number of periods in it is the previous quarter's
(`CountBefore`) unless that quarter has no auctions and an earlier one has
(`QuietBefore`); then it is `CarriedCount`. `PeriodsByQuarterBefore` has no such
exception, as the API's description has none, and does not hold (section 6).

`UnboundMinLot` and `MinLot` are the minimum lot of `getQuarterParameters`, with both of its
reasons not to divide, and `SqlMinLot` is the least lot the SQL function accepts.
`MinLotAsReported` relates the two in every quarter: where there are previous auctions
and a denominator the API reports the larger of that lot and the floor, elsewhere the
floor.

Abstracted: amounts are small numbers in one unit, 5 seeds and rank 3 are
constants (`SEED_AUCTIONS`, `MEDIAN_RANK`), the five parameters are one value.
A zero claim is not modelled; the assumptions exclude it. A zero denominator is.

### `Volume`

Extends `AdmittedLists` with payments, price periods and, for each pair and
position, who is credited. `BindingChanged` is what the handlers of bindings may do
to that: decide it from a position of the event's quarter on. That they do no
more is proved of `ServicePairs` (`ClosedQuartersFinal`, `NoPaymentCountsTwice`).
Any auction may open a period; which ones do is `PricePeriods`' matter. The three
sources advance independently.

| Operator | Query |
|---|---|
| `StablecoinPayments`, `FilPayments`, `QuarterlyVolume` | `getQuarterlyVolume`, of one orchestrator or of all |
| `CountsTowardsVolume`, `FilteredEpochs`, `ListedPeriod`, `Listing` | `getPaymentsPaginated` |
| `PagesCount`, `Orders`, `OnPage` | the pages, in an order that is arbitrary within an epoch and anew in each request |

`FloorOfQuotient` is `FLOOR(a / b)` as PostgreSQL computes it: the division rounds to
the nearest when its result is large enough to have no fractional digits
(`EXACT_BELOW`), so `FLOOR` may find a quotient that was rounded up.

### `Service`

The chain, the two actors' logs, the tables written from them, the process, the
cache and one request.

| Action | Code |
|---|---|
| `Admits`, `Posts`, `Lists`, `SetsGate`, `ChecksGate`, `ChainGrows` | external: what the actors emit |
| `IndexSra`, `IndexSwa` | a batch: `getLogs`, `updateDb` with the token lookups, the cursor, in one transaction |
| `Crash`, `Started`, `Boots`, `CleansUp`, `CleanupRejected` | the process, `onApplicationBootstrap`, `cleanupIfNeeded` |
| `AsksNode`, `FillsCache`, `CacheExpires` | `BlockNumberService`, cut where it awaits |
| `AsksQuarters`, `CountsQuarters`, `ReadsQuarter` | `getQuarters` |
| `AsksPosting`, `ReadsForPosting`, `ReadsPostings` | `getServiceOrchestratorsQuarterlyVolumePostings` |
| `AsksGate`, `ReadsParams`, `ReadsChecks` | `calculateGateTarget` |
| `Answered` | the response is sent |

A request keeps what it has read, and batches, events, cache fills and blocks may
come between its reads. One request is followed; others are there by what
they do to the cache. A row is the event it was written from, so the tables can
be compared with the chain. Overlapping runs are not repeated here:
`IndexerRuns!ActorsExactlyOnce` shows that an actor's batches come one after the
other. A batch stops before the head of the chain. `Lookup` lists what may come of
looking up a token, with `ERC20` the truth.

## 4. Runs

| Run | Checks | States |
|---|---|---|
| `pairs` | `TypeOK`, `NoDoubleCredit`, `KeysUnique`, `DefensiveThrowsUnreachable`, `TablesMatchActor`, `ClosedQuartersFrozen`, `EndedRowsKept`, `ImplementsTimeline` | 124 000 |
| `runs_one_contract` | `TypeOK`, `EveryContractOnce`, `NoOverlap`, `RetrySlotFree`, `CatchesUp` | 10 000 |
| `runs_two_contracts` | `NoGaps`, `ActorsExactlyOnce`, `OnlyReadable`, `StatusCovers` | 624 000 |
| `lists_quarters` | `VolumeTypeOK`, `InForceIsBoundaryList`, `SqlAgrees`, `JoinedOnce`, `ParametersAgree`, `CountedOnce`, `SharesAddUp`, `ListingShowsVolume`, `PagesShowEachOnce`, `ClosedVolumesFinal` | 152 000 |
| `periods` | `PeriodsTypeOK`, `PeriodsByRule`, `MinLotAsReported`, `SkippedNeverCount`, `ViewStaysCurrent`, `ClosedPeriodsFinal` | 35 000 |
| `service` | `ServiceTypeOK`, `TablesReplayLog`, `ServedByOwnVersion`, `QuartersTruthful`, `MissedIsRight`, `PostingsAddUp`, `GateTargetAsOf` | 475 000 |
| `pairs_key_collision`, `pairs_cutoff_bypass`, `runs_wedge`, `lists_token_removed`, `periods_carried_count`, `periods_min_lot` | violated, see section 6 | |

`lists_quarters` checks the properties of `AdmittedLists` in `MCVolume`, whose
behaviours include all of that module's; steps that leave the bounds are not taken
(`BoundedSpec`).

**Bounds of `pairs_*`.** Epoch 0 lies before activation (1), and quarters have two
epochs: the first and the last epoch of Q1, and epochs of Q2. With a cutoff of 1
the second epoch of a quarter is in it and the first is not, so both sides of
the boundary occur. Three log indices in an epoch allow a release, a
declaration and a reassignment of the pair in it. Two orchestrators are
enough for competition (a row knows one, an event one more). `ShortHistory`
caps the tables at three rows of a pair, because the properties relate two and
the handlers read the last release. `pairs` takes the behaviours of two kinds: one
pair and one wallet, with a third log index before activation and in the last epoch of
Q1, and up to two admissions (`OnePair`); or two pairs, two wallets and three admissions, with two
log indices per epoch (`TwoPairs`), so that removing an orchestrator ends several
bindings, and with a second cutoff longer than a quarter, which the handler refuses. Deadlock is not checked: the chain
ends at `MaxEpoch`, and a wedged indexer stops.

**Bounds of `runs_*`.** Batches of one and of two blocks on chains of three or
four blocks give first, middle and last batches of both nodes. Two pass
identities are the current pass and one left behind; more would repeat the
second. One or two faults are what it takes to leave a run behind, and to fail
its successor. The contracts are deployed at the first block and the token a
block later; the configurations admit a pay contract after the chain begins,
remove one and admit it again, and create a rail in a block that is read twice.
`runs_two_contracts` is of `MCStatus`: behaviours have faults, or one request of the status
whose reads are spread over them, not both (`BoundedSpec`). Runs of two contracts
interleave without faults too, and what a fault leaves behind is one more run. This is
the run in which a commit is rejected: with one contract none is. In `runs_one_contract`
a pass takes the identity of the one before it if nothing of that is left
(`FairBoundedSpec`); the identities do not differ in anything else.
Deadlock is checked in all of them: the orchestrator never gets stuck, it may
only fail for ever.

**Bounds of `lists_quarters`.** Quarters of one epoch, which the configuration
allows (`EPOCHS_PER_QUARTER` is at least 1): first and last epoch are the same.
Epoch 0 lies before activation, then come two quarters, with up to three
log positions in an epoch. One contract, one token and one address that is no
token suffice, since entries of a list do not meet each other.
Without payments (`ListsOnly`) each table has up to three rows: enough for an
entry to be admitted, removed and admitted again in one quarter. With payments
(`WithPayments`) there are up to three payments and periods together and one
hand-over of the pair while the lists stand still; while they change there are
one payment, one period and one hand-over, as an epoch begins. The one price
divides one payment with a remainder that is rounded down and two with one that is
rounded up.
The properties relate two payments, two periods, a payment and a period, or a
payment and a row. `lists_token_removed` has quarters of two epochs.
Deadlock is not checked in any run on a chain that ends.

**Bounds of `periods*`.** Two epochs before activation, then quarters of two
epochs up to the third: two quarters carry a count on, and one of them may have no
auction. Lots 2 and 3 with two parameter values make the minimum lot, the floor
and the band each decide both ways, and a third value has the denominator 0; one seed, so that three auctions leave
two that are judged, the second by the first. Up to three auctions, fewer
if lists or parameters change after activation, one bound volume, or one burn
that is passed over.

**Bounds of `service`.** One event of every kind would make behaviours too
long for all at once, so a behaviour has one of four themes (`Themes`): volume
postings with their requests; the list of quarters with the cache; the gate with
its requests; or all tables through crashes and the deployment of two versions,
without requests. No property relates a request of one theme to
events of another; the tables and the cursors, which all themes
share, are in the last. Chains of up to six epochs have two quarters and a
posting window of one epoch after them; three events are a posting, its
correction and one of another orchestrator, or parameters and two checks. Two
requests may be asking the node at once, so their answers can swap.

**Fairness** (`FairSpec`). `StartPass` is weakly fair: the cron job calls
`index()` for as long as the process lives. `NextStage` and the steps of each run
are weakly fair: an awaited promise settles. No strong fairness is assumed and no failure
is fair. Faults are bounded, so the liveness properties speak
of what happens after the last one.

**Mutants.** Every property of a passing run is broken by a change to the code's
definitions, kept beside the original (`..._NotFolded`, `..._OldKept`, ...): a
forgotten release, an heir who takes over an old row, a wallet changed in ended
admissions, a cutoff one epoch early, the cursor's block read again, a cursor
set to where the run will end, `isRunning` not looked at, an auction outside of
the band that becomes the anchor, a table without its trigger, a token skipped
because nobody answered, a downgrade not noticed, and so on.

## 5. Proofs

`CommonProofs` has what several components need: the lemmas on division that make
the calendar monotone, numbers given by an order (`Ranks`), and sums. The library's
theorems on induction take the statement as a parameter, which no installed prover
can instantiate. Induction is done with sets instead: a set of numbers that has 0
and with each number the next one has all (`Counting`), and a non-empty set of
subsets of a finite set has a smallest one (`SmallestSet`). With these a recursive
function is shown to have a solution, and facts about it are proved from the index
or the set for which they would first fail. `SumExists` and the lemmas after it are
about the folds of the community modules, which pick the elements of a set in an order
that nothing is known of: the sum does not depend on it.

`ServicePairsProofs` proves, for any calendar, any orchestrators, pairs, wallets
and cutoffs, and any bounds of the chain:

| Theorem | Property |
|---|---|
| `TypeCorrect` | `TypeOK` |
| `NoPaymentCountsTwice` | `NoDoubleCredit` |
| `TablesFollowActor` | `TablesMatchActor` |
| `KeysHold` | `KeysUnique` |
| `ConsistencyChecksHold` | `DefensiveThrowsUnreachable` |
| `HistoryKept` | `EndedRowsKept` |
| `ClosedQuartersFinal` | `ClosedQuartersFrozen` |

`NoDoubleCredit` is not inductive: a row that ended before it began covers no
position, so disjointness of what is covered says nothing about rows written
later. The invariant `IInv` has instead that of two rows of a pair one ended
strictly before the other begins (`RowsSeparated`), that ends lie in the past and
a beginning beyond the next position is the beginning of a quarter
(`RowsInTime`), that keys are unique, and that open rows and the actor's
registry agree. One lemma per handler preserves it.

`TimelineProofs` proves `TablesImplementTimeline`, which is `ImplementsTimeline`: initial
states map to initial states, and each handler to the abstract event or a stutter
(`DeclaredImplements`, `ReassignedImplements`, ...). To `IInv` it adds that rows begin on
the timeline (`RowsOnChain`) and that a row that ended before it began is followed by
the one written with it (`DeadFollowed`): the code begins a declaration after the last
release in the quarter, the abstraction after the last credit, and without the second
fact a dead row would make these differ. `EndedView`, `DeclaredView` and `ReassignedView`
say what a handler's rows make of credits, and mention no timeline.

The attempt corrected the abstraction. It had cut the timeline at the activation, as
if every binding before it began there; a binding reassigned before the activation
begins at its own position, so an heir *with* inherit gets only what follows his event
and not Q1 from its start. The run's bounds have too few events before the
activation to show this.

`IndexerRunsProofs` proves, for any contracts, any rails and admissions, any
batch sizes and any number of passes in flight:

| Theorem | Property |
|---|---|
| `TypeCorrect` | `TypeOK` |
| `CursorTruthful` | `NoGaps` |
| `ActorLogsOnce` | `ActorsExactlyOnce` |
| `IngestedReadable` | `OnlyReadable` |
| `RetrySchedulable` | `RetrySlotFree` |
| `OneContractOnce` | `EveryContractOnce`, with one pay contract and one token |
| `OneContractNoOverlap` | `NoOverlap`, with one pay contract and one token |

Its `IInv` says of every run in flight that all blocks before its batch are
ingested and that its batch is readable (`RunOK`). Both are stable under whatever
other runs commit, because tables only grow and the chain only moves forward.
A contract alone in its stage (`Sole`) has its pass's only run, so the pass cannot end
without it (`StageRuns`): this, and not the `isRunning` flag alone, is why actors' logs
are never written twice. It is the same for a pay contract and a token that are
the only ones (`OneOfEach`), which `runs_wedge` shows to be needed.

The same module has the theorems about `StatusSpec`: `StatusHonest` is `StatusCovers`, for
any order of the reads and any number of batches between them. `StatusProjects` says that
what a request does leaves the runs alone, so their invariants hold beside it, and
`RequestsAgree` (`RequestOK`) what a request knows: the cursors it read are not beyond
what is ingested, which only grows; the contracts it read are rows of the actor; and when
the cursors came first, every contract and token that blocks behind them name
is in the lists read later, because rows are never taken back (`RowsStay`).

`AdmittedListsProofs` proves, for any calendar, contracts, tokens and values and
any number of published lists:

| Theorem | Property |
|---|---|
| `TypeCorrect` | `TypeOK` of `AdmittedLists` |
| `BoundaryListApplies` | `InForceIsBoundaryList` |
| `SqlAndApiAgree` | `SqlAgrees` |
| `PaymentJoinedOnce` | `JoinedOnce` |
| `ParameterQueriesAgree` | `ParametersAgree` |

Its `IInv` has `Table` of both tables: rows lie in the past, end after they begin,
and of two rows of an entry one ended before the other begins. An update then
leaves every quarter up to its own as it was (`UpdatedKeepsQuarters`) and makes
the published list apply in all later ones (`UpdatedAppliesNext`). The SQL rule
loses nothing because two rows of an entry that begin in one quarter cannot both
outlive it (`SqlRule`). For the parameters, each quarter with a row must have a
last one (`LastOfQuarter`), which is kept because rows arrive in order.

`PricePeriodsProofs` and `VolumeProofs` prove, for any calendar, contracts, tokens,
pairs, amounts, lots, claims, prices and bound volumes:

| Theorem | Property |
|---|---|
| `SkippedIsNotMissed` | `SkippedNeverCount` |
| `PeriodsTypeCorrect` | `PeriodsTypeOK` |
| `RuleDecides` | `PeriodsByRule` |
| `PeriodsOfClosedQuarters` | `ClosedPeriodsFinal` |
| `ViewNotStale` | `ViewStaysCurrent` |
| `MinLotReported` | `MinLotAsReported` |
| `VolumeTypeCorrect` | `VolumeTypeOK` |
| `PaymentsCountOnce` | `CountedOnce` |
| `ListingIsTheVolume` | `ListingShowsVolume` |
| `ClosedVolumesKept` | `ClosedVolumesFinal` |
| `VolumesAddUp` | `SharesAddUp` |
| `EachPaymentOnOnePage` | `PagesShowEachOnce` |
| `ListsInComposition` (both) | the properties of `AdmittedLists` among bound volumes, or among bindings, payments and periods |

Both extend the invariant of the lists, whose step lemmas they cite. That a burn
passed over never counts needs that the actor's log had reached its quarter
(`SkippedLate`): rows that came since begin in that quarter or later, and apply in
the next. `MinLotReported` is the lemma that a multiple of `d` reaches `v - (d - 1)` if
and only if the factor reaches `v \div d` (`ProductsAndQuotient`), and that the count the
loop carries is the previous quarter's where that has auctions (`CarriedIsBefore`); its
other cases, a quiet quarter, a count, a volume or a denominator of zero, are in
`MinLotFollows`.

The SQL function is a recursion over the auctions of a quarter inside of one over
the quarters. `FlagsExist` and `LoopsExist` show that both have a solution, and
`FlagsUnfolded` and `LoopsUnfolded` turn them into steps, so that `CHOOSE` no longer occurs.
The ranks of the seeds are an order, since fractions compared by cross
products are one (`FractionOrder`), hence the median exists if there are enough seeds
(`MedianExists`). An auction of a quarter is then decided by the last flagged one before
it, or what the quarter started with (`FlaggedByRule`), and after each round of the loop the
rule holds for all auctions so far, and what is carried on is the count of the last
quarter with auctions and the last period (`RoundStep`, `LoopDone`): this is `RuleDecides`.
That the function reads nothing later is said of two runs of the loop on tables that
are alike up to a quarter (`SameLoops`): later auctions change no number of an earlier one,
and they take a seed's place only when no candidate precedes them (`SeedsStay`), so the
loop has the same rows there, and what follows adds rows of later quarters
(`LoopPrefix`). `ClosedPeriodsFinal` and
`ViewStaysCurrent` follow from what an event may do to the tables up to its quarter:
nothing to lists (`InForceDecided`) and parameters (`ParametersDecided`), and one bound
volume of a quarter before. The refresh that the tokens' trigger makes before the
contracts are written returns the same, because new contracts do not count yet
(`OlderListsSuffice`).

`ClosedVolumesKept` says that an event of a later quarter leaves lists, credits and
the rows that cover a payment of the quarter as they were (`QuarterKept`,
`UpdatedKeepsCover`), so the same payments are summed (`SumsKept`). `VolumesAddUp` needs
in addition that the payments of a quarter are finite, that each is one
orchestrator's, and that sums may be exchanged (`SumsExchange`); in FIL each quotient
is off by less than one. `EachPaymentOnOnePage` counts: the payments before one that is alone in
its epoch are the same in all orders, so its number is, and each number is on one
page. `ListingIsTheVolume` rests on two ways of saying which period
prices a payment: no period between them, and the first one after it
(`ListedWithItsPrice`).

`ServiceProofs` proves, for any calendar, orchestrators, tokens, gates, versions
and volumes, and any number of requests asking the node at once:

| Theorem | Property |
|---|---|
| `TypeCorrect` | `ServiceTypeOK` |
| `LogReplayed` | `TablesReplayLog` |
| `OwnVersionServed` | `ServedByOwnVersion` |
| `QuartersTrue` | `QuartersTruthful` |
| `MissedRight` | `MissedIsRight` |
| `PostingsSum` | `PostingsAddUp` |
| `GateTargetRight` | `GateTargetAsOf` |

The argument is one: what a request remembers is final. Events come at the head of
the chain (`EventsPast`), cursors stay below it (`CursorBelowHead`), so what lies
behind a cursor does not change any more; heights that anybody holds lie in the
past (`HeightsPast`), so a quarter that one of them calls over is over. `IInv`
has these, `TablesReplayLog` and `ServedByOwnVersion`, and for each kind of request
what its rows are (`QuartersOK`, `PostingOK`, `GateOK`): the rows of the chain
that were indexed when it read them, of which those up to `indexed` are complete.
A request ends with its process, so that no upgrade comes between its reads
(`RequestServed`). `PostingsSum` needs that no two postings share a position
(`PostingsApart`), so that each orchestrator's last row is one (`LastRowIsOne`).

The proofs assume `CalendarAssumption`, `ServicePairsAssumption`,
`IndexerRunsAssumption`, `AdmittedListsAssumption`, `PricePeriodsAssumption`,
`VolumeAssumption` and `ServiceAssumption` and nothing else. The last two have that the
orchestrators are finitely many, which sums over them need.

**Only model-checked**: the liveness property `CatchesUp`, whose fairness is about
`ENABLED`, beyond the prover; and the violations, which are single behaviours. Every
invariant and action property of a passing run, and the refinement, is
also proved.

## 6. What the models show to go wrong

* **`pairs_key_collision`.** A binding declared in the cutoff begins at the next
  quarter's start. Reassigned without inherit before that, it is closed and
  keeps its primary key, whereas `removeOrchestrator` and `cancelBinding` delete
  rows that have not begun. When the new binding is canceled too and the pair is
  declared again for the same quarter, the insert meets the dead row and the
  indexer is stuck at that log.
* **`pairs_cutoff_bypass`.** The same reassignment makes the new binding effective
  at once, in the quarter the cutoff was to exclude.
* **`runs_wedge`.** With two pay contracts, one failure suffices for two runs of
  the other contract: the flag is cleared while the run goes on (`NoOverlap`
  holds for one contract only). The left-behind run then commits an old batch and
  moves the cursor back below blocks whose rails exist. From then on the batch
  after the cursor violates the rails' key in every pass, and the stage after it,
  the tokens, is never reached.
* **`lists_token_removed`.** The quarter's list keeps a token to the end of its
  removal quarter, but the volume joins each payment with a row that covers it:
  payments after the removal are dropped, against the rule that a removal applies
  from the next quarter.
* **`periods_min_lot`.** Once a volume is bound and the quarter before has periods,
  the SQL function compares a lot with the quotient alone, which may be below the
  floor; the API reports the larger of the two as the minimum lot.
* **`periods_carried_count`.** The loop of the SQL function has no round for a quarter
  without auctions, so the variable for the number of periods of the previous quarter
  still holds that of an older one, and the next auctions are judged by it. The API
  describes the number as the previous quarter's (`src/src/lib/schemas.ts:249-251`),
  counts 0 there and reports the floor as the minimum lot. `PeriodsByRule` states what the
  function does, `MinLotAsReported` what the API reports beside it.

Two more disagreements have no run of their own; the properties are stated around them:

* **The status.** `src/src/lib/schemas.ts:145-148` calls the epoch the lowest one "any of the
  indexed contract is indexed to". It leaves out removed contracts that are indexed to their
  removal, and the three queries may disagree: the list of contracts is read while it is
  empty, both actors commit a block that admits a contract, then the cursors are read. The
  answer is that block, and the contract is not indexed at all. Dropping `statesFirst` from
  `StatusCovers` makes TLC find this. The next request is right again unless it is torn
  as well.
* **The listing.** For contracts the volume follows the quarter's list and the listing the
  rows at the payment: after a removal in mid-quarter the listing says that payments do
  not count which do. Its flags `filecoinPayContractWhitelisted` and `tokenWhitelisted`
  are described as "whitelisted in the quarter the payment was made in"
  (`src/src/lib/schemas.ts:600-607`) and are about the payment's position
  (`CoveredAt`). `ListingShowsVolume` compares the two for payments the lists did not change
  around (`Undisturbed`), so it does not speak of this case.

Other things to know, about which the repository promises nothing else:

* With a zero denominator the API reports the floor, while the SQL function accepts no auction
  once a volume is bound and the count is not zero (`MinLotAsReported` has both).
* A contract counts to the end of its removal quarter and is indexed to its removal
  only; payments in between are in the volume as far as the last batch held them.
* An upgrade to another major version cannot boot once an orchestrator was admitted:
  `cleanupIfNeeded` deletes `service_orchestrator` rows that admissions refer to
  (`CleanupRejected`). The data stay intact; the process never starts.
* Burns ahead of the actor's log are lost if their contract was admitted at the
  end of the quarter before (see `SkippedNeverCount`).
* A binding that was reassigned before the activation is older than Q1 for
  `reassignBinding`, unlike one that was declared then: who is given it in Q1 *with*
  inherit does not get what it earned since the activation.
* Pages are sorted by epoch only, so payments of one epoch may be shown twice or
  not at all; `PagesShowEachOnce` is about the others.
* The volume in FIL of a period may be one unit above the floor
  (`src/src/lib/schemas.ts` says "floored"): numeric division rounds first.
* Without an admitted stablecoin the volume in FIL is reported as zero.
* The first price period of each quarter is reported to begin at the activation.
* The gate's number of steps is the constant 8; `steps` of `GateParamsSet` is
  stored and never read.
* While the actor is not indexed up to the deadline, an orchestrator that posted in
  time may be shown as having missed it (`MissedIsRight` has the condition).

## 7. Not modelled

* REST controllers, schemas, ABIs and wiring: routing, validation, formatting and
  constant data, without state. They are more than half of the TypeScript lines.
* `ServiceOrchestratorService`: listings of the tables of `ServicePairs`, grouped
  and formatted.
* Token decimals and the conversion of amounts for display, the caches of the
  remote lookups (what they keep does not change), the decoding of call data.
* Reorganisations: with `FINALIZED_HEIGHT_MAX_DIFFERENCE` set the indexer reads blocks
  that may be replaced, and has no code for that; `OnlyReadable` says which.
* The errors of `getQuarterParameters` (`src/src/services/quarters.service.ts:287-387`) when a
  parameter of the quarter is missing. `getQuarterlyVolume` awaits it and answers nothing then;
  `Volume` computes what it would answer, so its properties also cover such quarters.
  `MinLotAsReported` is about quarters that have parameters.
* Two processes on one database, which `src/README.md` forbids.
* Widths of integers: the columns are `NUMERIC`, `BIGINT` for epochs.
