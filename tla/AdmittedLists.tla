---------------------------- MODULE AdmittedLists ----------------------------
(***************************************************************************)
(* What applies in a quarter: the Filecoin Pay contracts and stablecoins   *)
(* the Service Rewards Actor admits, and its pricing parameters.           *)
(*                                                                         *)
(* The actor publishes whole lists.  The indexer keeps them as rows with a *)
(* validity (updatedAdmittedLists, updatePricingParams), and three places  *)
(* read them back, each with a query of its own: QuartersService, the SQL  *)
(* function of the price periods, and createBinding.                       *)
(*                                                                         *)
(* All five pricing parameters arrive in one event, so one value stands    *)
(* for them.                                                               *)
(***************************************************************************)
EXTENDS ChainTime

CONSTANTS
  PayContracts,   (* addresses of Filecoin Pay contracts                   *)
  Stablecoins,    (* addresses the actor may list as stablecoins           *)
  NotERC20,       (* the stablecoins without metadata                      *)
  Values,         (* values of the pricing parameters                      *)
  None,           (* SQL NULL                                              *)
  MaxEpoch,       (* bound: the last epoch with an event                   *)
  MaxLog          (* bound: the last log index of an event in an epoch     *)

ASSUME AdmittedListsAssumption ==
  /\ NotERC20 \subseteq Stablecoins
  /\ None \notin Position
  /\ MaxEpoch \in Nat
  /\ MaxLog \in Nat

VARIABLES
  contracts,   (* rows of filecoin_pay_contract                            *)
  tokens,      (* rows of whitelisted_token                                *)
  parameters,  (* rows of service_rewards_actor_parameter                  *)
  pos,         (* position of the last log the handlers saw                *)
  boundary     (* external: the actor's lists as a quarter begins, if no   *)
               (* event follows before it                                  *)

vars == <<contracts, tokens, parameters, pos, boundary>>

RowOf(S) == [entry : S, from : Position, to : Position \cup {None}]

EventPosition == [epoch : 0 .. MaxEpoch, log : 0 .. MaxLog]

(* Quarters that have an event or begin after the last one.                *)
Quarters == 1 .. QuarterOf(MaxEpoch) + 1

Lists == [contracts : SUBSET PayContracts, tokens : SUBSET Stablecoins]

InOrder(rows) == \A r \in rows : r.to # None => Before(r.from, r.to)

TypeOK ==
  /\ contracts \subseteq RowOf(PayContracts) /\ InOrder(contracts)
  /\ tokens \subseteq RowOf(Stablecoins \ NotERC20) /\ InOrder(tokens)
  /\ parameters \subseteq [value : Values, at : Position]
  /\ pos \in Position
  /\ boundary \in [Quarters -> Lists]

-----------------------------------------------------------------------------
(* Writing the rows.                                                       *)

Open(rows) == {r \in rows : r.to = None}

Entries(rows) == {r.entry : r \in rows}

Row(e, p) == [entry |-> e, from |-> p, to |-> None]

Closed(rows, p) == {[r EXCEPT !.to = p] : r \in rows}

(* Mutants: what left the list is deleted; every row of an entry that left *)
(* is closed, closed ones again; new rows are closed with the old ones.    *)
Updated_Deleted(rows, list, p) ==
  LET removed == {r \in Open(rows) : r.entry \notin list}
      added   == list \ Entries(Open(rows))
  IN  (rows \ removed) \cup {Row(e, p) : e \in added}

Updated_ClosedAgain(rows, list, p) ==
  LET removed == {r \in rows : r.entry \notin list}
      added   == list \ Entries(Open(rows))
  IN  (rows \ removed) \cup Closed(removed, p) \cup {Row(e, p) : e \in added}

Updated_NewClosed(rows, list, p) ==
  LET removed == {r \in Open(rows) : r.entry \notin list}
      added   == list \ Entries(Open(rows))
  IN  (rows \ removed) \cup Closed(removed, p) \cup Closed({Row(e, p) : e \in added}, p)

(* The rows after the actor published "list" at p: rows of entries no      *)
(* longer on it are closed, entries without an open row get one.           *)
Updated(rows, list, p) ==
  LET removed == {r \in Open(rows) : r.entry \notin list}
      added   == list \ Entries(Open(rows))
  IN  (rows \ removed) \cup Closed(removed, p) \cup {Row(e, p) : e \in added}

AdmittedListsUpdated(cs, ts, p) ==
  /\ contracts' = Updated(contracts, cs, p)
  /\ tokens' = Updated(tokens, ts \ NotERC20, p)
  /\ boundary' = [q \in Quarters |->
                    IF q > QuarterOf(p.epoch)
                    THEN [contracts |-> cs, tokens |-> ts]
                    ELSE boundary[q]]
  /\ pos' = p
  /\ UNCHANGED parameters

PricingParamsUpdated(v, p) ==
  /\ parameters' = parameters \cup {[value |-> v, at |-> p]}
  /\ pos' = p
  /\ UNCHANGED <<contracts, tokens, boundary>>

Init ==
  /\ contracts = {}
  /\ tokens = {}
  /\ parameters = {}
  /\ pos = At(0, 0)
  /\ boundary = [q \in Quarters |-> [contracts |-> {}, tokens |-> {}]]

Next ==
  \E p \in EventPosition :
    /\ Before(pos, p)
    /\ \/ \E cs \in SUBSET PayContracts, ts \in SUBSET Stablecoins :
            AdmittedListsUpdated(cs, ts, p)
       \/ \E v \in Values : PricingParamsUpdated(v, p)

Spec == Init /\ [][Next]_vars

-----------------------------------------------------------------------------
(* Reading the rows.                                                       *)

(* Mutant: an entry is dropped in the quarter of its removal already.      *)
AppliesIn_NotInRemovalQuarter(r, q) ==
  /\ QuarterOf(r.from.epoch) < q
  /\ r.to = None \/ QuarterOf(r.to.epoch) > q

(* A row counts from the quarter after its admittance to the quarter of    *)
(* its removal.                                                            *)
AppliesIn(r, q) ==
  /\ QuarterOf(r.from.epoch) < q
  /\ r.to = None \/ QuarterOf(r.to.epoch) >= q

(* QuartersService: any row that applies.                                  *)
InForce(rows, q) == Entries({r \in rows : AppliesIn(r, q)})

(* The SQL function: of the rows an entry was admitted with in one quarter *)
(* the last that outlived the quarter.                                     *)
Lasting(rows) ==
  {r \in rows : r.to = None \/ QuarterOf(r.to.epoch) > QuarterOf(r.from.epoch)}

(* Mutant: the last row of a quarter is taken whether it lasted or not,    *)
(* and the order is ascending.                                             *)
SqlRows_FirstOfQuarter(rows) ==
  {r \in rows :
     \A s \in rows :
       s.entry = r.entry /\ QuarterOf(s.from.epoch) = QuarterOf(r.from.epoch)
         => AtOrBefore(r.from, s.from)}

SqlRows(rows) ==
  {r \in Lasting(rows) :
     \A s \in Lasting(rows) :
       s.entry = r.entry /\ QuarterOf(s.from.epoch) = QuarterOf(r.from.epoch)
         => AtOrBefore(s.from, r.from)}

SqlInForce(rows, q) == Entries({r \in SqlRows(rows) : AppliesIn(r, q)})

(* The validity at a position, as the volume of stablecoins and the        *)
(* payments listing read it.                                               *)
Covers(r, x) ==
  /\ AtOrBefore(r.from, x)
  /\ r.to = None \/ AtOrBefore(x, r.to)

CoveredAt(rows, x) == Entries({r \in rows : Covers(r, x)})

(* Parameters: QuartersService takes the last row of all earlier quarters, *)
(* the SQL function the last row of the last earlier quarter that has one, *)
(* createBinding the last row before the quarter's first epoch.            *)
LastOf(S) == {c \in S : \A d \in S : AtOrBefore(d.at, c.at)}

Earlier(q) == {c \in parameters : QuarterOf(c.at.epoch) < q}

ApiParameter(q) == LastOf(Earlier(q))

SqlParameter(q) ==
  LET perQuarter == {c \in parameters :
                       \A d \in parameters :
                         QuarterOf(d.at.epoch) = QuarterOf(c.at.epoch)
                           => AtOrBefore(d.at, c.at)}
      earlier == {c \in perQuarter : QuarterOf(c.at.epoch) < q}
  IN  {c \in earlier : \A d \in earlier : QuarterOf(d.at.epoch) <= QuarterOf(c.at.epoch)}

(* Mutant: a parameter set in the quarter's first epoch counts.            *)
BindingParameter_FirstEpoch(q) ==
  LastOf({c \in parameters : c.at.epoch <= QuarterStart(q)})

BindingParameter(q) ==
  LastOf({c \in parameters : c.at.epoch < QuarterStart(q)})

-----------------------------------------------------------------------------

(* Whatever was admitted, removed and admitted again, what QuartersService *)
(* says applies in a quarter is the actor's list as the quarter began, for *)
(* past, present and coming quarters.                                      *)
InForceIsBoundaryList ==
  \A q \in Quarters :
    /\ InForce(contracts, q) = boundary[q].contracts
    /\ InForce(tokens, q) = boundary[q].tokens \ NotERC20

(* The price periods are computed with the lists the API reports, although *)
(* the SQL function picks its rows by another rule.                        *)
SqlAgrees ==
  \A q \in Quarters :
    /\ SqlInForce(contracts, q) = InForce(contracts, q)
    /\ SqlInForce(tokens, q) = InForce(tokens, q)

(* The three queries for the parameter of a quarter find the same row.     *)
ParametersAgree ==
  \A q \in Quarters :
    /\ ApiParameter(q) = SqlParameter(q)
    /\ ApiParameter(q) = BindingParameter(q)

(* A stablecoin payment is joined with one row of its token at most: the   *)
(* sum never counts it twice, also at the log that removes or admits it.   *)
JoinedOnce ==
  \A r, s \in tokens :
    r.entry = s.entry /\ r # s =>
      \A x \in {r.from, s.from} : ~(Covers(r, x) /\ Covers(s, x))

(* A stablecoin payment counts if its token applies in the quarter and has *)
(* a row at the position of the payment.                                   *)
StablecoinCounts(t, x) ==
  t \in InForce(tokens, QuarterOf(x.epoch)) /\ t \in CoveredAt(tokens, x)

(* Payments of the quarters so far, at the positions events have.          *)
Settled == {x \in EventPosition : QuarterOf(x.epoch) >= 1 /\ AtOrBefore(x, pos)}

(* Removing a token from the list has no effect on the quarter under way:  *)
(* its payments count to the quarter's end.                                *)
RemovalFromNextQuarter ==
  \A x \in Settled : \A t \in InForce(tokens, QuarterOf(x.epoch)) :
    StablecoinCounts(t, x)
=============================================================================
