------------------------------- MODULE Status -------------------------------
(***************************************************************************)
(* GET /status (IndexerOrchestratorService.getStatus) beside the runs of   *)
(* IndexerRuns.  A request sends three queries at once, each on its own    *)
(* connection and outside of any transaction: the cursors, the pay         *)
(* contracts with their removals, and the tokens of the rails.  They read  *)
(* in any order, and runs write batches in between.                        *)
(***************************************************************************)
EXTENDS IndexerRuns

VARIABLE
  request    (* what the queries of a request have read                     *)

Queries == {"states", "contracts", "tokens"}

Listing == [contract : PayContracts, removal : Nat \cup {None}]

(* statesFirst is a history variable: the cursors were read before either  *)
(* list.                                                                   *)
Unread ==
  [done |-> {}, statesFirst |-> FALSE, states |-> [c \in Contracts |-> None],
   contracts |-> {}, tokens |-> {}]

StatusTypeOK ==
  request \in [done : SUBSET Queries, statesFirst : BOOLEAN,
               states : [Contracts -> Nat \cup {None}],
               contracts : SUBSET Listing, tokens : SUBSET Tokens]

statusVars == <<vars, request>>

-----------------------------------------------------------------------------
(* The three queries.                                                      *)

ReadStates ==
  /\ "states" \notin request.done
  /\ request' = [request EXCEPT !.done = @ \cup {"states"},
                                !.statesFirst = (request.done = {}),
                                !.states = cursor]
  /\ UNCHANGED vars

ReadContracts ==
  /\ "contracts" \notin request.done
  /\ request' = [request EXCEPT
                   !.done = @ \cup {"contracts"},
                   !.contracts = {[contract |-> c, removal |-> RemovalOf(c)] :
                                    c \in ListedPay}]
  /\ UNCHANGED vars

ReadTokens ==
  /\ "tokens" \notin request.done
  /\ request' = [request EXCEPT !.done = @ \cup {"tokens"}, !.tokens = ListedTokens]
  /\ UNCHANGED vars

(* The request is answered and the next one begins.                        *)
NextRequest ==
  /\ request.done = Queries
  /\ request' = Unread
  /\ UNCHANGED vars

StatusInit == Init /\ request = Unread

(* A restart ends the request as well.                                     *)
StatusNext ==
  \/ Works /\ UNCHANGED request
  \/ Restart /\ request' = Unread
  \/ ReadStates
  \/ ReadContracts
  \/ ReadTokens
  \/ NextRequest

StatusSpec == StatusInit /\ [][StatusNext]_statusVars

-----------------------------------------------------------------------------
(* The answer, of what was read.                                           *)

Listed == {l.contract : l \in request.contracts}

(* How far a contract is indexed; one that is listed and has no cursor is, *)
(* to before its deployment.                                               *)
IndexedUpTo(c) ==
  IF request.states[c] = None THEN Deployed[c] - 1 ELSE request.states[c]

RemovedAndSynced(c) ==
  \E l \in request.contracts :
    l.contract = c /\ l.removal # None /\ IndexedUpTo(c) >= l.removal

(* Mutant: the tokens of the rails are forgotten.                          *)
StatusOf_NoTokens == {c \in Actors \cup Listed : ~RemovedAndSynced(c)}

(* The contracts the minimum is taken of.                                  *)
StatusOf == {c \in Actors \cup Listed \cup request.tokens : ~RemovedAndSynced(c)}

(* indexedUpTo of the whole: e is not beyond the lowest of its contracts.  *)
UpTo(e) == \A c \in StatusOf : e <= IndexedUpTo(c)

Answered == request.done = Queries

-----------------------------------------------------------------------------

IngestedTo(c, e) == Deployed[c] .. e \subseteq ingested[c]

(* Nothing up to e is missing, whoever has read what: neither of a pay     *)
(* contract admitted by then (up to its removal), nor of a token whose     *)
(* rail such a contract created by then.                                   *)
Complete(e) ==
  \A r \in {s \in PayRows : s.admitted <= e} :
    LET owed == {b \in Deployed[r.contract] .. e : r.removed = None \/ b <= r.removed}
    IN  /\ owed \subseteq ingested[r.contract]
        /\ \A s \in RailsAt :
             s.contract = r.contract /\ s.block \in owed /\ s.token # None
               => IngestedTo(s.token, e)

(* What GET /status promises (getStatus).  Up to the epoch it reports,     *)
(* nothing is missing of the actors, of the pay contracts it lists (up to  *)
(* the removal it lists) and of the tokens it lists, although each query   *)
(* sees the tables at a moment of its own.  If the cursors were read       *)
(* before both lists, nothing at all is missing: a removed contract no     *)
(* longer counts and a token only counts once its rail is in the tables,   *)
(* but whatever the cursors cover is in lists read later.  Read after a    *)
(* list, the cursors may be ahead of it, and the epoch can lack the rows   *)
(* of a contract or token the list did not have yet.                       *)
StatusCovers ==
  Answered =>
    \A e \in Blocks : UpTo(e) =>
      /\ \A c \in Actors \cup request.tokens : IngestedTo(c, e)
      /\ \A l \in request.contracts :
           \A b \in Deployed[l.contract] .. e :
             l.removal = None \/ b <= l.removal => b \in ingested[l.contract]
      /\ request.statesFirst => Complete(e)
=============================================================================
