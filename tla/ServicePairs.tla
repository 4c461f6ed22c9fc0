----------------------------- MODULE ServicePairs -----------------------------
(***************************************************************************)
(* The part of ServiceRewardsActorIndexer that decides WHO is credited for *)
(* a payment: the tables service_orchestrator_admission, service_pair and  *)
(* the REGISTRATION_CUTOFF rows of service_rewards_actor_parameter, and    *)
(* the handlers of the events that write them.                             *)
(*                                                                         *)
(* The Service Rewards Actor itself is external.  Its own state (orchWallet *)
(* and owner) is kept here as it is at the last indexed log, and an event  *)
(* is possible only when the actor could emit it: a pair is declared when  *)
(* unbound, reassigned to another orchestrator or canceled when bound, an  *)
(* orchestrator is admitted once until it is removed, and its removal      *)
(* frees its pairs.                                                        *)
(*                                                                         *)
(* One action is one log handled inside the transaction of the batch.  A   *)
(* handler that throws, or a row that breaks a key, rolls the transaction  *)
(* back and the next run meets the same log again: the indexer is wedged.  *)
(***************************************************************************)
EXTENDS ChainTime

CONSTANTS
  Orchestrators,  (* addresses of service orchestrators                    *)
  Wallets,        (* wallet addresses                                      *)
  Pairs,          (* (payer, operator) pairs                               *)
  Cutoffs,        (* values the actor may give REGISTRATION_CUTOFF         *)
  None,           (* SQL NULL, and "nobody" in the actor's state           *)
  MaxEpoch,       (* bound: the last epoch with an event                   *)
  MaxLog          (* bound: the last log index of an event in an epoch     *)

ASSUME ServicePairsAssumption ==
  /\ Cutoffs \subseteq Nat
  /\ MaxEpoch \in Nat
  /\ MaxLog \in Nat
  /\ None \notin Orchestrators
  /\ None \notin Wallets
  /\ None \notin Position

VARIABLES
  service_pair,  (* rows of the table; PK is pair and from                 *)
  admission,     (* rows of service_orchestrator_admission                 *)
  cutoff,        (* REGISTRATION_CUTOFF rows: value and update position    *)
  pos,           (* position of the last log the handlers saw              *)
  wedged,        (* why the transaction rolls back, or "no"                *)
  orchWallet,    (* external: wallet of an admitted orchestrator, or None  *)
  owner          (* external: orchestrator a pair is bound to, or None     *)

tables == <<service_pair, admission, cutoff>>
actor  == <<orchWallet, owner>>
vars   == <<service_pair, admission, cutoff, pos, wedged, orchWallet, owner>>

PairRow ==
  [orch : Orchestrators, pair : Pairs, from : Position,
   to : Position \cup {None}]

AdmissionRow ==
  [orch : Orchestrators, wallet : Wallets, from : Position,
   to : Position \cup {None}]

CutoffRow == [value : Cutoffs, at : Position]

Errors == {"already_bound", "future_release", "no_cutoff", "cutoff_too_long",
           "duplicate_key"}

EventPosition == [epoch : 0 .. MaxEpoch, log : 0 .. MaxLog]

TypeOK ==
  /\ service_pair \subseteq PairRow
  /\ admission \subseteq AdmissionRow
  /\ cutoff \subseteq CutoffRow
  /\ pos \in Position
  /\ wedged \in Errors \cup {"no"}
  /\ orchWallet \in [Orchestrators -> Wallets \cup {None}]
  /\ owner \in [Pairs -> Orchestrators \cup {None}]

-----------------------------------------------------------------------------
(* Reading the tables.                                                     *)

Active(rows) == {r \in rows : r.to = None}

OfPair(pr) == {r \in service_pair : r.pair = pr}

ActiveOf(pr) == {r \in Active(service_pair) : r.pair = pr}

Releases(pr) == {r.to : r \in {s \in OfPair(pr) : s.to # None}}

(* ORDER BY to_epoch DESC, to_log_index DESC LIMIT 1: no or one position.  *)
PreviousRelease(pr) ==
  {x \in Releases(pr) : \A y \in Releases(pr) : AtOrBefore(y, x)}

(* The last REGISTRATION_CUTOFF set before the quarter of p began.         *)
CutoffInForce(p) ==
  LET known == {c \in cutoff :
                  c.at.epoch < QuarterStart(EffectiveQuarter(p.epoch))}
  IN  {c \in known : \A d \in known : AtOrBefore(d.at, c.at)}

(* Mutant: the cutoff begins an epoch early.                               *)
InCutoff_OneEarly(p) ==
  /\ QuarterOf(p.epoch) >= 1
  /\ \E c \in CutoffInForce(p) : p.epoch >= QuarterEnd(QuarterOf(p.epoch)) - c.value

(* A binding declared at p comes too late for the quarter of p.            *)
InCutoff(p) ==
  /\ QuarterOf(p.epoch) >= 1
  /\ \E c \in CutoffInForce(p) :
       p.epoch >= QuarterEnd(QuarterOf(p.epoch)) - c.value + 1

(* Mutant: a release earlier in the quarter is forgotten.                  *)
DeclaredFrom_ReleaseForgotten(pr, p) ==
  LET q == EffectiveQuarter(p.epoch)
  IN  {IF InCutoff(p) THEN At(QuarterEnd(q) + 1, 0) ELSE At(QuarterStart(q), 0)}

(* Where a binding declared at p begins: the next quarter, the beginning   *)
(* of this one, or right after this quarter's last release of the pair.    *)
DeclaredFrom(pr, p) ==
  LET q     == EffectiveQuarter(p.epoch)
      start == At(QuarterStart(q), 0)
  IN  IF InCutoff(p)
      THEN {At(QuarterEnd(q) + 1, 0)}
      ELSE IF Releases(pr) = {}
      THEN {start}
      ELSE {IF QuarterOf(x.epoch) # QuarterOf(p.epoch) THEN start ELSE NextLog(x)
              : x \in PreviousRelease(pr)}

FreshKey(pr, from) == \A r \in OfPair(pr) : r.from # from

(* What makes handling BindingDeclared at p throw, in the code's order.    *)
BindingError(pr, p) ==
  CASE ActiveOf(pr) # {} -> "already_bound"
    [] \E x \in Releases(pr) : AtOrBefore(p, x) -> "future_release"
    [] QuarterOf(p.epoch) >= 1 /\ CutoffInForce(p) = {} -> "no_cutoff"
    [] /\ QuarterOf(p.epoch) >= 1
       /\ \E c \in CutoffInForce(p) : c.value > EPOCHS_PER_QUARTER
         -> "cutoff_too_long"
    [] \E from \in DeclaredFrom(pr, p) : ~FreshKey(pr, from) -> "duplicate_key"
    [] OTHER -> "no"

-----------------------------------------------------------------------------
(* Writing the tables.                                                     *)

Bind(o, pr, from) == [orch |-> o, pair |-> pr, from |-> from, to |-> None]

(* Close the rows at p.                                                    *)
Unbind(rows, p) == {[r EXCEPT !.to = p] : r \in rows}

NotStarted(rows, p) == {r \in rows : Before(p, r.from)}

(* Mutant: rows are only deleted, never closed.                            *)
EndBindings_NoRelease(rows, p) == service_pair \ NotStarted(rows, p)

(* The table after the active rows in "rows" end at p: a row whose period  *)
(* has not begun is deleted, any other is closed.                          *)
EndBindings(rows, p) ==
  (service_pair \ rows) \cup Unbind(rows \ NotStarted(rows, p), p)

(* Mutants: the old binding stays open; an heir takes all of it, whenever  *)
(* it began; the heir of an old binding is not registered.                 *)
Reassigned_OldKept(o, pr, p, inherit) ==
  service_pair \cup {Bind(o, pr, NextLog(p))}

Reassigned_AllInherited(o, pr, p, inherit) ==
  IF inherit
  THEN (service_pair \ ActiveOf(pr)) \cup {[r EXCEPT !.orch = o] : r \in ActiveOf(pr)}
  ELSE (service_pair \ ActiveOf(pr)) \cup Unbind(ActiveOf(pr), p)
         \cup {Bind(o, pr, NextLog(p))}

Reassigned_HeirForgotten(o, pr, p, inherit) ==
  LET start   == QuarterStart(EffectiveQuarter(p.epoch))
      recent  == {r \in ActiveOf(pr) : r.from.epoch >= start}
  IN  IF inherit
      THEN (service_pair \ ActiveOf(pr))
             \cup {[r EXCEPT !.orch = o] : r \in recent}
             \cup Unbind(ActiveOf(pr) \ recent, p)
      ELSE (service_pair \ ActiveOf(pr)) \cup Unbind(ActiveOf(pr), p)
             \cup {Bind(o, pr, NextLog(p))}

(* The binding of pr passes to o: from p on, or with all the credit the    *)
(* binding has in the quarter of p when o inherits.                        *)
Reassigned(o, pr, p, inherit) ==
  LET start   == QuarterStart(EffectiveQuarter(p.epoch))
      recent  == {r \in ActiveOf(pr) : r.from.epoch >= start}
  IN  IF inherit /\ recent # {}
      THEN (service_pair \ recent) \cup {[r EXCEPT !.orch = o] : r \in recent}
      ELSE (service_pair \ ActiveOf(pr))
             \cup Unbind(ActiveOf(pr), p)
             \cup {Bind(o, pr, NextLog(p))}

-----------------------------------------------------------------------------
(* One action per event of the Service Rewards Actor.                      *)

Admitted(o) == orchWallet[o] # None

OrchestratorAdmitted(o, w, p) ==
  /\ ~Admitted(o)
  /\ orchWallet' = [orchWallet EXCEPT ![o] = w]
  /\ admission' = admission \cup {[orch |-> o, wallet |-> w, from |-> p, to |-> None]}
  /\ pos' = p
  /\ UNCHANGED <<service_pair, cutoff, wedged, owner>>

OrchestratorRemoved(o, p) ==
  /\ Admitted(o)
  /\ orchWallet' = [orchWallet EXCEPT ![o] = None]
  /\ owner' = [pr \in Pairs |-> IF owner[pr] = o THEN None ELSE owner[pr]]
  /\ LET current == {a \in Active(admission) : a.orch = o}
     IN  admission' = (admission \ current) \cup Unbind(current, p)
  /\ service_pair' = EndBindings({r \in Active(service_pair) : r.orch = o}, p)
  /\ pos' = p
  /\ UNCHANGED <<cutoff, wedged>>

(* Mutant: the wallet of every admission changes, also of ended ones.      *)
OrchestratorWalletReplaced_EveryAdmission(o, w, p) ==
  /\ Admitted(o)
  /\ orchWallet' = [orchWallet EXCEPT ![o] = w]
  /\ admission' = {IF a.orch = o THEN [a EXCEPT !.wallet = w] ELSE a : a \in admission}
  /\ pos' = p
  /\ UNCHANGED <<service_pair, cutoff, wedged, owner>>

OrchestratorWalletReplaced(o, w, p) ==
  /\ Admitted(o)
  /\ orchWallet' = [orchWallet EXCEPT ![o] = w]
  /\ LET current == {a \in Active(admission) : a.orch = o}
     IN  admission' = (admission \ current)
                        \cup {[a EXCEPT !.wallet = w] : a \in current}
  /\ pos' = p
  /\ UNCHANGED <<service_pair, cutoff, wedged, owner>>

PricingParamsUpdated(c, p) ==
  /\ cutoff' = cutoff \cup {[value |-> c, at |-> p]}
  /\ pos' = p
  /\ UNCHANGED <<service_pair, admission, wedged, actor>>

BindingDeclared(o, pr, p) ==
  /\ Admitted(o)
  /\ owner[pr] = None
  /\ BindingError(pr, p) = "no"
  /\ owner' = [owner EXCEPT ![pr] = o]
  /\ \E from \in DeclaredFrom(pr, p) :
       service_pair' = service_pair \cup {Bind(o, pr, from)}
  /\ pos' = p
  /\ UNCHANGED <<admission, cutoff, wedged, orchWallet>>

BindingReassigned(o, pr, p, inherit) ==
  /\ Admitted(o)
  /\ owner[pr] \notin {None, o}
  /\ owner' = [owner EXCEPT ![pr] = o]
  /\ service_pair' = Reassigned(o, pr, p, inherit)
  /\ pos' = p
  /\ UNCHANGED <<admission, cutoff, wedged, orchWallet>>

BindingCanceled(pr, p) ==
  /\ owner[pr] # None
  /\ owner' = [owner EXCEPT ![pr] = None]
  /\ service_pair' = EndBindings({r \in ActiveOf(pr) : r.orch = owner[pr]}, p)
  /\ pos' = p
  /\ UNCHANGED <<admission, cutoff, wedged, orchWallet>>

(* A declaration the handler cannot process: nothing is written, and every *)
(* later run meets it again.                                               *)
BindingRejected(o, pr, p) ==
  /\ Admitted(o)
  /\ owner[pr] = None
  /\ BindingError(pr, p) # "no"
  /\ wedged' = BindingError(pr, p)
  /\ pos' = p
  /\ UNCHANGED <<tables, actor>>

-----------------------------------------------------------------------------

Init ==
  /\ service_pair = {}
  /\ admission = {}
  /\ cutoff = {}
  /\ pos = At(0, 0)
  /\ wedged = "no"
  /\ orchWallet = [o \in Orchestrators |-> None]
  /\ owner = [pr \in Pairs |-> None]

Event(p) ==
  \/ \E o \in Orchestrators, w \in Wallets :
       OrchestratorAdmitted(o, w, p) \/ OrchestratorWalletReplaced(o, w, p)
  \/ \E o \in Orchestrators : OrchestratorRemoved(o, p)
  \/ \E c \in Cutoffs : PricingParamsUpdated(c, p)
  \/ \E o \in Orchestrators, pr \in Pairs :
       BindingDeclared(o, pr, p) \/ BindingRejected(o, pr, p)
  \/ \E o \in Orchestrators, pr \in Pairs, inherit \in BOOLEAN :
       BindingReassigned(o, pr, p, inherit)
  \/ \E pr \in Pairs : BindingCanceled(pr, p)

(* sortLogs hands the logs to the handlers in chain order.                 *)
Next ==
  /\ wedged = "no"
  /\ \E p \in EventPosition : Before(pos, p) /\ Event(p)

Spec == Init /\ [][Next]_vars
-----------------------------------------------------------------------------
(* What the volume queries read from service_pair: the orchestrators a     *)
(* payment of pair pr at position x counts for.                            *)

Covers(r, x) ==
  /\ AtOrBefore(r.from, x)
  /\ r.to = None \/ AtOrBefore(x, r.to)

CreditedTo(pr, x) == {r.orch : r \in {s \in OfPair(pr) : Covers(s, x)}}

(* A payment is never credited twice: no position lies in two rows of one  *)
(* pair, whatever mixture of releases, late declarations, reassignments    *)
(* and removals wrote them.  Two intervals overlap iff one of them begins  *)
(* inside both.                                                            *)
NoDoubleCredit ==
  \A r, s \in service_pair :
    r # s /\ r.pair = s.pair =>
      \A x \in {r.from, s.from} : ~(Covers(r, x) /\ Covers(s, x))

(* The open rows are exactly the bindings of the actor, and the open       *)
(* admissions its orchestrators with their current wallets: closing,       *)
(* deleting, updating in place and inserting never leave a stale or a      *)
(* missing row.                                                            *)
TablesMatchActor ==
  /\ {<<r.pair, r.orch>> : r \in Active(service_pair)} =
       {<<pr, owner[pr]>> : pr \in {q \in Pairs : owner[q] # None}}
  /\ {<<a.orch, a.wallet>> : a \in Active(admission)} =
       {<<o, orchWallet[o]>> : o \in {q \in Orchestrators : Admitted(q)}}

(* The tables' unique keys: one open row per pair, one open admission per  *)
(* orchestrator, and the primary key of service_pair.                      *)
KeysUnique ==
  /\ \A r, s \in service_pair :
       r.pair = s.pair /\ (r.from = s.from \/ (r.to = None /\ s.to = None)) => r = s
  /\ \A a, b \in Active(admission) : a.orch = b.orch => a = b

(* The two consistency checks createBinding makes before it writes are     *)
(* never what stops the indexer.                                           *)
DefensiveThrowsUnreachable == wedged \notin {"already_bound", "future_release"}

(* Once the actor has moved to a later quarter, no event changes who is    *)
(* credited for a position of an earlier one: the volume of a closed       *)
(* quarter is final although declarations and inheritance act backwards.   *)
ClosedQuartersFrozen ==
  [][\A pr \in Pairs, x \in EventPosition :
       QuarterOf(x.epoch) < QuarterOf(pos'.epoch)
         => CreditedTo(pr, x)' = CreditedTo(pr, x)]_vars

(* A row that ended, of either table, is history: no later event touches   *)
(* it (a re-admitted orchestrator's new wallet does not leak into its      *)
(* earlier admission).                                                     *)
EndedRowsKept ==
  [][/\ service_pair \ Active(service_pair) \subseteq service_pair'
     /\ admission \ Active(admission) \subseteq admission']_vars

(* Credit a pair did not have when it was declared inside the registration *)
(* cutoff is not given for the rest of that quarter: a position after the  *)
(* cutoff began can gain an orchestrator only by changing hands.           *)
CutoffRespected ==
  [][\A pr \in Pairs, x \in EventPosition :
       /\ InCutoff(pos')
       /\ QuarterOf(x.epoch) = QuarterOf(pos'.epoch)
       /\ CreditedTo(pr, x) = {}
       => CreditedTo(pr, x)' = {}]_vars

(* A pair the actor lets an orchestrator bind can be bound: no declaration *)
(* meets a row that already has its primary key.                           *)
NoKeyCollision == wedged # "duplicate_key"

(* The tables implement the timeline of Attribution.                       *)
Horizon == [epoch : 0 .. ACTIVATION_EPOCH + MaxEpoch + EPOCHS_PER_QUARTER,
            log : 0 .. MaxLog + 1]

(* Whom the rows credit at x: an orchestrator, or nobody.                  *)
CreditAt(pr, x) ==
  IF CreditedTo(pr, x) = {} THEN None
  ELSE CHOOSE o \in Orchestrators : CreditedTo(pr, x) = {o}

(* Where the open row of a pair begins.                                    *)
BoundSince(pr) ==
  IF ActiveOf(pr) = {} THEN None ELSE (CHOOSE r \in ActiveOf(pr) : TRUE).from

Timeline == INSTANCE Attribution WITH
  admitted <- {o \in Orchestrators : Admitted(o)},
  credit   <- [pr \in Pairs |-> [x \in Horizon |-> CreditAt(pr, x)]],
  since    <- [pr \in Pairs |-> BoundSince(pr)]

(* Deleting, closing, updating and inserting rows is, seen through the     *)
(* volume query, one rewrite of a final part of a pair's timeline.         *)
ImplementsTimeline == Timeline!Spec
=============================================================================
