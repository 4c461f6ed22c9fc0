-------------------------- MODULE ServicePairsProofs --------------------------
(***************************************************************************)
(* Proofs about ServicePairs, for every calendar, every set of             *)
(* orchestrators and pairs, every cutoff and every length of the chain.    *)
(***************************************************************************)
EXTENDS ServicePairs, CommonProofs

(***************************************************************************)
(* The strengthening that makes NoDoubleCredit inductive.  Disjointness of *)
(* the covered positions alone is not: a row that ended before it began    *)
(* covers nothing, and says nothing about the rows written after it.  What *)
(* every handler keeps is that of two rows of a pair one ENDED before the  *)
(* other begins.                                                           *)
(***************************************************************************)
Separated(r, s) ==
  \/ r.to # None /\ Before(r.to, s.from)
  \/ s.to # None /\ Before(s.to, r.from)

RowsSeparated ==
  \A r, s \in service_pair : r # s /\ r.pair = s.pair => Separated(r, s)

(* Ends lie in the past; a beginning beyond the next position is the       *)
(* beginning of a quarter.                                                 *)
RowsInTime ==
  \A r \in service_pair :
    /\ r.to # None => AtOrBefore(r.to, pos)
    /\ AtOrBefore(r.from, NextLog(pos)) \/ r.from.log = 0

KeyUnique ==
  \A r, s \in service_pair : r.pair = s.pair /\ r.from = s.from => r = s

BindingsMatch ==
  /\ \A r \in Active(service_pair) : r.orch = owner[r.pair]
  /\ \A pr \in Pairs : owner[pr] # None => ActiveOf(pr) # {}

AdmissionsMatch ==
  /\ \A a \in Active(admission) : a.wallet = orchWallet[a.orch]
  /\ \A a, b \in Active(admission) : a.orch = b.orch => a = b
  /\ \A o \in Orchestrators :
       Admitted(o) => \E a \in Active(admission) : a.orch = o

IInv ==
  /\ TypeOK
  /\ RowsSeparated
  /\ RowsInTime
  /\ KeyUnique
  /\ BindingsMatch
  /\ AdmissionsMatch
  /\ DefensiveThrowsUnreachable

-----------------------------------------------------------------------------
(* Positions.                                                              *)

(* The position after one.                                                 *)
LEMMA NextLogType ==
  ASSUME NEW p \in Position
  PROVE  NextLog(p) \in Position /\ Before(p, NextLog(p))
  BY DEF Position, NextLog, At, Before

(* Events sit at positions of the chain.                                    *)
LEMMA EventPositionType == EventPosition \subseteq Position
  BY ServicePairsAssumption DEF EventPosition, Position

(* No position is both before and at or after another.                     *)
LEMMA BeforeFacts ==
  ASSUME NEW p \in Position, NEW q \in Position, NEW x \in Position
  PROVE  /\ AtOrBefore(p, q) /\ Before(q, x) => Before(p, x)
         /\ Before(p, q) /\ AtOrBefore(q, x) => Before(p, x)
         /\ AtOrBefore(p, q) /\ AtOrBefore(q, x) => AtOrBefore(p, x)
         /\ Before(p, q) => AtOrBefore(p, q)
         /\ ~Before(p, q) <=> AtOrBefore(q, p)
         /\ Before(p, q) => p # q
  BY DEF Position, Before, AtOrBefore

-----------------------------------------------------------------------------
(* Rows.                                                                   *)

(* A new binding is a row.                                                 *)
LEMMA BindType ==
  ASSUME NEW o \in Orchestrators, NEW pr \in Pairs, NEW from \in Position
  PROVE  Bind(o, pr, from) \in PairRow
  BY DEF Bind, PairRow

(* A pair has at most one open row.                                        *)
LEMMA OneOpenRow ==
  ASSUME RowsSeparated, NEW r \in Active(service_pair),
         NEW s \in Active(service_pair), r.pair = s.pair
  PROVE  r = s
  BY DEF RowsSeparated, Separated, Active

(***************************************************************************)
(* Ending a set of open rows at p, the common part of cancellation and     *)
(* removal, keeps every row-wise part of the invariant.                    *)
(***************************************************************************)
LEMMA EndBindingsRows ==
  ASSUME TypeOK, RowsSeparated, RowsInTime, KeyUnique,
         NEW p \in Position, Before(pos, p), pos' = p,
         NEW S \in SUBSET Active(service_pair),
         service_pair' = EndBindings(S, p)
  PROVE  /\ service_pair' \subseteq PairRow
         /\ RowsSeparated'
         /\ RowsInTime'
         /\ KeyUnique'
         /\ Active(service_pair)' = Active(service_pair) \ S
  <1> DEFINE closed == Unbind(S \ NotStarted(S, p), p)
  <1>1. service_pair' = (service_pair \ S) \cup closed
    BY DEF EndBindings
  <1>2. /\ p # None
        /\ \A r \in service_pair : r \in PairRow
    BY ServicePairsAssumption DEF TypeOK
  <1>3. \A c \in closed : \E r \in S :
          /\ c \in PairRow /\ r \in PairRow /\ r \in service_pair
          /\ c.pair = r.pair /\ c.from = r.from /\ c.to = p /\ r.to = None
          /\ c.orch = r.orch
    BY <1>2 DEF Unbind, NotStarted, Active, PairRow
  <1> HIDE DEF closed
  <1>4. service_pair' \subseteq PairRow
    BY <1>1, <1>2, <1>3
  <1>5. RowsSeparated'
    <2> SUFFICES ASSUME NEW r \in service_pair', NEW s \in service_pair',
                        r # s, r.pair = s.pair
                 PROVE  Separated(r, s)
      BY DEF RowsSeparated, Separated
    <2>1. CASE r \in service_pair \ S /\ s \in service_pair \ S
      BY <2>1 DEF RowsSeparated
    <2>2. ASSUME NEW x \in closed, NEW y \in service_pair \ S, x.pair = y.pair
          PROVE  Separated(x, y)
      <3>1. PICK w \in S : /\ w \in service_pair
                           /\ x.pair = w.pair /\ x.from = w.from /\ w.to = None
        BY <1>3, <2>2
      <3>2. Separated(w, y)
        BY <2>2, <3>1 DEF RowsSeparated
      <3> QED BY <3>1, <3>2 DEF Separated
    <2>3. CASE r \in closed /\ s \in service_pair \ S
      BY <2>2, <2>3
    <2>4. CASE r \in service_pair \ S /\ s \in closed
      BY <2>2, <2>4 DEF Separated
    <2>5. CASE r \in closed /\ s \in closed
      <3>1. PICK v \in S : /\ v \in service_pair
                           /\ r \in PairRow /\ v \in PairRow
                           /\ r.pair = v.pair /\ r.from = v.from
                           /\ r.to = p /\ v.to = None /\ r.orch = v.orch
        BY <1>3, <2>5
      <3>2. PICK w \in S : /\ w \in service_pair
                           /\ s \in PairRow /\ w \in PairRow
                           /\ s.pair = w.pair /\ s.from = w.from
                           /\ s.to = p /\ w.to = None /\ s.orch = w.orch
        BY <1>3, <2>5
      <3>3. v = w
        BY <3>1, <3>2, OneOpenRow
      <3>4. r = s
        BY <3>1, <3>2, <3>3 DEF PairRow
      <3> QED BY <3>4
    <2> QED BY <1>1, <2>1, <2>3, <2>4, <2>5
  <1>6. RowsInTime'
    <2> SUFFICES ASSUME NEW r \in service_pair'
                 PROVE  /\ r.to # None => AtOrBefore(r.to, p)
                        /\ AtOrBefore(r.from, NextLog(p)) \/ r.from.log = 0
      BY DEF RowsInTime
    <2>1. ASSUME NEW w \in service_pair
          PROVE  AtOrBefore(w.from, NextLog(p)) \/ w.from.log = 0
      <3>1. w.from \in Position /\ NextLog(pos) \in Position /\ NextLog(p) \in Position
        BY <1>2, NextLogType DEF TypeOK, PairRow
      <3>2. AtOrBefore(NextLog(pos), NextLog(p))
        BY DEF Before, AtOrBefore, NextLog, At, TypeOK, Position
      <3> QED BY <3>1, <3>2, BeforeFacts DEF RowsInTime
    <2>2. CASE r \in service_pair \ S
      <3>1. r.to # None => r.to \in Position /\ AtOrBefore(r.to, pos)
        BY <1>2, <2>2 DEF RowsInTime, PairRow
      <3> QED BY <2>1, <2>2, <3>1, BeforeFacts DEF TypeOK
    <2>3. CASE r \in closed
      BY <1>3, <2>1, <2>3 DEF AtOrBefore, Position
    <2> QED BY <1>1, <2>2, <2>3
  <1>7. KeyUnique'
    <2> SUFFICES ASSUME NEW r \in service_pair', NEW s \in service_pair',
                        r.pair = s.pair, r.from = s.from
                 PROVE  r = s
      BY DEF KeyUnique
    <2>1. ASSUME NEW x \in closed, NEW y \in service_pair \ S,
                 x.pair = y.pair, x.from = y.from
          PROVE  FALSE
      BY <1>3, <2>1 DEF KeyUnique
    <2>2. CASE r \in closed /\ s \in closed
      <3>1. PICK v \in S : /\ v \in service_pair
                           /\ r \in PairRow /\ r.pair = v.pair /\ r.from = v.from
                           /\ r.to = p /\ r.orch = v.orch
        BY <1>3, <2>2
      <3>2. PICK w \in S : /\ w \in service_pair
                           /\ s \in PairRow /\ s.pair = w.pair /\ s.from = w.from
                           /\ s.to = p /\ s.orch = w.orch
        BY <1>3, <2>2
      <3>3. v = w
        BY <3>1, <3>2 DEF KeyUnique
      <3> QED BY <3>1, <3>2, <3>3 DEF PairRow
    <2>3. CASE r \in service_pair \ S /\ s \in service_pair \ S
      BY <2>3 DEF KeyUnique
    <2> QED BY <1>1, <2>1, <2>2, <2>3
  <1>8. Active(service_pair)' = Active(service_pair) \ S
    BY <1>1, <1>2, <1>3 DEF Active
  <1> QED BY <1>4, <1>5, <1>6, <1>7, <1>8

(* A declaration begins its row after every end the pair's rows have, at   *)
(* the next position at the latest or at the beginning of a quarter.       *)
LEMMA DeclaredBeginning ==
  ASSUME TypeOK, RowsInTime, NEW p \in Position, Before(pos, p),
         NEW pr \in Pairs, ActiveOf(pr) = {}, NEW from \in DeclaredFrom(pr, p)
  PROVE  /\ from \in Position
         /\ \A r \in service_pair : r.pair = pr => r.to # None /\ Before(r.to, from)
         /\ AtOrBefore(from, NextLog(p)) \/ from.log = 0
  <1> DEFINE q     == EffectiveQuarter(p.epoch)
             start == At(QuarterStart(q), 0)
  <1>1. /\ p.epoch \in Nat /\ p.log \in Nat
        /\ pos \in Position
        /\ QuarterStart(q) \in Nat /\ QuarterEnd(q) \in Nat
        /\ p.epoch <= QuarterEnd(q)
    BY EffectiveQuarterBounds DEF Position, TypeOK
  <1>2. start \in Position
    BY <1>1 DEF Position, At
  <1>3. ASSUME NEW r \in service_pair, r.pair = pr
        PROVE  /\ r.to # None /\ r.to \in Position /\ r.to \in Releases(pr)
               /\ AtOrBefore(r.to, pos) /\ Before(r.to, p)
    <2>1. r.to # None /\ r.to \in Position
      BY <1>3 DEF ActiveOf, Active, TypeOK, PairRow
    <2>2. r.to \in Releases(pr)
      BY <1>3, <2>1 DEF Releases, OfPair
    <2>3. AtOrBefore(r.to, pos)
      BY <2>1 DEF RowsInTime
    <2> QED BY <1>1, <2>1, <2>2, <2>3, BeforeFacts
  <1>4. CASE InCutoff(p)
    <2>1. from = At(QuarterEnd(q) + 1, 0)
      BY <1>4 DEF DeclaredFrom
    <2>2. from \in Position /\ from.log = 0 /\ p.epoch < from.epoch
      BY <1>1, <2>1 DEF Position, At
    <2>3. \A r \in service_pair : r.pair = pr => r.to # None /\ Before(r.to, from)
      BY <1>1, <1>3, <2>2 DEF Before, Position
    <2> QED BY <2>2, <2>3
  <1>5. CASE ~InCutoff(p) /\ Releases(pr) = {}
    <2>1. from = start
      BY <1>5 DEF DeclaredFrom
    <2>2. \A r \in service_pair : r.pair # pr
      BY <1>3, <1>5
    <2> QED BY <1>2, <2>1, <2>2 DEF At
  <1>6. CASE ~InCutoff(p) /\ Releases(pr) # {}
    <2>1. PICK x \in PreviousRelease(pr) :
            from = IF QuarterOf(x.epoch) # QuarterOf(p.epoch) THEN start ELSE NextLog(x)
      BY <1>6 DEF DeclaredFrom
    <2>2. /\ x \in Releases(pr)
          /\ \A y \in Releases(pr) : AtOrBefore(y, x)
      BY <2>1 DEF PreviousRelease
    <2>3. x \in Position /\ Before(x, p)
      BY <1>3, <2>2 DEF Releases, OfPair
    <2>4. CASE QuarterOf(x.epoch) # QuarterOf(p.epoch)
      <3>1. x.epoch < QuarterStart(q)
        <4>1. x.epoch \in Nat /\ x.epoch <= p.epoch
          BY <1>1, <2>3 DEF Position, Before
        <4> QED BY <1>1, <2>4, <4>1, EarlierQuarter
      <3>2. from = start
        BY <2>1, <2>4
      <3>3. \A r \in service_pair : r.pair = pr => r.to # None /\ Before(r.to, from)
        <4> SUFFICES ASSUME NEW r \in service_pair, r.pair = pr
                     PROVE  r.to # None /\ Before(r.to, from)
          OBVIOUS
        <4>1. r.to # None /\ r.to \in Position /\ AtOrBefore(r.to, x)
          BY <1>3, <2>2
        <4>2. r.to.epoch < QuarterStart(q)
          BY <1>1, <2>3, <3>1, <4>1 DEF AtOrBefore, Position
        <4> QED BY <3>2, <4>1, <4>2 DEF Before, At
      <3> QED BY <1>2, <3>2, <3>3 DEF At
    <2>5. CASE QuarterOf(x.epoch) = QuarterOf(p.epoch)
      <3>1. from = NextLog(x)
        BY <2>1, <2>5
      <3>2. from \in Position /\ Before(x, from)
        BY <2>3, <3>1, NextLogType
      <3>3. \A r \in service_pair : r.pair = pr => r.to # None /\ Before(r.to, from)
        BY <1>3, <2>2, <2>3, <3>2, BeforeFacts
      <3>4. AtOrBefore(from, NextLog(p))
        BY <1>1, <2>3, <3>1 DEF AtOrBefore, Before, NextLog, At, Position
      <3> QED BY <3>2, <3>3, <3>4
    <2> QED BY <2>4, <2>5
  <1> QED BY <1>4, <1>5, <1>6

(* An event that leaves service_pair alone keeps the rows in time.         *)
LEMMA RowsInTimeLater ==
  ASSUME TypeOK, RowsInTime, NEW p \in Position, Before(pos, p),
         NEW r \in service_pair
  PROVE  /\ r.to # None => AtOrBefore(r.to, p)
         /\ AtOrBefore(r.from, NextLog(p)) \/ r.from.log = 0
  <1>1. /\ r \in PairRow /\ pos \in Position
        /\ NextLog(pos) \in Position /\ NextLog(p) \in Position
    BY NextLogType DEF TypeOK
  <1>2. /\ AtOrBefore(NextLog(pos), NextLog(p))
        /\ AtOrBefore(pos, p)
    BY <1>1 DEF Before, AtOrBefore, NextLog, At, Position
  <1>3. r.from \in Position /\ (r.to # None => r.to \in Position)
    BY <1>1 DEF PairRow
  <1> QED BY <1>1, <1>2, <1>3, BeforeFacts DEF RowsInTime

-----------------------------------------------------------------------------
(* Every event keeps the invariant.                                        *)

(* An admission opens the one open row of its orchestrator.                *)
LEMMA AdmittedStep ==
  ASSUME IInv, NEW o \in Orchestrators, NEW w \in Wallets,
         NEW p \in EventPosition, Before(pos, p), wedged = "no",
         OrchestratorAdmitted(o, w, p)
  PROVE  IInv'
  <1> DEFINE row == [orch |-> o, wallet |-> w, from |-> p, to |-> None]
  <1>1. p \in Position
    BY EventPositionType
  <1>2. /\ row \in AdmissionRow /\ row.to = None /\ row.orch = o /\ row.wallet = w
        /\ None # w
    BY <1>1, ServicePairsAssumption DEF AdmissionRow
  <1>3. /\ admission' = admission \cup {row}
        /\ orchWallet' = [orchWallet EXCEPT ![o] = w]
        /\ orchWallet[o] = None
        /\ pos' = p
        /\ UNCHANGED <<service_pair, cutoff, wedged, owner>>
    BY DEF OrchestratorAdmitted, Admitted
  <1> HIDE DEF row
  <1>4. TypeOK'
    BY <1>1, <1>2, <1>3 DEF IInv, TypeOK
  <1>5. /\ RowsSeparated' /\ KeyUnique' /\ BindingsMatch'
        /\ DefensiveThrowsUnreachable'
    BY <1>3 DEF IInv, RowsSeparated, Separated, KeyUnique, BindingsMatch, ActiveOf,
                Active, DefensiveThrowsUnreachable
  <1>6. RowsInTime'
    BY <1>1, <1>3, RowsInTimeLater DEF IInv, RowsInTime
  <1>7. AdmissionsMatch'
    <2>1. Active(admission)' = Active(admission) \cup {row}
      BY <1>2, <1>3 DEF Active
    <2>2. \A a \in Active(admission) :
            /\ a.orch \in Orchestrators /\ a.wallet \in Wallets
            /\ a.wallet = orchWallet[a.orch] /\ a.orch # o
      BY <1>2, <1>3, ServicePairsAssumption
         DEF IInv, AdmissionsMatch, Active, TypeOK, AdmissionRow
    <2>3. \A q \in Orchestrators :
            orchWallet'[q] = IF q = o THEN w ELSE orchWallet[q]
      BY <1>3 DEF IInv, TypeOK
    <2> QED
      BY <1>2, <2>1, <2>2, <2>3 DEF IInv, AdmissionsMatch, Admitted
  <1> QED BY <1>4, <1>5, <1>6, <1>7 DEF IInv

(* Replacing a wallet keeps the invariant: only the open admission changes.  *)
LEMMA WalletReplacedStep ==
  ASSUME IInv, NEW o \in Orchestrators, NEW w \in Wallets,
         NEW p \in EventPosition, Before(pos, p), wedged = "no",
         OrchestratorWalletReplaced(o, w, p)
  PROVE  IInv'
  <1> DEFINE current == {a \in Active(admission) : a.orch = o}
             renewed == {[a EXCEPT !.wallet = w] : a \in current}
  <1>1. p \in Position
    BY EventPositionType
  <1>2. /\ admission' = (admission \ current) \cup renewed
        /\ orchWallet' = [orchWallet EXCEPT ![o] = w]
        /\ orchWallet[o] # None
        /\ pos' = p
        /\ UNCHANGED <<service_pair, cutoff, wedged, owner>>
    BY DEF OrchestratorWalletReplaced, Admitted
  <1>3. \A a \in admission : a \in AdmissionRow
    BY DEF IInv, TypeOK
  <1>4. \A b \in renewed : /\ b \in AdmissionRow /\ b.orch = o
                           /\ b.wallet = w /\ b.to = None
    BY <1>3 DEF AdmissionRow, Active
  <1>5. \A b, c \in renewed : b = c
    BY DEF IInv, AdmissionsMatch
  <1>6. \A a \in current : [a EXCEPT !.wallet = w] \in renewed
    OBVIOUS
  <1>7. current \subseteq Active(admission) /\ \A a \in Active(admission) : a.orch = o <=> a \in current
    OBVIOUS
  <1> HIDE DEF current, renewed
  <1>8. TypeOK'
    BY <1>1, <1>2, <1>3, <1>4 DEF IInv, TypeOK
  <1>9. /\ RowsSeparated' /\ KeyUnique' /\ BindingsMatch'
        /\ DefensiveThrowsUnreachable'
    BY <1>2 DEF IInv, RowsSeparated, Separated, KeyUnique, BindingsMatch, ActiveOf,
                Active, DefensiveThrowsUnreachable
  <1>10. RowsInTime'
    BY <1>1, <1>2, RowsInTimeLater DEF IInv, RowsInTime
  <1>11. AdmissionsMatch'
    <2>1. Active(admission)' = (Active(admission) \ current) \cup renewed
      BY <1>2, <1>4 DEF Active
    <2>2. \A q \in Orchestrators :
            orchWallet'[q] = IF q = o THEN w ELSE orchWallet[q]
      BY <1>2 DEF IInv, TypeOK
    <2>3. \A a \in Active(admission) : a.orch \in Orchestrators
      BY <1>3 DEF Active, AdmissionRow
    <2>4. \A a \in Active(admission)' : a.wallet = orchWallet'[a.orch]
      BY <1>4, <1>7, <2>1, <2>2, <2>3 DEF IInv, AdmissionsMatch
    <2>5. \A a, b \in Active(admission)' : a.orch = b.orch => a = b
      BY <1>4, <1>5, <1>7, <2>1 DEF IInv, AdmissionsMatch
    <2>6. \A q \in Orchestrators :
            Admitted(q)' => \E a \in Active(admission)' : a.orch = q
      <3> SUFFICES ASSUME NEW q \in Orchestrators, Admitted(q)'
                   PROVE  \E a \in Active(admission)' : a.orch = q
        OBVIOUS
      <3>1. PICK a \in Active(admission) : a.orch = q
        BY <1>2, <2>2 DEF IInv, AdmissionsMatch, Admitted
      <3>2. CASE a \in current
        BY <1>4, <1>6, <1>7, <2>1, <3>1, <3>2
      <3>3. CASE a \notin current
        BY <2>1, <3>1, <3>3
      <3> QED BY <3>2, <3>3
    <2> QED BY <2>4, <2>5, <2>6 DEF AdmissionsMatch
  <1> QED BY <1>8, <1>9, <1>10, <1>11 DEF IInv

(* Removing an orchestrator keeps the invariant: its bindings end or go, and *)
(* its admission ends.                                                      *)
LEMMA RemovedStep ==
  ASSUME IInv, NEW o \in Orchestrators,
         NEW p \in EventPosition, Before(pos, p), wedged = "no",
         OrchestratorRemoved(o, p)
  PROVE  IInv'
  <1> DEFINE current == {a \in Active(admission) : a.orch = o}
             rows    == {r \in Active(service_pair) : r.orch = o}
  <1>1. p \in Position /\ p # None
    BY EventPositionType, ServicePairsAssumption
  <1>2. /\ admission' = (admission \ current) \cup Unbind(current, p)
        /\ service_pair' = EndBindings(rows, p)
        /\ orchWallet' = [orchWallet EXCEPT ![o] = None]
        /\ owner' = [pr \in Pairs |-> IF owner[pr] = o THEN None ELSE owner[pr]]
        /\ pos' = p
        /\ UNCHANGED <<cutoff, wedged>>
    BY DEF OrchestratorRemoved
  <1>3. /\ service_pair' \subseteq PairRow
        /\ RowsSeparated' /\ RowsInTime' /\ KeyUnique'
        /\ Active(service_pair)' = Active(service_pair) \ rows
    BY <1>1, <1>2, EndBindingsRows DEF IInv
  <1>4. \A a \in Unbind(current, p) : a \in AdmissionRow /\ a.to = p
    BY <1>1 DEF Unbind, Active, IInv, TypeOK, AdmissionRow
  <1>5. TypeOK'
    BY <1>1, <1>2, <1>3, <1>4 DEF IInv, TypeOK
  <1>6. AdmissionsMatch'
    <2>1. Active(admission)' = Active(admission) \ current
      BY <1>1, <1>2, <1>4 DEF Active
    <2>2. \A q \in Orchestrators :
            orchWallet'[q] = IF q = o THEN None ELSE orchWallet[q]
      BY <1>2 DEF IInv, TypeOK
    <2>3. \A a \in Active(admission) : a.orch \in Orchestrators
      BY DEF Active, IInv, TypeOK, AdmissionRow
    <2> QED BY <2>1, <2>2, <2>3 DEF IInv, AdmissionsMatch, Admitted
  <1>7. BindingsMatch'
    <2>1. \A r \in Active(service_pair) : r.pair \in Pairs
      BY DEF Active, IInv, TypeOK, PairRow
    <2>2. \A r \in Active(service_pair)' : r.orch = owner'[r.pair]
      BY <1>2, <1>3, <2>1 DEF IInv, BindingsMatch
    <2>3. ASSUME NEW pr \in Pairs, owner'[pr] # None
          PROVE  ActiveOf(pr)' # {}
      <3>1. owner[pr] # None /\ owner[pr] # o
        BY <1>2, <2>3
      <3>2. PICK r \in Active(service_pair) : r.pair = pr
        BY <3>1 DEF IInv, BindingsMatch, ActiveOf
      <3>3. r.orch # o
        BY <3>1, <3>2 DEF IInv, BindingsMatch
      <3> QED BY <1>3, <3>2, <3>3 DEF ActiveOf
    <2> QED BY <2>2, <2>3 DEF BindingsMatch
  <1>8. DefensiveThrowsUnreachable'
    BY <1>2 DEF IInv, DefensiveThrowsUnreachable
  <1> QED BY <1>3, <1>5, <1>6, <1>7, <1>8 DEF IInv

(* The part of the invariant an event that touches only service_pair and   *)
(* owner leaves alone.                                                     *)
LEMMA AdmissionsKept ==
  ASSUME AdmissionsMatch, UNCHANGED <<admission, orchWallet>>
  PROVE  AdmissionsMatch'
  BY DEF AdmissionsMatch, Active, Admitted

(* Declaring a binding keeps the invariant: the new row begins after every   *)
(* row of the pair has ended.                                               *)
LEMMA DeclaredStep ==
  ASSUME IInv, NEW o \in Orchestrators, NEW pr \in Pairs,
         NEW p \in EventPosition, Before(pos, p), wedged = "no",
         BindingDeclared(o, pr, p)
  PROVE  IInv'
  <1>1. p \in Position
    BY EventPositionType
  <1>2. PICK from \in DeclaredFrom(pr, p) :
          service_pair' = service_pair \cup {Bind(o, pr, from)}
    BY DEF BindingDeclared
  <1>3. /\ owner[pr] = None
        /\ BindingError(pr, p) = "no"
        /\ owner' = [owner EXCEPT ![pr] = o]
        /\ pos' = p
        /\ UNCHANGED <<admission, cutoff, wedged, orchWallet>>
    BY DEF BindingDeclared
  <1> DEFINE row == Bind(o, pr, from)
  <1>4. ActiveOf(pr) = {} /\ FreshKey(pr, from)
    BY <1>3 DEF BindingError
  <1>5. /\ from \in Position
        /\ \A r \in service_pair : r.pair = pr => r.to # None /\ Before(r.to, from)
        /\ AtOrBefore(from, NextLog(p)) \/ from.log = 0
    BY <1>1, <1>4, DeclaredBeginning DEF IInv
  <1>6. /\ row \in PairRow /\ row.to = None /\ row.pair = pr
        /\ row.orch = o /\ row.from = from
    BY <1>5, BindType DEF Bind
  <1> HIDE DEF row
  <1>7. TypeOK'
    BY <1>1, <1>2, <1>3, <1>6 DEF IInv, TypeOK, row
  <1>8. RowsSeparated'
    <2>1. \A r, s \in service_pair' : r # s /\ r.pair = s.pair => Separated(r, s)
      BY <1>2, <1>5, <1>6 DEF IInv, RowsSeparated, Separated, row
    <2> QED BY <2>1 DEF RowsSeparated, Separated
  <1>9. RowsInTime'
    BY <1>1, <1>2, <1>3, <1>5, <1>6, RowsInTimeLater DEF IInv, RowsInTime, row
  <1>10. KeyUnique'
    BY <1>2, <1>4, <1>6 DEF IInv, KeyUnique, FreshKey, OfPair, row
  <1>11. BindingsMatch'
    <2>1. Active(service_pair)' = Active(service_pair) \cup {row}
      BY <1>2, <1>6 DEF Active, row
    <2>2. \A r \in Active(service_pair) : r.pair \in Pairs /\ r.pair # pr
      BY <1>4 DEF Active, ActiveOf, IInv, TypeOK, PairRow
    <2>3. \A q \in Pairs : owner'[q] = IF q = pr THEN o ELSE owner[q]
      BY <1>3 DEF IInv, TypeOK
    <2> QED
      BY <1>6, <2>1, <2>2, <2>3 DEF IInv, BindingsMatch, ActiveOf
  <1>12. AdmissionsMatch' /\ DefensiveThrowsUnreachable'
    BY <1>3, AdmissionsKept DEF IInv, DefensiveThrowsUnreachable
  <1> QED BY <1>7, <1>8, <1>9, <1>10, <1>11, <1>12 DEF IInv

(***************************************************************************)
(* Inheritance changes the orchestrator of the one open row in place; any  *)
(* other reassignment is the end of that row followed by a new one.        *)
(***************************************************************************)
LEMMA ReassignedStep ==
  ASSUME IInv, NEW o \in Orchestrators, NEW pr \in Pairs, NEW inherit \in BOOLEAN,
         NEW p \in EventPosition, Before(pos, p), wedged = "no",
         BindingReassigned(o, pr, p, inherit)
  PROVE  IInv'
  <1>1. p \in Position /\ p # None
    BY EventPositionType, ServicePairsAssumption
  <1>2. /\ service_pair' = Reassigned(o, pr, p, inherit)
        /\ owner[pr] # None
        /\ owner' = [owner EXCEPT ![pr] = o]
        /\ pos' = p
        /\ UNCHANGED <<admission, cutoff, wedged, orchWallet>>
    BY DEF BindingReassigned
  <1>3. PICK r0 \in Active(service_pair) : r0.pair = pr
    BY <1>2 DEF IInv, BindingsMatch, ActiveOf
  <1>4. ActiveOf(pr) = {r0}
    BY <1>3, OneOpenRow DEF ActiveOf, IInv
  <1>5. /\ r0 \in service_pair /\ r0 \in PairRow /\ r0.to = None
        /\ service_pair \subseteq PairRow
    BY <1>3 DEF Active, IInv, TypeOK
  <1>6. \A q \in Pairs : owner'[q] = IF q = pr THEN o ELSE owner[q]
    BY <1>2 DEF IInv, TypeOK
  <1>7. AdmissionsMatch' /\ DefensiveThrowsUnreachable'
    BY <1>2, AdmissionsKept DEF IInv, DefensiveThrowsUnreachable
  <1> DEFINE recent == {r \in ActiveOf(pr) :
                          r.from.epoch >= QuarterStart(EffectiveQuarter(p.epoch))}
             heir   == [r0 EXCEPT !.orch = o]
             row    == Bind(o, pr, NextLog(p))
  <1>8. CASE inherit /\ recent # {}
    <2>1. recent = {r0}
      BY <1>4, <1>8
    <2>2. service_pair' = (service_pair \ {r0}) \cup {heir}
      BY <1>2, <1>8, <2>1 DEF Reassigned
    <2>3. /\ heir \in PairRow /\ heir.pair = pr /\ heir.to = None
          /\ heir.from = r0.from /\ heir.orch = o
      BY <1>3, <1>5 DEF PairRow
    <2> HIDE DEF heir, recent, row
    <2>4. TypeOK'
      BY <1>1, <1>2, <1>5, <2>2, <2>3 DEF IInv, TypeOK
    <2>5. RowsSeparated'
      <3>1. ASSUME NEW s \in service_pair \ {r0}, s.pair = pr
            PROVE  Separated(heir, s) /\ Separated(s, heir)
        <4>1. Separated(r0, s)
          BY <1>3, <1>5, <3>1 DEF IInv, RowsSeparated
        <4> QED BY <1>5, <2>3, <4>1 DEF Separated
      <3>2. \A r, s \in service_pair' : r # s /\ r.pair = s.pair => Separated(r, s)
        BY <2>2, <2>3, <3>1 DEF IInv, RowsSeparated
      <3> QED BY <3>2 DEF RowsSeparated, Separated
    <2>6. RowsInTime'
      BY <1>1, <1>2, <1>5, <2>2, <2>3, RowsInTimeLater DEF IInv, RowsInTime
    <2>7. KeyUnique'
      BY <1>3, <1>5, <2>2, <2>3 DEF IInv, KeyUnique
    <2>8. BindingsMatch'
      <3>1. Active(service_pair)' = (Active(service_pair) \ {r0}) \cup {heir}
        BY <2>2, <2>3 DEF Active
      <3>2. \A r \in Active(service_pair) : r.pair \in Pairs /\ (r.pair = pr <=> r = r0)
        BY <1>3, <1>4, <1>5 DEF Active, ActiveOf, PairRow
      <3> QED BY <1>6, <2>3, <3>1, <3>2 DEF IInv, BindingsMatch, ActiveOf
    <2> QED BY <1>7, <2>4, <2>5, <2>6, <2>7, <2>8 DEF IInv
  <1>9. CASE ~(inherit /\ recent # {})
    <2> DEFINE ended == [r0 EXCEPT !.to = p]
               T     == (service_pair \ {r0}) \cup {ended}
    <2>1. service_pair' = T \cup {row}
      BY <1>2, <1>4, <1>9 DEF Reassigned, Unbind
    <2>2. /\ ended \in PairRow /\ ended.pair = pr /\ ended.to = p
          /\ ended.from = r0.from /\ ended.orch = r0.orch
      BY <1>1, <1>3, <1>5 DEF PairRow
    <2>3. NextLog(p) \in Position /\ Before(p, NextLog(p)) /\ NextLog(p).log # 0
      BY <1>1, NextLogType DEF NextLog, At, Position
    <2>4. /\ row \in PairRow /\ row.to = None /\ row.pair = pr
          /\ row.orch = o /\ row.from = NextLog(p)
      BY <2>3, BindType DEF Bind
    <2> HIDE DEF ended, row, recent
    <2>5. TypeOK'
      BY <1>1, <1>2, <1>5, <2>1, <2>2, <2>4 DEF IInv, TypeOK
    <2>6. \A r \in service_pair :
            /\ r.to # None => r.to \in Position /\ AtOrBefore(r.to, pos)
            /\ r.pair = pr /\ r # r0 => r.to # None
      BY <1>4, <1>5 DEF IInv, RowsInTime, PairRow, ActiveOf, Active
    <2>7. RowsSeparated'
      <3>1. ASSUME NEW s \in service_pair \ {r0}, s.pair = pr
            PROVE  Separated(ended, s) /\ Separated(s, ended)
        <4>1. Separated(r0, s)
          BY <1>3, <1>5, <3>1 DEF IInv, RowsSeparated
        <4> QED BY <1>1, <1>5, <2>2, <4>1 DEF Separated
      <3>2. \A r, s \in T : r # s /\ r.pair = s.pair => Separated(r, s)
        BY <2>2, <3>1 DEF IInv, RowsSeparated
      <3>3. \A r \in T : r.pair = pr => r.to # None /\ Before(r.to, NextLog(p))
        <4> SUFFICES ASSUME NEW r \in T, r.pair = pr
                     PROVE  r.to # None /\ Before(r.to, NextLog(p))
          OBVIOUS
        <4>1. CASE r = ended
          BY <1>1, <2>2, <2>3, <4>1
        <4>2. CASE r \in service_pair \ {r0}
          <5>1. r.to # None /\ r.to \in Position /\ AtOrBefore(r.to, pos)
            BY <2>6, <4>2
          <5>2. pos \in Position
            BY DEF IInv, TypeOK
          <5>3. Before(r.to, p)
            BY <1>1, <5>1, <5>2, BeforeFacts
          <5> QED BY <1>1, <2>3, <5>1, <5>3, BeforeFacts
        <4> QED BY <4>1, <4>2
      <3>4. \A r, s \in service_pair' : r # s /\ r.pair = s.pair => Separated(r, s)
        <4> HIDE DEF T
        <4> QED BY <2>1, <2>4, <3>2, <3>3 DEF Separated
      <3> QED BY <3>4 DEF RowsSeparated, Separated
    <2>8. RowsInTime'
      <3> SUFFICES ASSUME NEW r \in service_pair'
                   PROVE  /\ r.to # None => AtOrBefore(r.to, p)
                          /\ AtOrBefore(r.from, NextLog(p)) \/ r.from.log = 0
        BY <1>2 DEF RowsInTime
      <3>1. CASE r \in service_pair \ {r0}
        BY <1>1, <3>1, RowsInTimeLater DEF IInv
      <3>2. CASE r = ended
        BY <1>1, <1>5, <2>2, <3>2, RowsInTimeLater DEF IInv, AtOrBefore, Position
      <3>3. CASE r = row
        BY <2>3, <2>4, <3>3 DEF AtOrBefore, Position
      <3> QED BY <2>1, <3>1, <3>2, <3>3
    <2>9. KeyUnique'
      <3>1. ASSUME NEW r \in service_pair PROVE r.from # NextLog(p)
        <4>1. AtOrBefore(r.from, NextLog(pos)) \/ r.from.log = 0
          BY DEF IInv, RowsInTime
        <4>2. ~AtOrBefore(NextLog(p), NextLog(pos))
          BY <1>1 DEF IInv, TypeOK, AtOrBefore, Before, NextLog, At, Position
        <4> QED BY <2>3, <4>1, <4>2
      <3>2. \A r \in service_pair \ {r0} : r.pair = pr => r.from # ended.from
        BY <1>3, <1>5, <2>2 DEF IInv, KeyUnique
      <3> QED BY <1>5, <2>1, <2>2, <2>4, <3>1, <3>2 DEF IInv, KeyUnique
    <2>10. BindingsMatch'
      <3>1. Active(service_pair)' = (Active(service_pair) \ {r0}) \cup {row}
        BY <1>1, <2>1, <2>2, <2>4 DEF Active
      <3>2. \A r \in Active(service_pair) : r.pair \in Pairs /\ (r.pair = pr <=> r = r0)
        BY <1>3, <1>4, <1>5 DEF Active, ActiveOf, PairRow
      <3> QED BY <1>6, <2>4, <3>1, <3>2 DEF IInv, BindingsMatch, ActiveOf
    <2> QED BY <1>7, <2>5, <2>7, <2>8, <2>9, <2>10 DEF IInv
  <1> QED BY <1>8, <1>9

(* Canceling a binding keeps the invariant: the pair's open row ends or goes. *)
LEMMA CanceledStep ==
  ASSUME IInv, NEW pr \in Pairs,
         NEW p \in EventPosition, Before(pos, p), wedged = "no",
         BindingCanceled(pr, p)
  PROVE  IInv'
  <1> DEFINE rows == {r \in ActiveOf(pr) : r.orch = owner[pr]}
  <1>1. p \in Position /\ p # None
    BY EventPositionType, ServicePairsAssumption
  <1>2. /\ service_pair' = EndBindings(rows, p)
        /\ owner' = [owner EXCEPT ![pr] = None]
        /\ pos' = p
        /\ UNCHANGED <<admission, cutoff, wedged, orchWallet>>
    BY DEF BindingCanceled
  <1>3. rows \in SUBSET Active(service_pair)
    BY DEF ActiveOf
  <1>4. rows = ActiveOf(pr)
    BY DEF IInv, BindingsMatch, ActiveOf
  <1>5. /\ service_pair' \subseteq PairRow
        /\ RowsSeparated' /\ RowsInTime' /\ KeyUnique'
        /\ Active(service_pair)' = Active(service_pair) \ rows
    BY <1>1, <1>2, <1>3, EndBindingsRows DEF IInv
  <1> HIDE DEF rows
  <1>6. TypeOK'
    BY <1>1, <1>2, <1>5 DEF IInv, TypeOK
  <1>7. \A q \in Pairs : owner'[q] = IF q = pr THEN None ELSE owner[q]
    BY <1>2 DEF IInv, TypeOK
  <1>8. \A r \in Active(service_pair) : r.pair \in Pairs
    BY DEF Active, IInv, TypeOK, PairRow
  <1>9. BindingsMatch'
    BY <1>4, <1>5, <1>7, <1>8 DEF IInv, BindingsMatch, ActiveOf
  <1>10. AdmissionsMatch' /\ DefensiveThrowsUnreachable'
    BY <1>2, AdmissionsKept DEF IInv, DefensiveThrowsUnreachable
  <1> QED BY <1>5, <1>6, <1>9, <1>10 DEF IInv

(***************************************************************************)
(* Of the errors of createBinding the two about the state of service_pair  *)
(* cannot occur: the actor binds only unbound pairs, and every release is  *)
(* in the past of the log being handled.                                   *)
(***************************************************************************)
LEMMA RejectedStep ==
  ASSUME IInv, NEW o \in Orchestrators, NEW pr \in Pairs,
         NEW p \in EventPosition, Before(pos, p), wedged = "no",
         BindingRejected(o, pr, p)
  PROVE  IInv'
  <1>1. p \in Position
    BY EventPositionType
  <1>2. /\ owner[pr] = None
        /\ wedged' = BindingError(pr, p)
        /\ wedged' # "no"
        /\ pos' = p
        /\ UNCHANGED <<service_pair, admission, cutoff, orchWallet, owner>>
    BY DEF BindingRejected, tables, actor
  <1>3. ActiveOf(pr) = {}
    BY <1>2, ServicePairsAssumption
       DEF IInv, TypeOK, BindingsMatch, ActiveOf, Active, PairRow
  <1>4. \A x \in Releases(pr) : ~AtOrBefore(p, x)
    <2> SUFFICES ASSUME NEW r \in service_pair, r.to # None
                 PROVE  ~AtOrBefore(p, r.to)
      BY DEF Releases, OfPair
    <2>1. r.to \in Position /\ AtOrBefore(r.to, pos) /\ pos \in Position
      BY DEF IInv, TypeOK, PairRow, RowsInTime
    <2>2. Before(r.to, p)
      BY <1>1, <2>1, BeforeFacts
    <2> QED BY <1>1, <2>1, <2>2 DEF Before, AtOrBefore, Position
  <1>5. wedged' \in {"no_cutoff", "cutoff_too_long", "duplicate_key"}
    <2> DEFINE noCutoff  == QuarterOf(p.epoch) >= 1 /\ CutoffInForce(p) = {}
               tooLong   == /\ QuarterOf(p.epoch) >= 1
                            /\ \E c \in CutoffInForce(p) : c.value > EPOCHS_PER_QUARTER
               duplicate == \E from \in DeclaredFrom(pr, p) : ~FreshKey(pr, from)
    <2>1. /\ ~(ActiveOf(pr) # {})
          /\ ~(\E x \in Releases(pr) : AtOrBefore(p, x))
      BY <1>3, <1>4
    <2>2. BindingError(pr, p) \in {"no_cutoff", "cutoff_too_long", "duplicate_key", "no"}
      BY <2>1 DEF BindingError
    <2> QED BY <1>2, <2>2
  <1>6. TypeOK' /\ DefensiveThrowsUnreachable'
    BY <1>1, <1>2, <1>5 DEF IInv, TypeOK, Errors, DefensiveThrowsUnreachable
  <1>7. RowsSeparated' /\ KeyUnique' /\ BindingsMatch' /\ AdmissionsMatch'
    BY <1>2, AdmissionsKept
       DEF IInv, RowsSeparated, Separated, KeyUnique, BindingsMatch, ActiveOf, Active
  <1>8. RowsInTime'
    BY <1>1, <1>2, RowsInTimeLater DEF IInv, RowsInTime
  <1> QED BY <1>6, <1>7, <1>8 DEF IInv

(* A new REGISTRATION_CUTOFF touches no binding and keeps the invariant.     *)
LEMMA ParamsStep ==
  ASSUME IInv, NEW c \in Cutoffs,
         NEW p \in EventPosition, Before(pos, p), wedged = "no",
         PricingParamsUpdated(c, p)
  PROVE  IInv'
  <1>1. p \in Position
    BY EventPositionType
  <1>2. /\ cutoff' = cutoff \cup {[value |-> c, at |-> p]}
        /\ pos' = p
        /\ UNCHANGED <<service_pair, admission, wedged, orchWallet, owner>>
    BY DEF PricingParamsUpdated, actor
  <1>3. TypeOK' /\ DefensiveThrowsUnreachable'
    BY <1>1, <1>2 DEF IInv, TypeOK, CutoffRow, DefensiveThrowsUnreachable
  <1>4. RowsSeparated' /\ KeyUnique' /\ BindingsMatch' /\ AdmissionsMatch'
    BY <1>2, AdmissionsKept
       DEF IInv, RowsSeparated, Separated, KeyUnique, BindingsMatch, ActiveOf, Active
  <1>5. RowsInTime'
    BY <1>1, <1>2, RowsInTimeLater DEF IInv, RowsInTime
  <1> QED BY <1>3, <1>4, <1>5 DEF IInv

(* The empty tables satisfy the invariant.                                  *)
LEMMA InitInvariant == Init => IInv
  <1> SUFFICES ASSUME Init PROVE IInv
    OBVIOUS
  <1>1. TypeOK
    BY DEF Init, TypeOK, Position, At
  <1> QED
    BY <1>1 DEF Init, IInv, RowsSeparated, RowsInTime, KeyUnique, BindingsMatch,
                ActiveOf, Active, AdmissionsMatch, Admitted, DefensiveThrowsUnreachable

(* Whatever log is handled, the invariant is kept.                          *)
LEMMA StepInvariant == IInv /\ [Next]_vars => IInv'
  <1> SUFFICES ASSUME IInv, [Next]_vars PROVE IInv'
    OBVIOUS
  <1>1. CASE UNCHANGED vars
    BY <1>1 DEF vars, IInv, TypeOK, RowsSeparated, Separated, RowsInTime, KeyUnique,
                BindingsMatch, ActiveOf, Active, AdmissionsMatch, Admitted,
                DefensiveThrowsUnreachable
  <1>2. ASSUME NEW p \in EventPosition, wedged = "no", Before(pos, p), Event(p)
        PROVE  IInv'
    <2>1. CASE \E o \in Orchestrators, w \in Wallets : OrchestratorAdmitted(o, w, p)
      BY <1>2, <2>1, AdmittedStep
    <2>2. CASE \E o \in Orchestrators, w \in Wallets : OrchestratorWalletReplaced(o, w, p)
      BY <1>2, <2>2, WalletReplacedStep
    <2>3. CASE \E o \in Orchestrators : OrchestratorRemoved(o, p)
      BY <1>2, <2>3, RemovedStep
    <2>4. CASE \E c \in Cutoffs : PricingParamsUpdated(c, p)
      BY <1>2, <2>4, ParamsStep
    <2>5. CASE \E o \in Orchestrators, pr \in Pairs : BindingDeclared(o, pr, p)
      BY <1>2, <2>5, DeclaredStep
    <2>6. CASE \E o \in Orchestrators, pr \in Pairs : BindingRejected(o, pr, p)
      BY <1>2, <2>6, RejectedStep
    <2>7. CASE \E o \in Orchestrators, pr \in Pairs, inherit \in BOOLEAN :
                 BindingReassigned(o, pr, p, inherit)
      BY <1>2, <2>7, ReassignedStep
    <2>8. CASE \E pr \in Pairs : BindingCanceled(pr, p)
      BY <1>2, <2>8, CanceledStep
    <2> QED
      BY <1>2, <2>1, <2>2, <2>3, <2>4, <2>5, <2>6, <2>7, <2>8 DEF Event
  <1> QED BY <1>1, <1>2 DEF Next

-----------------------------------------------------------------------------
(* The theorems.                                                           *)

(* The invariant holds in every reachable state.                           *)
THEOREM Invariant == Spec => []IInv
  BY InitInvariant, StepInvariant, PTL DEF Spec

(* Every table always holds rows of its type.                              *)
THEOREM TypeCorrect == Spec => []TypeOK
  <1>1. IInv => TypeOK
    BY DEF IInv
  <1> QED BY <1>1, Invariant, PTL

(* No payment counts twice: no position lies in two rows of one pair.      *)
THEOREM NoPaymentCountsTwice == Spec => []NoDoubleCredit
  <1>1. IInv => NoDoubleCredit
    <2> SUFFICES ASSUME IInv,
                        NEW r \in service_pair, NEW s \in service_pair,
                        r # s, r.pair = s.pair,
                        NEW x \in {r.from, s.from}
                 PROVE  ~(Covers(r, x) /\ Covers(s, x))
      BY DEF NoDoubleCredit
    <2>1. Separated(r, s)
      BY DEF IInv, RowsSeparated
    <2>2. /\ r \in PairRow /\ s \in PairRow
          /\ x \in Position
      BY DEF IInv, TypeOK, PairRow
    <2> QED
      BY <2>1, <2>2 DEF Separated, Covers, PairRow, Before, AtOrBefore, Position
  <1> QED BY <1>1, Invariant, PTL

(* The open rows of both tables always are what the actor has in force.    *)
THEOREM TablesFollowActor == Spec => []TablesMatchActor
  <1>1. IInv => TablesMatchActor
    <2> SUFFICES ASSUME IInv PROVE TablesMatchActor
      OBVIOUS
    <2>1. \A r \in Active(service_pair) :
            r.pair \in Pairs /\ r.orch \in Orchestrators /\ r.orch = owner[r.pair]
      BY DEF IInv, TypeOK, PairRow, Active, BindingsMatch
    <2>2. \A a \in Active(admission) :
            a.orch \in Orchestrators /\ a.wallet \in Wallets
            /\ a.wallet = orchWallet[a.orch]
      BY DEF IInv, TypeOK, AdmissionRow, Active, AdmissionsMatch
    <2>3. \A pr \in Pairs : owner[pr] # None =>
            \E r \in Active(service_pair) : r.pair = pr
      BY DEF IInv, BindingsMatch, ActiveOf
    <2>4. \A o \in Orchestrators : Admitted(o) =>
            \E a \in Active(admission) : a.orch = o
      BY DEF IInv, AdmissionsMatch
    <2>5. {<<r.pair, r.orch>> : r \in Active(service_pair)} =
            {<<pr, owner[pr]>> : pr \in {q \in Pairs : owner[q] # None}}
      BY <2>1, <2>3, ServicePairsAssumption
    <2>6. {<<a.orch, a.wallet>> : a \in Active(admission)} =
            {<<o, orchWallet[o]>> : o \in {q \in Orchestrators : Admitted(q)}}
      BY <2>2, <2>4, ServicePairsAssumption DEF Admitted
    <2> QED BY <2>5, <2>6 DEF TablesMatchActor
  <1> QED BY <1>1, Invariant, PTL

(* The unique keys of the tables hold whatever the actor emits.            *)
THEOREM KeysHold == Spec => []KeysUnique
  <1>1. IInv => KeysUnique
    BY OneOpenRow DEF IInv, KeysUnique, KeyUnique, AdmissionsMatch, Active
  <1> QED BY <1>1, Invariant, PTL

(* The consistency checks of createBinding never stop the indexer.         *)
THEOREM ConsistencyChecksHold == Spec => []DefensiveThrowsUnreachable
  <1>1. IInv => DefensiveThrowsUnreachable
    BY DEF IInv
  <1> QED BY <1>1, Invariant, PTL

(* History is kept: no event changes a row that has ended.                 *)
THEOREM HistoryKept == Spec => EndedRowsKept
  <1> DEFINE Kept ==
        /\ service_pair \ Active(service_pair) \subseteq service_pair'
        /\ admission \ Active(admission) \subseteq admission'
  <1>1. [Next]_vars => [Kept]_vars
    <2> SUFFICES ASSUME NEW p \in EventPosition, Event(p) PROVE Kept
      BY DEF Next
    <2>1. ASSUME NEW S \in SUBSET Active(service_pair),
                 service_pair' = EndBindings(S, p)
          PROVE  service_pair \ Active(service_pair) \subseteq service_pair'
      BY <2>1 DEF EndBindings
    <2>2. ASSUME NEW o \in Orchestrators, NEW w \in Wallets,
                 OrchestratorAdmitted(o, w, p)
          PROVE  Kept
      BY <2>2 DEF OrchestratorAdmitted
    <2>3. ASSUME NEW o \in Orchestrators, NEW w \in Wallets,
                 OrchestratorWalletReplaced(o, w, p)
          PROVE  Kept
      BY <2>3 DEF OrchestratorWalletReplaced
    <2>4. ASSUME NEW o \in Orchestrators, OrchestratorRemoved(o, p)
          PROVE  Kept
      BY <2>1, <2>4 DEF OrchestratorRemoved
    <2>5. ASSUME NEW c \in Cutoffs, PricingParamsUpdated(c, p)
          PROVE  Kept
      BY <2>5 DEF PricingParamsUpdated
    <2>6. ASSUME NEW o \in Orchestrators, NEW pr \in Pairs,
                 BindingDeclared(o, pr, p) \/ BindingRejected(o, pr, p)
          PROVE  Kept
      BY <2>6 DEF BindingDeclared, BindingRejected, tables
    <2>7. ASSUME NEW o \in Orchestrators, NEW pr \in Pairs, NEW inherit \in BOOLEAN,
                 BindingReassigned(o, pr, p, inherit)
          PROVE  Kept
      BY <2>7 DEF BindingReassigned, Reassigned, ActiveOf, Active
    <2>8. ASSUME NEW pr \in Pairs, BindingCanceled(pr, p)
          PROVE  Kept
      <3>1. {r \in ActiveOf(pr) : r.orch = owner[pr]} \in SUBSET Active(service_pair)
        BY DEF ActiveOf
      <3> QED BY <2>1, <2>8, <3>1 DEF BindingCanceled
    <2> QED
      BY <2>2, <2>3, <2>4, <2>5, <2>6, <2>7, <2>8 DEF Event
  <1> QED BY <1>1, PTL DEF Spec, EndedRowsKept

-----------------------------------------------------------------------------
(* Closed quarters.                                                        *)

(* What lies in an earlier quarter lies before the quarter an event acts   *)
(* on.                                                                     *)
LEMMA EarlierPosition ==
  ASSUME NEW x \in Position, NEW p \in Position,
         QuarterOf(x.epoch) < QuarterOf(p.epoch)
  PROVE  /\ x.epoch < p.epoch
         /\ x.epoch < QuarterStart(EffectiveQuarter(p.epoch))
  <1>1. x.epoch \in Nat /\ p.epoch \in Nat
    BY DEF Position
  <1>2. QuarterOf(x.epoch) \in Int /\ QuarterOf(p.epoch) \in Int
    BY <1>1, QuarterBounds, CalendarAssumption DEF QuarterOf
  <1>3. ~(p.epoch <= x.epoch)
    BY <1>1, <1>2, QuarterMonotone
  <1>4. x.epoch <= p.epoch /\ QuarterOf(x.epoch) # QuarterOf(p.epoch)
    BY <1>1, <1>2, <1>3
  <1> QED BY <1>1, <1>3, <1>4, EarlierQuarter

(* Credit at x is decided by the rows that cover x.                        *)
LEMMA SameCover ==
  ASSUME NEW pr \in Pairs, NEW x \in Position,
         \A r \in service_pair : r.pair = pr /\ Covers(r, x) =>
           \E s \in service_pair' : s.pair = pr /\ Covers(s, x) /\ s.orch = r.orch,
         \A s \in service_pair' : s.pair = pr /\ Covers(s, x) =>
           \E r \in service_pair : r.pair = pr /\ Covers(r, x) /\ s.orch = r.orch
  PROVE  CreditedTo(pr, x)' = CreditedTo(pr, x)
  <1>1. CreditedTo(pr, x) =
          {r.orch : r \in {s \in service_pair : s.pair = pr /\ Covers(s, x)}}
    BY DEF CreditedTo, OfPair
  <1>2. CreditedTo(pr, x)' =
          {r.orch : r \in {s \in service_pair' : s.pair = pr /\ Covers(s, x)}}
    BY DEF CreditedTo, OfPair, Covers
  <1> QED BY <1>1, <1>2

(* Every row that is closed leaves a row with its pair, orchestrator and   *)
(* beginning.                                                              *)
LEMMA UnbindWitness ==
  ASSUME NEW rows \in SUBSET PairRow, NEW p, NEW r \in rows
  PROVE  \E c \in Unbind(rows, p) :
           c.pair = r.pair /\ c.orch = r.orch /\ c.from = r.from /\ c.to = p
  <1>1. [r EXCEPT !.to = p] \in Unbind(rows, p)
    BY DEF Unbind
  <1>2. /\ [r EXCEPT !.to = p].pair = r.pair /\ [r EXCEPT !.to = p].orch = r.orch
        /\ [r EXCEPT !.to = p].from = r.from /\ [r EXCEPT !.to = p].to = p
    BY DEF PairRow
  <1> QED BY <1>1, <1>2

(* Ending bindings at p does not change what an earlier position earns.    *)
LEMMA EndKeepsThePast ==
  ASSUME IInv, NEW p \in Position, NEW S \in SUBSET Active(service_pair),
         service_pair' = EndBindings(S, p),
         NEW pr \in Pairs, NEW x \in Position, Before(x, p)
  PROVE  CreditedTo(pr, x)' = CreditedTo(pr, x)
  <1> DEFINE closed == Unbind(S \ NotStarted(S, p), p)
  <1>1. service_pair' = (service_pair \ S) \cup closed
    BY DEF EndBindings
  <1>2. \A r \in S : r \in service_pair /\ r \in PairRow /\ r.to = None
    BY DEF IInv, TypeOK, Active
  <1>3. p # None
    BY ServicePairsAssumption
  <1>4. \A r \in S : ~Before(p, r.from) =>
          \E c \in closed : /\ c.pair = r.pair /\ c.orch = r.orch
                            /\ c.from = r.from /\ c.to = p
    <2>1. S \ NotStarted(S, p) \in SUBSET PairRow
      BY <1>2
    <2>2. \A r \in S : ~Before(p, r.from) => r \in S \ NotStarted(S, p)
      BY DEF NotStarted
    <2> QED BY <2>1, <2>2, UnbindWitness
  <1>5. \A c \in closed : \E r \in S :
          c.pair = r.pair /\ c.orch = r.orch /\ c.from = r.from /\ c.to = p
    BY <1>2 DEF Unbind, NotStarted, PairRow
  <1>6. \A r \in S : Before(p, r.from) => ~Covers(r, x)
    BY <1>2 DEF Covers, Before, AtOrBefore, Position, PairRow
  <1>7. \A r \in S : Covers(r, x) <=> AtOrBefore(r.from, x)
    BY <1>2 DEF Covers
  <1>8. \A c \in closed : Covers(c, x) <=> AtOrBefore(c.from, x)
    BY <1>3, <1>5 DEF Covers, Before, AtOrBefore, Position
  <1> HIDE DEF closed
  <1>9. \A r \in service_pair : r.pair = pr /\ Covers(r, x) =>
           \E s \in service_pair' : s.pair = pr /\ Covers(s, x) /\ s.orch = r.orch
    <2> SUFFICES ASSUME NEW r \in service_pair, r.pair = pr, Covers(r, x)
                 PROVE  \E s \in service_pair' :
                          s.pair = pr /\ Covers(s, x) /\ s.orch = r.orch
      OBVIOUS
    <2>1. CASE r \in S
      <3>1. ~Before(p, r.from) /\ AtOrBefore(r.from, x)
        BY <1>6, <1>7, <2>1
      <3> QED BY <1>1, <1>4, <1>8, <2>1, <3>1
    <2>2. CASE r \notin S
      BY <1>1, <2>2
    <2> QED BY <2>1, <2>2
  <1>10. \A s \in service_pair' : s.pair = pr /\ Covers(s, x) =>
           \E r \in service_pair : r.pair = pr /\ Covers(r, x) /\ s.orch = r.orch
    BY <1>1, <1>2, <1>5, <1>7, <1>8
  <1> QED BY <1>9, <1>10, SameCover

(* A new row that begins after x changes nothing at x.                     *)
LEMMA LaterRowKeepsThePast ==
  ASSUME NEW o, NEW pr \in Pairs, NEW from \in Position,
         service_pair' = service_pair \cup {Bind(o, pr, from)},
         NEW q \in Pairs, NEW x \in Position, Before(x, from)
  PROVE  CreditedTo(q, x)' = CreditedTo(q, x)
  <1>1. ~Covers(Bind(o, pr, from), x)
    BY DEF Covers, Bind, Before, AtOrBefore, Position
  <1> QED BY <1>1, SameCover

(* A declaration acts backwards, but never into a quarter before its own.   *)
LEMMA DeclaredAfterClosedQuarters ==
  ASSUME IInv, NEW p \in Position, Before(pos, p),
         NEW pr \in Pairs, NEW from \in DeclaredFrom(pr, p),
         NEW x \in Position, QuarterOf(x.epoch) < QuarterOf(p.epoch)
  PROVE  from \in Position /\ Before(x, from)
  <1> DEFINE q     == EffectiveQuarter(p.epoch)
             start == At(QuarterStart(q), 0)
  <1>1. /\ p.epoch \in Nat /\ x.epoch \in Nat
        /\ QuarterStart(q) \in Nat /\ QuarterEnd(q) \in Nat
        /\ p.epoch <= QuarterEnd(q)
    BY EffectiveQuarterBounds DEF Position
  <1>2. x.epoch < p.epoch /\ x.epoch < QuarterStart(q)
    BY EarlierPosition
  <1>3. start \in Position /\ Before(x, start)
    BY <1>1, <1>2 DEF Position, At, Before
  <1>4. CASE InCutoff(p)
    <2>1. from = At(QuarterEnd(q) + 1, 0)
      BY <1>4 DEF DeclaredFrom
    <2> QED BY <1>1, <1>2, <2>1 DEF Position, At, Before
  <1>5. CASE ~InCutoff(p) /\ Releases(pr) = {}
    <2>1. from = start
      BY <1>5 DEF DeclaredFrom
    <2> QED BY <1>3, <2>1
  <1>6. CASE ~InCutoff(p) /\ Releases(pr) # {}
    <2>1. PICK y \in PreviousRelease(pr) :
            from = IF QuarterOf(y.epoch) # QuarterOf(p.epoch) THEN start ELSE NextLog(y)
      BY <1>6 DEF DeclaredFrom
    <2>2. y \in Position
      BY <2>1 DEF PreviousRelease, Releases, OfPair, IInv, TypeOK, PairRow
    <2>3. CASE QuarterOf(y.epoch) # QuarterOf(p.epoch)
      BY <1>3, <2>1, <2>3
    <2>4. CASE QuarterOf(y.epoch) = QuarterOf(p.epoch)
      <3>1. x.epoch < y.epoch
        BY <2>2, <2>4, EarlierPosition
      <3> QED BY <2>1, <2>2, <2>4, <3>1, NextLogType DEF Before, NextLog, At
    <2> QED BY <2>3, <2>4
  <1> QED BY <1>4, <1>5, <1>6

(* An heir takes over only what lies in the quarter of the event.          *)
LEMMA ReassignedKeepsThePast ==
  ASSUME IInv, NEW o \in Orchestrators, NEW pr \in Pairs, NEW inherit \in BOOLEAN,
         NEW p \in Position, service_pair' = Reassigned(o, pr, p, inherit),
         NEW q \in Pairs, NEW x \in Position, QuarterOf(x.epoch) < QuarterOf(p.epoch)
  PROVE  CreditedTo(q, x)' = CreditedTo(q, x)
  <1> DEFINE start  == QuarterStart(EffectiveQuarter(p.epoch))
             recent == {r \in ActiveOf(pr) : r.from.epoch >= start}
             heirs  == {[r EXCEPT !.orch = o] : r \in recent}
  <1>1. /\ x.epoch < p.epoch /\ x.epoch < start
        /\ x.epoch \in Nat /\ p.epoch \in Nat /\ start \in Nat
    BY EarlierPosition, EffectiveQuarterBounds DEF Position
  <1>2. \A r \in ActiveOf(pr) : r \in service_pair /\ r \in PairRow /\ r.to = None
    BY DEF ActiveOf, Active, IInv, TypeOK
  <1>3. CASE inherit /\ recent # {}
    <2>1. service_pair' = (service_pair \ recent) \cup heirs
      BY <1>3 DEF Reassigned
    <2>2. \A r \in recent : ~Covers(r, x)
      BY <1>1, <1>2 DEF Covers, AtOrBefore, PairRow, Position
    <2>3. \A s \in heirs : ~Covers(s, x)
      <3> SUFFICES ASSUME NEW r \in recent PROVE ~Covers([r EXCEPT !.orch = o], x)
        OBVIOUS
      <3>1. [r EXCEPT !.orch = o].from = r.from
        BY <1>2 DEF PairRow
      <3>2. r.from.epoch >= start /\ r.from \in Position
        BY <1>2 DEF PairRow
      <3> QED BY <1>1, <3>1, <3>2 DEF Covers, AtOrBefore, Position
    <2> HIDE DEF recent, heirs
    <2> QED BY <2>1, <2>2, <2>3, SameCover
  <1>4. CASE ~(inherit /\ recent # {})
    <2> DEFINE ended == Unbind(ActiveOf(pr), p)
               row   == Bind(o, pr, NextLog(p))
    <2>1. service_pair' = (service_pair \ ActiveOf(pr)) \cup ended \cup {row}
      BY <1>4 DEF Reassigned
    <2>2. \A r \in ActiveOf(pr) : \E c \in ended :
            c.pair = r.pair /\ c.orch = r.orch /\ c.from = r.from /\ c.to = p
      <3>1. ActiveOf(pr) \in SUBSET PairRow
        BY <1>2
      <3> QED BY <3>1, UnbindWitness
    <2>3. \A c \in ended : \E r \in ActiveOf(pr) :
            c.pair = r.pair /\ c.orch = r.orch /\ c.from = r.from /\ c.to = p
      BY <1>2 DEF Unbind, PairRow
    <2>4. p # None
      BY ServicePairsAssumption
    <2>5. \A r \in ActiveOf(pr) : Covers(r, x) <=> AtOrBefore(r.from, x)
      BY <1>2 DEF Covers
    <2>6. \A c \in ended : Covers(c, x) <=> AtOrBefore(c.from, x)
      BY <1>1, <2>3, <2>4 DEF Covers, AtOrBefore, Position
    <2>7. ~Covers(row, x)
      BY <1>1 DEF Covers, Bind, NextLog, At, AtOrBefore, Position
    <2> HIDE DEF ended, row
    <2>8. \A r \in service_pair : r.pair = q /\ Covers(r, x) =>
            \E s \in service_pair' : s.pair = q /\ Covers(s, x) /\ s.orch = r.orch
      <3> SUFFICES ASSUME NEW r \in service_pair, r.pair = q, Covers(r, x)
                   PROVE  \E s \in service_pair' :
                            s.pair = q /\ Covers(s, x) /\ s.orch = r.orch
        OBVIOUS
      <3>1. CASE r \in ActiveOf(pr)
        BY <2>1, <2>2, <2>5, <2>6, <3>1
      <3>2. CASE r \notin ActiveOf(pr)
        BY <2>1, <3>2
      <3> QED BY <3>1, <3>2
    <2>9. \A s \in service_pair' : s.pair = q /\ Covers(s, x) =>
            \E r \in service_pair : r.pair = q /\ Covers(r, x) /\ s.orch = r.orch
      BY <1>2, <2>1, <2>3, <2>5, <2>6, <2>7
    <2> QED BY <2>8, <2>9, SameCover
  <1> QED BY <1>3, <1>4

(* The volume of a closed quarter is final: events of a later quarter do   *)
(* not change who is credited at any of its positions, although late       *)
(* declarations and inheritance act on the past.                           *)
THEOREM ClosedQuartersFinal == Spec => ClosedQuartersFrozen
  <1> DEFINE Frozen ==
        \A pr \in Pairs, x \in EventPosition :
          QuarterOf(x.epoch) < QuarterOf(pos'.epoch)
            => CreditedTo(pr, x)' = CreditedTo(pr, x)
  <1>1. IInv /\ [Next]_vars => [Frozen]_vars
    <2> SUFFICES ASSUME IInv, wedged = "no",
                        NEW p \in EventPosition, Before(pos, p), Event(p),
                        NEW q \in Pairs, NEW x \in EventPosition,
                        pos' = p => QuarterOf(x.epoch) < QuarterOf(p.epoch)
                 PROVE  CreditedTo(q, x)' = CreditedTo(q, x)
      BY DEF Next
    <2>1. p \in Position /\ x \in Position
      BY EventPositionType
    <2>2. UNCHANGED service_pair => CreditedTo(q, x)' = CreditedTo(q, x)
      BY <2>1, SameCover
    <2>3. ASSUME NEW S \in SUBSET Active(service_pair), pos' = p,
                 service_pair' = EndBindings(S, p)
          PROVE  CreditedTo(q, x)' = CreditedTo(q, x)
      <3>1. Before(x, p)
        BY <2>1, <2>3, EarlierPosition DEF Before
      <3> QED BY <2>1, <2>3, <3>1, EndKeepsThePast
    <2>4. ASSUME NEW o \in Orchestrators, NEW w \in Wallets,
                 OrchestratorAdmitted(o, w, p) \/ OrchestratorWalletReplaced(o, w, p)
          PROVE  CreditedTo(q, x)' = CreditedTo(q, x)
      BY <2>2, <2>4 DEF OrchestratorAdmitted, OrchestratorWalletReplaced
    <2>5. ASSUME NEW o \in Orchestrators, OrchestratorRemoved(o, p)
          PROVE  CreditedTo(q, x)' = CreditedTo(q, x)
      BY <2>3, <2>5 DEF OrchestratorRemoved
    <2>6. ASSUME NEW c \in Cutoffs, PricingParamsUpdated(c, p)
          PROVE  CreditedTo(q, x)' = CreditedTo(q, x)
      BY <2>2, <2>6 DEF PricingParamsUpdated
    <2>7. ASSUME NEW o \in Orchestrators, NEW pr \in Pairs, BindingDeclared(o, pr, p)
          PROVE  CreditedTo(q, x)' = CreditedTo(q, x)
      <3>1. PICK from \in DeclaredFrom(pr, p) :
              service_pair' = service_pair \cup {Bind(o, pr, from)}
        BY <2>7 DEF BindingDeclared
      <3>2. QuarterOf(x.epoch) < QuarterOf(p.epoch)
        BY <2>7 DEF BindingDeclared
      <3>3. from \in Position /\ Before(x, from)
        BY <2>1, <3>2, DeclaredAfterClosedQuarters
      <3> QED BY <2>1, <3>1, <3>3, LaterRowKeepsThePast
    <2>8. ASSUME NEW o \in Orchestrators, NEW pr \in Pairs, BindingRejected(o, pr, p)
          PROVE  CreditedTo(q, x)' = CreditedTo(q, x)
      BY <2>2, <2>8 DEF BindingRejected, tables
    <2>9. ASSUME NEW o \in Orchestrators, NEW pr \in Pairs, NEW inherit \in BOOLEAN,
                 BindingReassigned(o, pr, p, inherit)
          PROVE  CreditedTo(q, x)' = CreditedTo(q, x)
      BY <2>1, <2>9, ReassignedKeepsThePast DEF BindingReassigned
    <2>10. ASSUME NEW pr \in Pairs, BindingCanceled(pr, p)
           PROVE  CreditedTo(q, x)' = CreditedTo(q, x)
      <3>1. {r \in ActiveOf(pr) : r.orch = owner[pr]} \in SUBSET Active(service_pair)
        BY DEF ActiveOf
      <3> QED BY <2>3, <2>10, <3>1 DEF BindingCanceled
    <2> QED
      BY <2>4, <2>5, <2>6, <2>7, <2>8, <2>9, <2>10 DEF Event
  <1> QED BY <1>1, Invariant, PTL DEF Spec, ClosedQuartersFrozen

=============================================================================
