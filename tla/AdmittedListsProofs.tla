------------------------- MODULE AdmittedListsProofs -------------------------
(***************************************************************************)
(* Proofs about AdmittedLists, for every calendar, every set of contracts, *)
(* tokens and values, and every length of the chain.                       *)
(*                                                                         *)
(* Both tables are kept by the same updates, so the lemmas are about any   *)
(* such table.                                                             *)
(***************************************************************************)
EXTENDS AdmittedLists, CommonProofs

(* Of two rows of an entry one ended before the other begins.              *)
Separated(r, s) ==
  \/ r.to # None /\ Before(r.to, s.from)
  \/ s.to # None /\ Before(s.to, r.from)

(* A table of rows with entries in S, written by events up to p.           *)
Table(rows, S, p) ==
  /\ rows \subseteq RowOf(S)
  /\ \A r \in rows :
       /\ AtOrBefore(r.from, p)
       /\ r.to # None => Before(r.from, r.to) /\ AtOrBefore(r.to, p)
  /\ \A r, s \in rows : r # s /\ r.entry = s.entry => Separated(r, s)

(* Each quarter with a parameter has a last one.                           *)
LastOfQuarter ==
  \A c \in parameters : \E d \in parameters :
    /\ QuarterOf(d.at.epoch) = QuarterOf(c.at.epoch)
    /\ \A f \in parameters :
         QuarterOf(f.at.epoch) = QuarterOf(c.at.epoch) => AtOrBefore(f.at, d.at)

ParametersInTime == \A c \in parameters : AtOrBefore(c.at, pos)

(***************************************************************************)
(* InForceIsBoundaryList is not inductive alone: that an event changes     *)
(* only the quarters after its own needs the rows to lie in the past, and  *)
(* that new rows begin after everything the entry had.                     *)
(***************************************************************************)
IInv ==
  /\ TypeOK
  /\ Table(contracts, PayContracts, pos)
  /\ Table(tokens, Stablecoins \ NotERC20, pos)
  /\ ParametersInTime
  /\ LastOfQuarter
  /\ InForceIsBoundaryList

-----------------------------------------------------------------------------
(* Positions and quarters.                                                 *)

(* The two comparisons order positions as one expects.                     *)
LEMMA PositionOrder ==
  ASSUME NEW p \in Position, NEW q \in Position, NEW x \in Position
  PROVE  /\ AtOrBefore(p, q) /\ Before(q, x) => Before(p, x)
         /\ AtOrBefore(p, q) /\ AtOrBefore(q, x) => AtOrBefore(p, x)
         /\ Before(p, q) => AtOrBefore(p, q)
         /\ Before(p, q) => ~AtOrBefore(q, p)
         /\ AtOrBefore(p, p)
         /\ AtOrBefore(p, q) => p.epoch <= q.epoch
         /\ p.epoch \in Nat /\ q.epoch \in Nat
  BY DEF Position, Before, AtOrBefore

(* Quarters are numbers.                                                   *)
LEMMA QuarterType ==
  ASSUME NEW e \in Nat
  PROVE  QuarterOf(e) \in Nat
  BY QuarterBounds, CalendarAssumption DEF QuarterOf

(* Positions in order belong to quarters in order.                         *)
LEMMA PositionQuarters ==
  ASSUME NEW p \in Position, NEW q \in Position, AtOrBefore(p, q)
  PROVE  QuarterOf(p.epoch) <= QuarterOf(q.epoch)
  BY PositionOrder, QuarterMonotone

(* Events sit at positions of the chain.                                   *)
LEMMA EventPositionType == EventPosition \subseteq Position
  BY AdmittedListsAssumption DEF EventPosition, Position

(* Rows that have positions of their own are finitely many.                *)
LEMMA RowsFinite ==
  ASSUME NEW rows,
         \A r \in rows : r.at \in EventPosition,
         \A r, s \in rows : r.at = s.at => r = s
  PROVE  IsFiniteSet(rows)
  <1> DEFINE E == (0 .. MaxEpoch) \X (0 .. MaxLog)
             f == [r \in rows |-> <<r.at.epoch, r.at.log>>]
  <1>1. IsFiniteSet(E)
    <2>1. /\ 0 \in Int /\ MaxEpoch \in Int /\ MaxLog \in Int
      BY AdmittedListsAssumption
    <2>2. IsFiniteSet(0 .. MaxEpoch) /\ IsFiniteSet(0 .. MaxLog)
      BY <2>1, FS_Interval
    <2> QED BY <2>2, FS_Product
  <1>2. f \in [rows -> E]
    BY DEF EventPosition
  <1>3. ASSUME NEW r \in rows, NEW s \in rows, f[r] = f[s] PROVE r = s
    <2>1. r.at.epoch = s.at.epoch /\ r.at.log = s.at.log
      BY <1>3
    <2>2. r.at = s.at
      BY <2>1 DEF EventPosition
    <2> QED BY <2>2
  <1>4. f \in Injection(rows, E)
    <2> HIDE DEF f, E
    <2> QED BY <1>2, <1>3 DEF Injection, IsInjective
  <1> QED BY <1>1, <1>4, FS_Injection

(* An epoch belongs to a quarter before q if it lies before q's beginning. *)
LEMMA BeforeQuarter ==
  ASSUME NEW e \in Nat, NEW q \in Nat \ {0}
  PROVE  QuarterOf(e) < q <=> e < QuarterStart(q)
  <1> DEFINE n == q - 1
  <1>1. n \in Nat /\ QuarterStart(q) = ACTIVATION_EPOCH + EPOCHS_PER_QUARTER * n
    BY DEF QuarterStart
  <1>2. EPOCHS_PER_QUARTER * n \in Nat
    BY <1>1, CalendarAssumption
  <1>3. CASE e < ACTIVATION_EPOCH
    <2>1. QuarterOf(e) = 0
      BY <1>3 DEF QuarterOf
    <2> HIDE DEF n
    <2> QED BY <1>1, <1>2, <1>3, <2>1, CalendarAssumption
  <1>4. CASE e >= ACTIVATION_EPOCH
    <2> DEFINE d == (e - ACTIVATION_EPOCH) \div EPOCHS_PER_QUARTER
    <2>1. e - ACTIVATION_EPOCH \in Nat
      BY <1>4, CalendarAssumption
    <2>2. /\ d \in Nat
          /\ EPOCHS_PER_QUARTER * d <= e - ACTIVATION_EPOCH
          /\ e - ACTIVATION_EPOCH < EPOCHS_PER_QUARTER * d + EPOCHS_PER_QUARTER
      BY <2>1, DivBounds, CalendarAssumption
    <2>3. QuarterOf(e) = d + 1
      BY <1>4, CalendarAssumption DEF QuarterOf
    <2>4. EPOCHS_PER_QUARTER * d \in Nat
      BY <2>2, CalendarAssumption
    <2>5. CASE d < n
      <3>1. EPOCHS_PER_QUARTER * d + EPOCHS_PER_QUARTER <= EPOCHS_PER_QUARTER * n
        BY <1>1, <2>2, <2>5, TimesMonotone, CalendarAssumption
      <3>2. QuarterOf(e) < q
        BY <1>1, <2>2, <2>3, <2>5
      <3> HIDE DEF n, d
      <3>3. e < QuarterStart(q)
        BY <1>1, <1>2, <2>2, <2>4, <3>1, CalendarAssumption
      <3> QED BY <3>2, <3>3
    <2>6. CASE n <= d
      <3>1. EPOCHS_PER_QUARTER * n <= EPOCHS_PER_QUARTER * d
        <4>1. CASE n = d
          BY <4>1, <2>4
        <4>2. CASE n < d
          <5>1. EPOCHS_PER_QUARTER * n + EPOCHS_PER_QUARTER <= EPOCHS_PER_QUARTER * d
            BY <1>1, <2>2, <4>2, TimesMonotone, CalendarAssumption
          <5> HIDE DEF n, d
          <5> QED BY <1>2, <2>4, <5>1, CalendarAssumption
        <4> QED BY <4>1, <4>2, <2>6, <1>1, <2>2
      <3>2. ~(QuarterOf(e) < q)
        BY <1>1, <2>2, <2>3, <2>6
      <3> HIDE DEF n, d
      <3>3. ~(e < QuarterStart(q))
        BY <1>1, <1>2, <2>2, <2>4, <3>1, CalendarAssumption
      <3> QED BY <3>2, <3>3
    <2> QED BY <2>5, <2>6, <1>1, <2>2
  <1> QED BY <1>3, <1>4, CalendarAssumption

-----------------------------------------------------------------------------
(* Tables.                                                                 *)

(* Closing rows keeps their entry and beginning, and ends them at p.       *)
LEMMA ClosedRows ==
  ASSUME NEW S, NEW rows \in SUBSET RowOf(S), NEW p
  PROVE  /\ \A c \in Closed(rows, p) : \E r \in rows :
              c.entry = r.entry /\ c.from = r.from /\ c.to = p
              /\ c = [entry |-> r.entry, from |-> r.from, to |-> p]
         /\ \A r \in rows : \E c \in Closed(rows, p) :
              c.entry = r.entry /\ c.from = r.from /\ c.to = p
  <1>1. ASSUME NEW c \in Closed(rows, p)
        PROVE  \E r \in rows :
                 c.entry = r.entry /\ c.from = r.from /\ c.to = p
                 /\ c = [entry |-> r.entry, from |-> r.from, to |-> p]
    <2>1. PICK r \in rows : c = [r EXCEPT !.to = p]
      BY DEF Closed
    <2>2. c = [entry |-> r.entry, from |-> r.from, to |-> p]
      BY <2>1 DEF RowOf
    <2> QED BY <2>2
  <1>2. ASSUME NEW r \in rows
        PROVE  \E c \in Closed(rows, p) :
                 c.entry = r.entry /\ c.from = r.from /\ c.to = p
    <2>1. [r EXCEPT !.to = p] \in Closed(rows, p)
      BY DEF Closed
    <2>2. [r EXCEPT !.to = p] = [entry |-> r.entry, from |-> r.from, to |-> p]
      BY DEF RowOf
    <2> QED BY <2>1, <2>2
  <1> QED BY <1>1, <1>2

(* An update leaves a table.                                               *)
LEMMA UpdatedTable ==
  ASSUME NEW S, NEW rows, NEW list \in SUBSET S,
         NEW x \in Position, NEW p \in Position, Before(x, p),
         Table(rows, S, x)
  PROVE  Table(Updated(rows, list, p), S, p)
  <1> DEFINE removed == {r \in Open(rows) : r.entry \notin list}
             added   == list \ Entries(Open(rows))
             closed  == Closed(removed, p)
             new     == {Row(e, p) : e \in added}
  <1>1. Updated(rows, list, p) = (rows \ removed) \cup closed \cup new
    BY DEF Updated
  <1>2. p # None /\ None \notin Position
    BY AdmittedListsAssumption
  <1>3. \A r \in rows : /\ r \in RowOf(S) /\ r.entry \in S /\ r.from \in Position
                        /\ r.to # None => r.to \in Position
                        /\ Before(r.from, p) /\ AtOrBefore(r.from, p)
                        /\ r.to # None => Before(r.from, r.to) /\ Before(r.to, p)
                                          /\ AtOrBefore(r.to, p)
    <2> SUFFICES ASSUME NEW r \in rows
                 PROVE  /\ r \in RowOf(S) /\ r.entry \in S /\ r.from \in Position
                        /\ r.to # None => r.to \in Position
                        /\ Before(r.from, p) /\ AtOrBefore(r.from, p)
                        /\ r.to # None => Before(r.from, r.to) /\ Before(r.to, p)
                                          /\ AtOrBefore(r.to, p)
      OBVIOUS
    <2>1. /\ r \in RowOf(S) /\ r.entry \in S /\ r.from \in Position
          /\ r.to # None => r.to \in Position
      BY DEF Table, RowOf
    <2>2. Before(r.from, p) /\ AtOrBefore(r.from, p)
      BY <2>1, PositionOrder DEF Table
    <2>3. r.to # None => Before(r.from, r.to) /\ Before(r.to, p) /\ AtOrBefore(r.to, p)
      BY <2>1, PositionOrder DEF Table
    <2> QED BY <2>1, <2>2, <2>3
  <1>4. \A c \in closed : \E r \in removed :
          /\ c.entry = r.entry /\ c.from = r.from /\ c.to = p
          /\ c = [entry |-> r.entry, from |-> r.from, to |-> p]
          /\ r \in rows /\ r.to = None
    <2>1. removed \in SUBSET RowOf(S)
      BY <1>3 DEF Open
    <2>2. \A r \in removed : r \in rows /\ r.to = None
      BY DEF Open
    <2> QED BY <2>1, <2>2, ClosedRows
  <1>5. \A n \in new :
          /\ n.from = p /\ n.to = None /\ n.entry \in S /\ n.entry \in added
          /\ n \in RowOf(S)
          /\ n = Row(n.entry, p)
    BY DEF Row, RowOf
  <1>6. \A n \in new, r \in rows : n.entry = r.entry => r.to # None
    BY <1>5 DEF Open, Entries
  <1> HIDE DEF closed, new
  <1>7. Updated(rows, list, p) \subseteq RowOf(S)
    <2>1. closed \subseteq RowOf(S)
      BY <1>3, <1>4 DEF RowOf
    <2> QED BY <1>1, <1>3, <1>5, <2>1
  <1>8. ASSUME NEW r \in Updated(rows, list, p)
        PROVE  /\ AtOrBefore(r.from, p)
               /\ r.to # None => Before(r.from, r.to) /\ AtOrBefore(r.to, p)
    <2>1. AtOrBefore(p, p)
      BY PositionOrder
    <2>2. CASE r \in rows \ removed
      BY <1>3, <2>2
    <2>3. CASE r \in closed
      <3>1. PICK w \in removed : r.from = w.from /\ r.to = p /\ w \in rows
        BY <1>4, <2>3
      <3> QED BY <1>3, <2>1, <3>1
    <2>4. CASE r \in new
      BY <1>5, <2>1, <2>4
    <2> QED BY <1>1, <2>2, <2>3, <2>4
  <1>9. ASSUME NEW r \in Updated(rows, list, p), NEW s \in Updated(rows, list, p),
               r # s, r.entry = s.entry
        PROVE  Separated(r, s)
    <2>1. ASSUME NEW u \in rows, NEW v \in rows, u # v, u.entry = v.entry
          PROVE  Separated(u, v)
      BY <2>1 DEF Table
    <2>2. ASSUME NEW u \in closed, NEW v \in rows \ removed, u.entry = v.entry
          PROVE  Separated(u, v)
      <3>1. PICK w \in removed : /\ u.entry = w.entry /\ u.from = w.from
                                 /\ w \in rows /\ w.to = None
        BY <1>4, <2>2
      <3>2. Separated(w, v)
        BY <2>1, <2>2, <3>1
      <3> QED BY <3>1, <3>2 DEF Separated
    <2>3. ASSUME NEW u \in closed, NEW v \in closed, u.entry = v.entry
          PROVE  u = v
      <3>1. PICK w \in removed : /\ u = [entry |-> w.entry, from |-> w.from, to |-> p]
                                 /\ u.entry = w.entry /\ w \in rows /\ w.to = None
        BY <1>4
      <3>2. PICK z \in removed : /\ v = [entry |-> z.entry, from |-> z.from, to |-> p]
                                 /\ v.entry = z.entry /\ z \in rows /\ z.to = None
        BY <1>4
      <3>3. w = z
        BY <2>1, <2>3, <3>1, <3>2 DEF Separated
      <3> QED BY <3>1, <3>2, <3>3
    <2>4. ASSUME NEW u \in new, NEW v \in rows \ removed, u.entry = v.entry
          PROVE  Separated(u, v)
      <3>1. v.to # None /\ Before(v.to, p) /\ u.from = p
        BY <1>3, <1>5, <1>6, <2>4
      <3> QED BY <3>1 DEF Separated
    <2>5. ASSUME NEW u \in new, NEW v \in closed
          PROVE  u.entry # v.entry
      BY <1>4, <1>6
    <2>6. ASSUME NEW u \in new, NEW v \in new, u.entry = v.entry
          PROVE  u = v
      BY <1>5, <2>6
    <2>7. \A u, v : Separated(u, v) <=> Separated(v, u)
      BY DEF Separated
    <2>8. CASE r \in rows \ removed
      BY <1>1, <1>9, <2>1, <2>2, <2>4, <2>7, <2>8
    <2>9. CASE r \in closed
      BY <1>1, <1>9, <2>2, <2>3, <2>5, <2>9
    <2>10. CASE r \in new
      BY <1>1, <1>9, <2>4, <2>5, <2>6, <2>10
    <2> QED BY <1>1, <2>8, <2>9, <2>10
  <1> QED BY <1>7, <1>8, <1>9 DEF Table

(* An update does not change what applies in the quarters up to its own.   *)
LEMMA UpdatedKeepsQuarters ==
  ASSUME NEW S, NEW rows, NEW list \in SUBSET S,
         NEW x \in Position, NEW p \in Position, Before(x, p),
         Table(rows, S, x),
         NEW q \in Nat, q <= QuarterOf(p.epoch)
  PROVE  InForce(Updated(rows, list, p), q) = InForce(rows, q)
  <1> DEFINE removed == {r \in Open(rows) : r.entry \notin list}
             added   == list \ Entries(Open(rows))
             closed  == Closed(removed, p)
             new     == {Row(e, p) : e \in added}
  <1>1. Updated(rows, list, p) = (rows \ removed) \cup closed \cup new
    BY DEF Updated
  <1>2. p # None /\ QuarterOf(p.epoch) \in Nat
    BY AdmittedListsAssumption, PositionOrder, QuarterType
  <1>3. \A r \in removed : r \in rows /\ r.to = None
    BY DEF Open
  <1>4. /\ \A c \in closed : \E r \in removed :
             c.entry = r.entry /\ c.from = r.from /\ c.to = p
        /\ \A r \in removed : \E c \in closed :
             c.entry = r.entry /\ c.from = r.from /\ c.to = p
    <2>1. removed \in SUBSET RowOf(S)
      BY DEF Open, Table
    <2> HIDE DEF removed
    <2>2. \A c \in closed : \E r \in removed :
            c.entry = r.entry /\ c.from = r.from /\ c.to = p
      BY <2>1, ClosedRows
    <2>3. \A r \in removed : \E c \in closed :
            c.entry = r.entry /\ c.from = r.from /\ c.to = p
      BY <2>1, ClosedRows
    <2> QED BY <2>2, <2>3
  <1>5. \A n \in new : ~AppliesIn(n, q)
    <2>1. ~(QuarterOf(p.epoch) < q)
      BY <1>2
    <2> QED BY <2>1 DEF AppliesIn, Row
  <1> HIDE DEF removed, closed, new
  <1>6. \A c \in closed : AppliesIn(c, q) <=>
          QuarterOf(c.from.epoch) < q
    BY <1>2, <1>4 DEF AppliesIn
  <1>7. \A r \in removed : AppliesIn(r, q) <=> QuarterOf(r.from.epoch) < q
    BY <1>3 DEF AppliesIn
  <1>8. ASSUME NEW r \in rows, AppliesIn(r, q)
        PROVE  \E c \in Updated(rows, list, p) : AppliesIn(c, q) /\ c.entry = r.entry
    <2>1. CASE r \in removed
      BY <1>1, <1>4, <1>6, <1>7, <1>8, <2>1
    <2>2. CASE r \notin removed
      BY <1>1, <1>8, <2>2
    <2> QED BY <2>1, <2>2
  <1>9. ASSUME NEW c \in Updated(rows, list, p), AppliesIn(c, q)
        PROVE  \E r \in rows : AppliesIn(r, q) /\ r.entry = c.entry
    <2>1. CASE c \in rows
      BY <1>9, <2>1
    <2>2. CASE c \in closed
      BY <1>3, <1>4, <1>6, <1>7, <1>9, <2>2
    <2>3. CASE c \in new
      BY <1>5, <1>9, <2>3
    <2> QED BY <1>1, <2>1, <2>2, <2>3
  <1> QED BY <1>8, <1>9 DEF InForce, Entries

(* In every quarter after its own, the published list applies.             *)
LEMMA UpdatedAppliesNext ==
  ASSUME NEW S, NEW rows, NEW list \in SUBSET S,
         NEW x \in Position, NEW p \in Position, Before(x, p),
         Table(rows, S, x),
         NEW q \in Nat, QuarterOf(p.epoch) < q
  PROVE  InForce(Updated(rows, list, p), q) = list
  <1> DEFINE removed == {r \in Open(rows) : r.entry \notin list}
             added   == list \ Entries(Open(rows))
             closed  == Closed(removed, p)
             new     == {Row(e, p) : e \in added}
             after   == Updated(rows, list, p)
  <1>1. after = (rows \ removed) \cup closed \cup new
    BY DEF Updated
  <1>2. p # None /\ QuarterOf(p.epoch) \in Nat
    BY AdmittedListsAssumption, PositionOrder, QuarterType
  <1>3. Table(after, S, p)
    BY UpdatedTable
  <1>4. \A r \in after : r.from \in Position /\ (r.to # None => r.to \in Position)
    BY <1>3 DEF Table, RowOf
  <1>5. ASSUME NEW r \in after
        PROVE  AppliesIn(r, q) <=> r.to = None
    <2>1. /\ r.from \in Position /\ AtOrBefore(r.from, p)
          /\ r.to # None => r.to \in Position /\ AtOrBefore(r.to, p)
      BY <1>3, <1>4 DEF Table
    <2>2. QuarterOf(r.from.epoch) <= QuarterOf(p.epoch) /\ QuarterOf(r.from.epoch) \in Nat
      BY <2>1, PositionQuarters, PositionOrder, QuarterType
    <2>3. r.to # None => QuarterOf(r.to.epoch) <= QuarterOf(p.epoch)
                         /\ QuarterOf(r.to.epoch) \in Nat
      BY <2>1, PositionQuarters, PositionOrder, QuarterType
    <2> QED BY <1>2, <2>2, <2>3 DEF AppliesIn
  <1>6. InForce(after, q) = Entries(Open(after))
    BY <1>5 DEF InForce, Open
  <1>7. \A c \in closed : c.to = p
    <2>1. removed \in SUBSET RowOf(S)
      BY DEF Open, Table
    <2> QED BY <2>1, ClosedRows
  <1>8. \A e \in added : Row(e, p) \in new /\ Row(e, p).to = None /\ Row(e, p).entry = e
    BY DEF Row
  <1>9. \A n \in new : n.to = None /\ n.entry \in added
    BY DEF Row
  <1>10. Entries(Open(after)) \subseteq list
    <2> SUFFICES ASSUME NEW r \in after, r.to = None
                 PROVE  r.entry \in list
      BY DEF Entries, Open
    <2>1. CASE r \in rows \ removed
      BY <2>1 DEF Open
    <2>2. CASE r \in closed
      BY <1>2, <1>7, <2>2
    <2>3. CASE r \in new
      BY <1>9, <2>3
    <2> HIDE DEF removed, closed, new, after
    <2> QED BY <1>1, <2>1, <2>2, <2>3
  <1>11. ASSUME NEW e \in list
         PROVE  \E r \in after : r.to = None /\ r.entry = e
    <2>1. CASE e \in added
      BY <1>1, <1>8, <2>1
    <2>2. CASE e \notin added
      <3>1. PICK r \in Open(rows) : r.entry = e
        BY <2>2 DEF Entries
      <3>2. r \in rows \ removed /\ r.to = None
        BY <3>1 DEF Open
      <3> HIDE DEF removed, closed, new, after
      <3> QED BY <1>1, <3>1, <3>2
    <2> QED BY <2>1, <2>2
  <1> HIDE DEF after
  <1>12. list \subseteq Entries(Open(after))
    BY <1>11 DEF Entries, Open
  <1> QED BY <1>6, <1>10, <1>12 DEF after

(* The rule of the SQL function leaves out no row that could apply: two    *)
(* rows of an entry that begin in one quarter do not both outlive it.      *)
LEMMA SqlRule ==
  ASSUME NEW S, NEW rows, NEW x \in Position, Table(rows, S, x),
         NEW q \in Nat
  PROVE  SqlInForce(rows, q) = InForce(rows, q)
  <1>1. \A r \in rows : /\ r.from \in Position /\ r.from.epoch \in Nat
                        /\ r.to # None => r.to \in Position /\ Before(r.from, r.to)
    BY DEF Table, RowOf, Position
  <1>2. SqlRows(rows) \subseteq rows
    BY DEF SqlRows, Lasting
  <1>3. ASSUME NEW r \in rows, AppliesIn(r, q)
        PROVE  r \in SqlRows(rows)
    <2>1. /\ QuarterOf(r.from.epoch) \in Nat
          /\ r.to # None => QuarterOf(r.to.epoch) \in Nat
      BY <1>1, PositionOrder, QuarterType
    <2>2. r \in Lasting(rows)
      BY <1>3, <2>1 DEF AppliesIn, Lasting
    <2>3. ASSUME NEW s \in Lasting(rows), s.entry = r.entry,
                 QuarterOf(s.from.epoch) = QuarterOf(r.from.epoch)
          PROVE  AtOrBefore(s.from, r.from)
      <3>1. s \in rows /\ s.from \in Position
        BY <1>1 DEF Lasting
      <3>2. CASE s = r
        BY <1>1, <3>2, PositionOrder
      <3>3. CASE s.to # None /\ Before(s.to, r.from)
        <4>1. s.to \in Position /\ Before(s.from, s.to)
          BY <1>1, <3>1, <3>3
        <4> QED BY <1>1, <3>1, <3>3, <4>1, PositionOrder
      <3>4. CASE r.to # None /\ Before(r.to, s.from)
        <4>1. r.to \in Position /\ AtOrBefore(r.to, s.from)
          BY <1>1, <3>1, <3>4, PositionOrder
        <4>2. QuarterOf(r.to.epoch) <= QuarterOf(r.from.epoch)
          BY <2>3, <3>1, <4>1, PositionQuarters
        <4>3. QuarterOf(r.to.epoch) > QuarterOf(r.from.epoch)
          BY <2>2, <3>4 DEF Lasting
        <4> QED BY <2>1, <3>4, <4>2, <4>3
      <3> QED BY <2>3, <3>1, <3>2, <3>3, <3>4 DEF Table, Separated
    <2> QED BY <2>2, <2>3 DEF SqlRows
  <1> QED BY <1>2, <1>3 DEF SqlInForce, InForce, Entries

(* No position is covered by two rows of an entry.                         *)
LEMMA OneRowCovers ==
  ASSUME NEW S, NEW rows, NEW x \in Position, Table(rows, S, x),
         NEW r \in rows, NEW s \in rows, r.entry = s.entry, r # s,
         NEW y \in Position
  PROVE  ~(Covers(r, y) /\ Covers(s, y))
  <1>1. /\ r.from \in Position /\ s.from \in Position
        /\ r.to # None => r.to \in Position
        /\ s.to # None => s.to \in Position
    BY DEF Table, RowOf
  <1>2. CASE r.to # None /\ Before(r.to, s.from)
    BY <1>1, <1>2, PositionOrder DEF Covers
  <1>3. CASE s.to # None /\ Before(s.to, r.from)
    BY <1>1, <1>3, PositionOrder DEF Covers
  <1> QED BY <1>2, <1>3 DEF Table, Separated

-----------------------------------------------------------------------------
(* The invariant.                                                          *)

(* Quarters are numbers from 1.                                            *)
LEMMA QuartersType == Quarters \subseteq Nat \ {0}
  <1>1. QuarterOf(MaxEpoch) \in Nat
    BY AdmittedListsAssumption, QuarterType
  <1> QED BY <1>1 DEF Quarters

(* Nothing is admitted in the beginning, and no list was published.        *)
LEMMA InitInvariant == Init => IInv
  <1> SUFFICES ASSUME Init PROVE IInv
    OBVIOUS
  <1>1. TypeOK
    BY DEF Init, TypeOK, InOrder, Position, At, Lists
  <1>2. /\ Table(contracts, PayContracts, pos)
        /\ Table(tokens, Stablecoins \ NotERC20, pos)
        /\ ParametersInTime
        /\ LastOfQuarter
    BY DEF Init, Table, ParametersInTime, LastOfQuarter
  <1>3. InForceIsBoundaryList
    BY DEF Init, InForceIsBoundaryList, InForce, Entries
  <1> QED BY <1>1, <1>2, <1>3 DEF IInv

(* A table is of the type of its rows.                                     *)
LEMMA TableType ==
  ASSUME NEW S, NEW rows, NEW x, Table(rows, S, x)
  PROVE  rows \subseteq RowOf(S) /\ InOrder(rows)
  BY DEF Table, InOrder

(* Time passing over a table leaves a table.                               *)
LEMMA TableLater ==
  ASSUME NEW S, NEW rows, NEW x \in Position, NEW p \in Position, Before(x, p),
         Table(rows, S, x)
  PROVE  Table(rows, S, p)
  <1>1. ASSUME NEW y \in Position, AtOrBefore(y, x)
        PROVE  AtOrBefore(y, p)
    BY <1>1, PositionOrder
  <1>2. \A r \in rows : r.from \in Position /\ (r.to # None => r.to \in Position)
    BY DEF Table, RowOf
  <1> QED BY <1>1, <1>2 DEF Table

(* Steps that are no business of the lists.                                *)
LEMMA ListsUntouched ==
  ASSUME IInv, UNCHANGED vars
  PROVE  IInv'
  BY DEF vars, IInv, TypeOK, Table, ParametersInTime, LastOfQuarter,
         InForceIsBoundaryList

(* Events of the actor that are no business of the lists.                  *)
LEMMA ListsLater ==
  ASSUME IInv, NEW p \in Position, Before(pos, p), pos' = p,
         UNCHANGED <<contracts, tokens, parameters, boundary>>
  PROVE  IInv'
  <1>1. pos \in Position
    BY DEF IInv, TypeOK
  <1>2. TypeOK'
    BY DEF IInv, TypeOK, RowOf
  <1>3. Table(contracts, PayContracts, pos)'
    BY <1>1, TableLater DEF IInv
  <1>4. Table(tokens, Stablecoins \ NotERC20, pos)'
    BY <1>1, TableLater DEF IInv
  <1>5. ParametersInTime'
    <2>1. \A c \in parameters : c.at \in Position /\ AtOrBefore(c.at, pos)
      BY DEF IInv, TypeOK, ParametersInTime
    <2> QED BY <1>1, <2>1, PositionOrder DEF ParametersInTime
  <1>6. LastOfQuarter' /\ InForceIsBoundaryList'
    BY DEF IInv, LastOfQuarter, InForceIsBoundaryList
  <1> QED BY <1>2, <1>3, <1>4, <1>5, <1>6 DEF IInv

(* Publishing lists keeps the invariant.                                   *)
LEMMA ListsInvariant ==
  ASSUME IInv, NEW p \in Position, Before(pos, p),
         NEW cs \in SUBSET PayContracts, NEW ts \in SUBSET Stablecoins,
         AdmittedListsUpdated(cs, ts, p)
  PROVE  IInv'
  <1> USE DEF IInv
  <1>1. /\ contracts' = Updated(contracts, cs, p)
        /\ tokens' = Updated(tokens, ts \ NotERC20, p)
        /\ pos' = p /\ parameters' = parameters
        /\ boundary' = [q \in Quarters |->
                          IF q > QuarterOf(p.epoch)
                          THEN [contracts |-> cs, tokens |-> ts]
                          ELSE boundary[q]]
    BY DEF AdmittedListsUpdated
  <1>2. pos \in Position /\ ts \ NotERC20 \in SUBSET (Stablecoins \ NotERC20)
    BY DEF TypeOK
  <1>3. Table(contracts', PayContracts, p)
    BY <1>1, <1>2, UpdatedTable
  <1>4. Table(tokens', Stablecoins \ NotERC20, p)
    BY <1>1, <1>2, UpdatedTable
  <1>5. boundary' \in [Quarters -> Lists]
    BY <1>1 DEF TypeOK, Lists
  <1>6. TypeOK'
    <2>1. contracts' \subseteq RowOf(PayContracts) /\ InOrder(contracts')
      BY <1>3, TableType
    <2>2. tokens' \subseteq RowOf(Stablecoins \ NotERC20) /\ InOrder(tokens')
      BY <1>4, TableType
    <2>3. parameters' \subseteq [value : Values, at : Position]
      BY <1>1 DEF TypeOK
    <2> QED BY <1>1, <1>5, <2>1, <2>2, <2>3 DEF TypeOK
  <1>7. ParametersInTime'
    <2>1. \A c \in parameters : c.at \in Position
      BY DEF TypeOK
    <2>2. \A c \in parameters : AtOrBefore(c.at, p)
      BY <1>2, <2>1, PositionOrder DEF ParametersInTime
    <2> QED BY <1>1, <2>2 DEF ParametersInTime
  <1>8. LastOfQuarter'
    BY <1>1 DEF LastOfQuarter
  <1>9. InForceIsBoundaryList'
    <2> SUFFICES ASSUME NEW q \in Quarters
                 PROVE  /\ InForce(contracts', q) = boundary'[q].contracts
                        /\ InForce(tokens', q) = boundary'[q].tokens \ NotERC20
      BY DEF InForceIsBoundaryList, InForce, Entries
    <2>1. q \in Nat /\ QuarterOf(p.epoch) \in Nat
      BY QuartersType, QuarterType, PositionOrder
    <2>2. CASE q > QuarterOf(p.epoch)
      <3>1. boundary'[q] = [contracts |-> cs, tokens |-> ts]
        BY <1>1, <2>2
      <3>2. InForce(contracts', q) = cs
        BY <1>1, <1>2, <2>1, <2>2, UpdatedAppliesNext
      <3>3. InForce(tokens', q) = ts \ NotERC20
        BY <1>1, <1>2, <2>1, <2>2, UpdatedAppliesNext
      <3> QED BY <3>1, <3>2, <3>3
    <2>3. CASE q <= QuarterOf(p.epoch)
      <3>1. boundary'[q] = boundary[q]
        BY <1>1, <2>1, <2>3
      <3>2. InForce(contracts', q) = InForce(contracts, q)
        BY <1>1, <1>2, <2>1, <2>3, UpdatedKeepsQuarters
      <3>3. InForce(tokens', q) = InForce(tokens, q)
        BY <1>1, <1>2, <2>1, <2>3, UpdatedKeepsQuarters
      <3> QED BY <3>1, <3>2, <3>3 DEF InForceIsBoundaryList
    <2> QED BY <2>1, <2>2, <2>3
  <1>10. Table(contracts, PayContracts, pos)'
    BY <1>1, <1>3
  <1>11. Table(tokens, Stablecoins \ NotERC20, pos)'
    BY <1>1, <1>4
  <1> QED BY <1>6, <1>7, <1>8, <1>9, <1>10, <1>11

(* New parameters keep the invariant: the latest row is the last of its    *)
(* quarter.                                                                *)
LEMMA ParametersInvariant ==
  ASSUME IInv, NEW p \in Position, Before(pos, p), NEW v \in Values,
         PricingParamsUpdated(v, p)
  PROVE  IInv'
  <1> USE DEF IInv
  <1> DEFINE n == [value |-> v, at |-> p]
  <1>1. /\ parameters' = parameters \cup {n}
        /\ pos' = p
        /\ contracts' = contracts /\ tokens' = tokens /\ boundary' = boundary
    BY DEF PricingParamsUpdated
  <1>2. pos \in Position /\ AtOrBefore(p, p)
    BY PositionOrder DEF TypeOK
  <1>3. TypeOK'
    <2>1. n \in [value : Values, at : Position]
      OBVIOUS
    <2> HIDE DEF n
    <2>2. parameters' \subseteq [value : Values, at : Position]
      BY <1>1, <2>1 DEF TypeOK
    <2>3. /\ contracts' \subseteq RowOf(PayContracts) /\ InOrder(contracts')
          /\ tokens' \subseteq RowOf(Stablecoins \ NotERC20) /\ InOrder(tokens')
          /\ boundary' \in [Quarters -> Lists]
      BY <1>1 DEF TypeOK
    <2>4. pos' \in Position
      BY <1>1
    <2> QED BY <2>2, <2>3, <2>4 DEF TypeOK
  <1>4. Table(contracts', PayContracts, p)
    BY <1>1, <1>2, TableLater
  <1>5. Table(tokens', Stablecoins \ NotERC20, p)
    BY <1>1, <1>2, TableLater
  <1>6. \A c \in parameters : c.at \in Position /\ AtOrBefore(c.at, p)
    <2>1. \A c \in parameters : c.at \in Position
      BY DEF TypeOK
    <2> QED BY <1>2, <2>1, PositionOrder DEF ParametersInTime
  <1>7. ParametersInTime'
    BY <1>1, <1>2, <1>6 DEF ParametersInTime
  <1>8. LastOfQuarter'
    <2> SUFFICES ASSUME NEW c \in parameters'
                 PROVE  \E d \in parameters' :
                          /\ QuarterOf(d.at.epoch) = QuarterOf(c.at.epoch)
                          /\ \A f \in parameters' :
                               QuarterOf(f.at.epoch) = QuarterOf(c.at.epoch)
                                 => AtOrBefore(f.at, d.at)
      BY DEF LastOfQuarter
    <2>1. \A f \in parameters' : AtOrBefore(f.at, n.at)
      BY <1>1, <1>2, <1>6
    <2>2. n \in parameters' /\ n.at = p
      BY <1>1
    <2> HIDE DEF n
    <2>3. CASE QuarterOf(c.at.epoch) = QuarterOf(p.epoch)
      BY <2>1, <2>2, <2>3
    <2>4. CASE QuarterOf(c.at.epoch) # QuarterOf(p.epoch)
      <3>1. c \in parameters
        BY <1>1, <2>2, <2>4
      <3>2. PICK d \in parameters :
              /\ QuarterOf(d.at.epoch) = QuarterOf(c.at.epoch)
              /\ \A f \in parameters :
                   QuarterOf(f.at.epoch) = QuarterOf(c.at.epoch) => AtOrBefore(f.at, d.at)
        BY <3>1 DEF LastOfQuarter
      <3> QED BY <1>1, <2>2, <2>4, <3>2
    <2> QED BY <2>3, <2>4
  <1>9. InForceIsBoundaryList'
    BY <1>1 DEF InForceIsBoundaryList
  <1>10. Table(contracts, PayContracts, pos)'
    BY <1>1, <1>4
  <1>11. Table(tokens, Stablecoins \ NotERC20, pos)'
    BY <1>1, <1>5
  <1> QED BY <1>3, <1>7, <1>8, <1>9, <1>10, <1>11

(* Every event keeps the invariant.                                        *)
LEMMA NextInvariant == IInv /\ [Next]_vars => IInv'
  <1> SUFFICES ASSUME IInv, [Next]_vars PROVE IInv'
    OBVIOUS
  <1>1. CASE UNCHANGED vars
    BY <1>1 DEF vars, IInv, TypeOK, Table, ParametersInTime, LastOfQuarter,
                InForceIsBoundaryList
  <1>2. CASE Next
    <2>1. PICK p \in EventPosition :
            /\ Before(pos, p)
            /\ \/ \E cs \in SUBSET PayContracts, ts \in SUBSET Stablecoins :
                    AdmittedListsUpdated(cs, ts, p)
               \/ \E v \in Values : PricingParamsUpdated(v, p)
      BY <1>2 DEF Next
    <2>2. p \in Position
      BY EventPositionType
    <2> QED BY <2>1, <2>2, ListsInvariant, ParametersInvariant
  <1> QED BY <1>1, <1>2

(* The invariant holds in every reachable state.                           *)
THEOREM Invariant == Spec => []IInv
  <1> QED BY InitInvariant, NextInvariant, PTL DEF Spec

-----------------------------------------------------------------------------
(* The properties.                                                         *)

(* The tables keep their types, and no row ends before it begins.          *)
THEOREM TypeCorrect == Spec => []TypeOK
  <1>1. IInv => TypeOK
    BY DEF IInv
  <1> QED BY <1>1, Invariant, PTL

(* What QuartersService says applies in a quarter is the list of the actor *)
(* as the quarter began.                                                   *)
THEOREM BoundaryListApplies == Spec => []InForceIsBoundaryList
  <1>1. IInv => InForceIsBoundaryList
    BY DEF IInv
  <1> QED BY <1>1, Invariant, PTL

(* The rule of the SQL function, for the two tables.                       *)
LEMMA SqlFollows == IInv => SqlAgrees
  <1> SUFFICES ASSUME IInv, NEW q \in Quarters
               PROVE  /\ SqlInForce(contracts, q) = InForce(contracts, q)
                      /\ SqlInForce(tokens, q) = InForce(tokens, q)
    BY DEF SqlAgrees
  <1>1. q \in Nat /\ pos \in Position
    BY QuartersType DEF IInv, TypeOK
  <1>2. SqlInForce(contracts, q) = InForce(contracts, q)
    BY <1>1, SqlRule DEF IInv
  <1>3. SqlInForce(tokens, q) = InForce(tokens, q)
    BY <1>1, SqlRule DEF IInv
  <1> QED BY <1>2, <1>3

(* The price periods are computed with the contracts and tokens the API    *)
(* reports for the quarter.                                                *)
THEOREM SqlAndApiAgree == Spec => []SqlAgrees
  <1> QED BY SqlFollows, Invariant, PTL

(* No two rows of a token cover a position, for the two ends of a row.     *)
LEMMA JoinedFollows == IInv => JoinedOnce
  <1> SUFFICES ASSUME IInv, NEW r \in tokens, NEW s \in tokens,
                      r.entry = s.entry, r # s, NEW x \in {r.from, s.from}
               PROVE  ~(Covers(r, x) /\ Covers(s, x))
    BY DEF JoinedOnce
  <1>1. x \in Position /\ pos \in Position
    BY DEF IInv, TypeOK, RowOf
  <1>2. Table(tokens, Stablecoins \ NotERC20, pos)
    BY DEF IInv
  <1> QED BY <1>1, <1>2, OneRowCovers

(* A stablecoin payment is never joined with two rows of its token.        *)
THEOREM PaymentJoinedOnce == Spec => []JoinedOnce
  <1> QED BY JoinedFollows, Invariant, PTL

(* The last row of an earlier quarter, found in three ways.                *)
LEMMA ParametersFollow == IInv => ParametersAgree
  <1> SUFFICES ASSUME IInv, NEW q \in Quarters
               PROVE  /\ ApiParameter(q) = SqlParameter(q)
                      /\ ApiParameter(q) = BindingParameter(q)
    BY DEF ParametersAgree
  <1>1. q \in Nat \ {0}
    BY QuartersType
  <1>2. \A c \in parameters : /\ c.at \in Position /\ c.at.epoch \in Nat
                              /\ QuarterOf(c.at.epoch) \in Nat
    BY QuarterType DEF IInv, TypeOK, Position
  <1>3. ApiParameter(q) = BindingParameter(q)
    <2>1. \A c \in parameters : QuarterOf(c.at.epoch) < q <=> c.at.epoch < QuarterStart(q)
      BY <1>1, <1>2, BeforeQuarter
    <2>2. Earlier(q) = {c \in parameters : c.at.epoch < QuarterStart(q)}
      BY <2>1 DEF Earlier
    <2> QED BY <2>2 DEF ApiParameter, BindingParameter
  <1>4. ApiParameter(q) = SqlParameter(q)
    <2> DEFINE perQuarter == {c \in parameters :
                 \A d \in parameters :
                   QuarterOf(d.at.epoch) = QuarterOf(c.at.epoch)
                     => AtOrBefore(d.at, c.at)}
               earlier == {c \in perQuarter : QuarterOf(c.at.epoch) < q}
    <2>1. ASSUME NEW c \in ApiParameter(q)
          PROVE  c \in SqlParameter(q)
      <3>1. /\ c \in parameters /\ QuarterOf(c.at.epoch) < q
            /\ \A d \in parameters :
                 QuarterOf(d.at.epoch) < q => AtOrBefore(d.at, c.at)
        BY DEF ApiParameter, LastOf, Earlier
      <3>2. c \in earlier
        BY <3>1
      <3>3. \A d \in earlier : QuarterOf(d.at.epoch) <= QuarterOf(c.at.epoch)
        BY <1>2, <3>1, PositionQuarters
      <3> QED BY <3>2, <3>3 DEF SqlParameter
    <2>2. ASSUME NEW c \in SqlParameter(q)
          PROVE  c \in ApiParameter(q)
      <3>1. /\ c \in parameters /\ QuarterOf(c.at.epoch) < q
            /\ \A d \in parameters :
                 QuarterOf(d.at.epoch) = QuarterOf(c.at.epoch) => AtOrBefore(d.at, c.at)
            /\ \A d \in earlier : QuarterOf(d.at.epoch) <= QuarterOf(c.at.epoch)
        BY DEF SqlParameter
      <3>2. ASSUME NEW d \in parameters, QuarterOf(d.at.epoch) < q
            PROVE  AtOrBefore(d.at, c.at)
        <4>1. PICK f \in parameters :
                /\ QuarterOf(f.at.epoch) = QuarterOf(d.at.epoch)
                /\ \A g \in parameters :
                     QuarterOf(g.at.epoch) = QuarterOf(d.at.epoch) => AtOrBefore(g.at, f.at)
          BY DEF IInv, LastOfQuarter
        <4>2. f \in earlier
          BY <3>2, <4>1
        <4>3. QuarterOf(d.at.epoch) <= QuarterOf(c.at.epoch)
          BY <3>1, <4>1, <4>2
        <4>4. CASE QuarterOf(d.at.epoch) = QuarterOf(c.at.epoch)
          BY <3>1, <4>4
        <4>5. CASE QuarterOf(d.at.epoch) # QuarterOf(c.at.epoch)
          <5>1. ~(c.at.epoch <= d.at.epoch)
            <6>1. QuarterOf(d.at.epoch) < QuarterOf(c.at.epoch)
              BY <1>2, <3>1, <4>3, <4>5
            <6> QED BY <1>2, <3>1, <6>1, QuarterMonotone
          <5> QED BY <1>2, <3>1, <5>1 DEF AtOrBefore
        <4> QED BY <4>4, <4>5
      <3> QED BY <3>1, <3>2 DEF ApiParameter, LastOf, Earlier
    <2> QED BY <2>1, <2>2
  <1> QED BY <1>3, <1>4

(* The three queries find the same parameters of a quarter.                *)
THEOREM ParameterQueriesAgree == Spec => []ParametersAgree
  <1> QED BY ParametersFollow, Invariant, PTL
=============================================================================
