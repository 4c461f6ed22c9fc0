----------------------------- MODULE CommonProofs -----------------------------
(***************************************************************************)
(* Facts that the proofs of several components rest on: about positions    *)
(* and quarters, and about the sums of SumFunction.                        *)
(*                                                                         *)
(* The library computes a sum recursively over subsets, picking one        *)
(* element after the other, and says nothing of the order.  That the       *)
(* recursion has a solution, and what sums are, is proved from a smallest  *)
(* set for which it would fail.                                            *)
(***************************************************************************)
EXTENDS ChainTime, FiniteSetTheorems, TLAPS

(* Integer division by a positive divisor, the only fact about \div used.  *)
LEMMA DivBounds ==
  ASSUME NEW a \in Nat, NEW b \in Nat \ {0}
  PROVE  /\ a \div b \in Nat
         /\ b * (a \div b) <= a
         /\ a < b * (a \div b) + b
  OBVIOUS

(* The beginning of the quarter an epoch belongs to does not lie after it, *)
(* and the next quarter does.                                              *)
LEMMA QuarterBounds ==
  ASSUME NEW e \in Nat, e >= ACTIVATION_EPOCH
  PROVE  /\ QuarterOf(e) \in Nat \ {0}
         /\ QuarterStart(QuarterOf(e)) \in Nat
         /\ QuarterStart(QuarterOf(e)) <= e
         /\ e <= QuarterEnd(QuarterOf(e))
  <1> DEFINE d == (e - ACTIVATION_EPOCH) \div EPOCHS_PER_QUARTER
  <1>1. e - ACTIVATION_EPOCH \in Nat
    BY CalendarAssumption
  <1>2. /\ d \in Nat
        /\ EPOCHS_PER_QUARTER * d <= e - ACTIVATION_EPOCH
        /\ e - ACTIVATION_EPOCH < EPOCHS_PER_QUARTER * d + EPOCHS_PER_QUARTER
    BY <1>1, DivBounds, CalendarAssumption
  <1>3. QuarterOf(e) = d + 1
    BY CalendarAssumption DEF QuarterOf
  <1>4. QuarterStart(d + 1) = ACTIVATION_EPOCH + EPOCHS_PER_QUARTER * d
    BY <1>2, CalendarAssumption DEF QuarterStart
  <1>5. EPOCHS_PER_QUARTER * d \in Nat
    BY <1>2, CalendarAssumption
  <1> QED
    BY <1>2, <1>3, <1>4, <1>5, CalendarAssumption DEF QuarterEnd

(* Multiplication by the length of a quarter keeps the order strictly.     *)
LEMMA TimesMonotone ==
  ASSUME NEW b \in Nat, NEW c \in Nat, NEW d \in Nat, c < d
  PROVE  b * c + b <= b * d
  <1>1. PICK k \in Nat : d = c + 1 + k
    <2>1. d - c - 1 \in Nat /\ d = c + 1 + (d - c - 1)
      OBVIOUS
    <2> QED BY <2>1
  <1>2. b * d = b * c + b + b * k
    BY <1>1
  <1>3. b * k \in Nat /\ b * c \in Nat
    BY <1>1
  <1> QED BY <1>2, <1>3

(* Later epochs do not belong to earlier quarters.                         *)
LEMMA QuarterMonotone ==
  ASSUME NEW e \in Nat, NEW f \in Nat, e <= f
  PROVE  QuarterOf(e) <= QuarterOf(f)
  <1>0. CASE e < ACTIVATION_EPOCH
    <2>1. QuarterOf(e) = 0
      BY <1>0 DEF QuarterOf
    <2>2. CASE f < ACTIVATION_EPOCH
      BY <2>1, <2>2 DEF QuarterOf
    <2>3. CASE f >= ACTIVATION_EPOCH
      BY <2>1, <2>3, QuarterBounds
    <2> QED BY <2>2, <2>3, CalendarAssumption
  <1>1. CASE e >= ACTIVATION_EPOCH
    <2> DEFINE c == (e - ACTIVATION_EPOCH) \div EPOCHS_PER_QUARTER
               d == (f - ACTIVATION_EPOCH) \div EPOCHS_PER_QUARTER
    <2>1. /\ e - ACTIVATION_EPOCH \in Nat
          /\ f - ACTIVATION_EPOCH \in Nat
      BY <1>1, CalendarAssumption
    <2>2. /\ c \in Nat /\ d \in Nat
          /\ EPOCHS_PER_QUARTER * c <= e - ACTIVATION_EPOCH
          /\ f - ACTIVATION_EPOCH < EPOCHS_PER_QUARTER * d + EPOCHS_PER_QUARTER
      BY <2>1, DivBounds, CalendarAssumption
    <2>3. /\ EPOCHS_PER_QUARTER * c \in Nat
          /\ EPOCHS_PER_QUARTER * d \in Nat
      BY <2>2, CalendarAssumption
    <2>4. ASSUME d < c PROVE FALSE
      <3>1. EPOCHS_PER_QUARTER * d + EPOCHS_PER_QUARTER <= EPOCHS_PER_QUARTER * c
        BY <2>2, <2>4, TimesMonotone, CalendarAssumption
      <3> HIDE DEF c, d
      <3> QED BY <3>1, <2>2, <2>3, CalendarAssumption
    <2>5. QuarterOf(e) = c + 1 /\ QuarterOf(f) = d + 1
      BY <1>1, CalendarAssumption DEF QuarterOf
    <2> HIDE DEF c, d
    <2> QED BY <2>2, <2>4, <2>5
  <1> QED BY <1>0, <1>1, CalendarAssumption

(* An epoch that belongs to another quarter than a later one lies before   *)
(* the beginning of the later one's quarter.                               *)
LEMMA EarlierQuarter ==
  ASSUME NEW e \in Nat, NEW f \in Nat, e <= f, QuarterOf(e) # QuarterOf(f)
  PROVE  e < QuarterStart(EffectiveQuarter(f))
  <1>1. CASE f < ACTIVATION_EPOCH
    BY <1>1, CalendarAssumption DEF QuarterOf
  <1>2. CASE f >= ACTIVATION_EPOCH
    <2>1. /\ QuarterOf(f) \in Nat \ {0}
          /\ QuarterStart(QuarterOf(f)) \in Nat
      BY <1>2, QuarterBounds
    <2>2. EffectiveQuarter(f) = QuarterOf(f)
      BY <2>1 DEF EffectiveQuarter
    <2>3. CASE e < ACTIVATION_EPOCH
      <3>1. QuarterStart(QuarterOf(f)) >= ACTIVATION_EPOCH
        <4>1. EPOCHS_PER_QUARTER * (QuarterOf(f) - 1) \in Nat
          BY <2>1, CalendarAssumption
        <4> QED BY <4>1, CalendarAssumption DEF QuarterStart
      <3> QED BY <2>1, <2>2, <2>3, <3>1, CalendarAssumption
    <2>4. CASE e >= ACTIVATION_EPOCH
      <3>1. QuarterOf(e) \in Nat \ {0} /\ QuarterOf(e) < QuarterOf(f)
        BY <2>1, <2>4, QuarterBounds, QuarterMonotone
      <3>2. e <= QuarterEnd(QuarterOf(e))
        BY <2>4, QuarterBounds
      <3>3. QuarterEnd(QuarterOf(e)) < QuarterStart(QuarterOf(f))
        <4> DEFINE c == QuarterOf(e) - 1
                   d == QuarterOf(f) - 1
        <4>1. c \in Nat /\ d \in Nat /\ c < d
          BY <2>1, <3>1
        <4>2. EPOCHS_PER_QUARTER * c + EPOCHS_PER_QUARTER <= EPOCHS_PER_QUARTER * d
          BY <4>1, TimesMonotone, CalendarAssumption
        <4>3. EPOCHS_PER_QUARTER * c \in Nat /\ EPOCHS_PER_QUARTER * d \in Nat
          BY <4>1, CalendarAssumption
        <4>4. /\ QuarterEnd(QuarterOf(e))
                   = ACTIVATION_EPOCH + EPOCHS_PER_QUARTER * c + EPOCHS_PER_QUARTER - 1
              /\ QuarterStart(QuarterOf(f)) = ACTIVATION_EPOCH + EPOCHS_PER_QUARTER * d
          BY DEF QuarterEnd, QuarterStart
        <4> HIDE DEF c, d
        <4> QED BY <4>2, <4>3, <4>4, CalendarAssumption
      <3>4. QuarterEnd(QuarterOf(e)) \in Int
        <4>1. QuarterStart(QuarterOf(e)) \in Nat
          BY <2>4, QuarterBounds
        <4> QED BY <4>1, CalendarAssumption DEF QuarterEnd
      <3> QED BY <2>1, <2>2, <3>2, <3>3, <3>4
    <2> QED BY <2>3, <2>4, CalendarAssumption
  <1> QED BY <1>1, <1>2, CalendarAssumption

(* The quarter an event acts on begins in the natural numbers and ends     *)
(* at or after the event.                                                  *)
LEMMA EffectiveQuarterBounds ==
  ASSUME NEW e \in Nat
  PROVE  /\ QuarterStart(EffectiveQuarter(e)) \in Nat
         /\ QuarterEnd(EffectiveQuarter(e)) \in Nat
         /\ e <= QuarterEnd(EffectiveQuarter(e))
  <1>1. CASE e < ACTIVATION_EPOCH
    <2>1. QuarterStart(1) = ACTIVATION_EPOCH
      BY CalendarAssumption DEF QuarterStart
    <2>2. EffectiveQuarter(e) = 1
      BY <1>1 DEF EffectiveQuarter, QuarterOf
    <2> QED BY <1>1, <2>1, <2>2, CalendarAssumption DEF QuarterEnd
  <1>2. CASE e >= ACTIVATION_EPOCH
    <2>1. EffectiveQuarter(e) = QuarterOf(e)
      BY <1>2, QuarterBounds DEF EffectiveQuarter
    <2> QED BY <1>2, <2>1, QuarterBounds, CalendarAssumption DEF QuarterEnd
  <1> QED BY <1>1, <1>2, CalendarAssumption

-----------------------------------------------------------------------------
(* Finite sets.                                                            *)

(* Among sets of elements of a finite set one contains no other.           *)
LEMMA SmallestSet ==
  ASSUME NEW S, IsFiniteSet(S), NEW B \in SUBSET (SUBSET S), B # {}
  PROVE  \E T \in B : \A U \in B : U \subseteq T => U = T
<1>1. IsWellFoundedOn(StrictSubsetOrdering(S), SUBSET S)
  BY FS_StrictSubsetOrderingWellFounded, FS_FiniteSubsetsOfFinite
<1>2. PICK T \in B : \A U \in B : <<U, T>> \notin StrictSubsetOrdering(S)
  BY <1>1, WFMin
<1>3. ASSUME NEW U \in B, U \subseteq T PROVE U = T
  <2>1. U \in SUBSET S /\ T \in SUBSET S
    OBVIOUS
  <2>2. <<U, T>> \notin StrictSubsetOrdering(S)
    BY <1>2
  <2> QED BY <1>3, <2>1, <2>2 DEF StrictSubsetOrdering
<1> QED BY <1>3

-----------------------------------------------------------------------------
(* Induction and ranks.                                                    *)

(* What holds at 0 and goes on to the next number holds up to n.           *)
LEMMA Counting ==
  ASSUME NEW n \in Nat, NEW G, 0 \in G,
         \A i \in 1 .. n : i - 1 \in G => i \in G
  PROVE  \A i \in 0 .. n : i \in G
<1> DEFINE B == {i \in 0 .. n : i \notin G}
<1>1. CASE B = {}
  BY <1>1
<1>2. CASE B # {}
  <2>1. PICK i \in B : \A j \in B : ~(j < i)
    <3>1. B \in SUBSET Nat
      OBVIOUS
    <3> HIDE DEF B
    <3>2. PICK i \in B : \A j \in B : <<j, i>> \notin OpToRel(<, Nat)
      BY <1>2, <3>1, NatLessThanWellFounded, WFMin
    <3> QED BY <3>1, <3>2 DEF OpToRel
  <2>2. i \in 1 .. n /\ i \notin G /\ i - 1 \in 0 .. n
    OBVIOUS
  <2>3. i - 1 \in G
    BY <2>1, <2>2
  <2> QED BY <2>2, <2>3
<1> QED BY <1>1, <1>2

(* R orders S.                                                             *)
IsOrder(R, S) ==
  /\ \A x \in S : <<x, x>> \in R
  /\ \A x, y \in S : <<x, y>> \in R \/ <<y, x>> \in R
  /\ \A x, y \in S : <<x, y>> \in R /\ <<y, x>> \in R => x = y
  /\ \A x, y, z \in S : <<x, y>> \in R /\ <<y, z>> \in R => <<x, z>> \in R

NotAbove(R, S, x) == {y \in S : <<y, x>> \in R}

(* The elements of a finite ordered set have the ranks from 1 to their     *)
(* number, each one of its own, in their order.                            *)
LEMMA Ranks ==
  ASSUME NEW S, IsFiniteSet(S), NEW R, IsOrder(R, S)
  PROVE  /\ \A x \in S : Cardinality(NotAbove(R, S, x)) \in 1 .. Cardinality(S)
         /\ \A x, y \in S :
              <<x, y>> \in R
                <=> Cardinality(NotAbove(R, S, x)) <= Cardinality(NotAbove(R, S, y))
         /\ \A i \in 1 .. Cardinality(S) : \E x \in S :
              \A y \in S : Cardinality(NotAbove(R, S, y)) = i <=> y = x
<1> DEFINE f == [x \in S |-> Cardinality(NotAbove(R, S, x))]
           N == Cardinality(S)
<1>1. N \in Nat
  BY FS_CardinalityType
<1>2. \A x \in S : IsFiniteSet(NotAbove(R, S, x)) /\ f[x] \in Nat /\ f[x] <= N
  <2> SUFFICES ASSUME NEW x \in S
               PROVE  IsFiniteSet(NotAbove(R, S, x)) /\ f[x] \in Nat /\ f[x] <= N
    OBVIOUS
  <2>1. NotAbove(R, S, x) \in SUBSET S
    BY DEF NotAbove
  <2>2. /\ IsFiniteSet(NotAbove(R, S, x))
        /\ Cardinality(NotAbove(R, S, x)) <= N
    BY <2>1, FS_Subset
  <2> QED BY <2>2, FS_CardinalityType
<1>3. \A x \in S : f[x] # 0
  <2> SUFFICES ASSUME NEW x \in S, f[x] = 0 PROVE FALSE
    OBVIOUS
  <2>1. NotAbove(R, S, x) = {}
    BY <1>2, FS_EmptySet
  <2> QED BY <2>1 DEF NotAbove, IsOrder
<1>4. ASSUME NEW x \in S, NEW y \in S, <<x, y>> \in R
      PROVE  f[x] <= f[y] /\ (f[x] = f[y] => x = y)
  <2>1. NotAbove(R, S, x) \in SUBSET NotAbove(R, S, y)
    BY <1>4 DEF NotAbove, IsOrder
  <2>2. /\ f[x] <= f[y]
        /\ f[x] = f[y] => NotAbove(R, S, x) = NotAbove(R, S, y)
    BY <1>2, <2>1, FS_Subset
  <2>3. NotAbove(R, S, x) = NotAbove(R, S, y) => <<y, x>> \in R
    BY DEF NotAbove, IsOrder
  <2> QED BY <1>4, <2>2, <2>3 DEF IsOrder
<1>5. \A x, y \in S : <<x, y>> \in R <=> f[x] <= f[y]
  <2> SUFFICES ASSUME NEW x \in S, NEW y \in S, f[x] <= f[y] PROVE <<x, y>> \in R
    BY <1>4
  <2>1. CASE <<y, x>> \in R
    <3>1. f[y] <= f[x] /\ (f[y] = f[x] => x = y)
      BY <1>4, <2>1
    <3>2. f[x] \in Nat /\ f[y] \in Nat
      BY <1>2
    <3>3. f[y] = f[x]
      <4> HIDE DEF f
      <4> QED BY <3>1, <3>2
    <3> QED BY <2>1, <3>1, <3>3
  <2> QED BY <2>1 DEF IsOrder
<1>6. \A x, y \in S : f[x] = f[y] => x = y
  <2> SUFFICES ASSUME NEW x \in S, NEW y \in S, f[x] = f[y] PROVE x = y
    OBVIOUS
  <2> QED BY <1>4 DEF IsOrder
<1>7. f \in Surjection(S, 1 .. N)
  <2>1. f \in [S -> 1 .. N]
    <3> HIDE DEF N
    <3> QED BY <1>1, <1>2, <1>3
  <2>2. f \in Injection(S, 1 .. N)
    <3> HIDE DEF f
    <3> QED BY <1>6, <2>1 DEF Injection, IsInjective
  <2>3. IsFiniteSet(1 .. N) /\ Cardinality(1 .. N) = N
    <3>1. 1 \in Int /\ N \in Int
      BY <1>1
    <3>2. /\ IsFiniteSet(1 .. N)
          /\ Cardinality(1 .. N) = IF 1 > N THEN 0 ELSE N - 1 + 1
      BY <3>1, FS_Interval
    <3> QED BY <1>1, <3>2
  <2> HIDE DEF f
  <2> QED BY <2>2, <2>3, FS_Injection
<1>8. \A i \in 1 .. N : \E x \in S : f[x] = i
  <2> HIDE DEF f
  <2> QED BY <1>7 DEF Surjection
<1>9. \A i \in 1 .. N : \E x \in S : \A y \in S : f[y] = i <=> y = x
  <2> HIDE DEF f, N
  <2> QED BY <1>6, <1>8
<1>10. \A x \in S : f[x] \in 1 .. N
  <2> HIDE DEF N
  <2> QED BY <1>1, <1>2, <1>3
<1> QED BY <1>5, <1>9, <1>10

-----------------------------------------------------------------------------
(* A sum is computed element by element, in the order of a choice.         *)

Picked(s) == CHOOSE x \in s : TRUE

(* g has the sum of f over every set of elements of D.                     *)
IsSum(g, f, D) ==
  g = [s \in SUBSET D |->
         IF s = {} THEN 0 ELSE f[Picked(s)] + g[s \ {Picked(s)}]]

SumOver(f, s) == SumFunction([x \in s |-> f[x]])

(* What is picked from a nonempty set belongs to it.                       *)
LEMMA PickedIsElement ==
  ASSUME NEW S, S # {} PROVE Picked(S) \in S
  BY DEF Picked

(* One step of the recursion.                                              *)
LEMMA IsSumUnfolded ==
  ASSUME NEW g, NEW f, NEW D, IsSum(g, f, D), NEW s \in SUBSET D
  PROVE  /\ s = {} => g[s] = 0
         /\ s # {} => g[s] = f[Picked(s)] + g[s \ {Picked(s)}]
<1> DEFINE G == [t \in SUBSET D |->
         IF t = {} THEN 0 ELSE f[Picked(t)] + g[t \ {Picked(t)}]]
<1>1. g = G
  BY DEF IsSum
<1>2. G[s] = IF s = {} THEN 0 ELSE f[Picked(s)] + g[s \ {Picked(s)}]
  OBVIOUS
<1> HIDE DEF G
<1> QED BY <1>1, <1>2

(* Two sums agree where what they sum agrees.                              *)
LEMMA SumsAgree ==
  ASSUME NEW S, IsFiniteSet(S),
         NEW g, NEW f, NEW D, IsSum(g, f, D), S \subseteq D,
         NEW h, NEW e, NEW E, IsSum(h, e, E), S \subseteq E,
         \A x \in S : f[x] = e[x]
  PROVE  g[S] = h[S]
<1> DEFINE B == {T \in SUBSET S : g[T] # h[T]}
<1>1. CASE B = {}
  BY <1>1
<1>2. CASE B # {}
  <2>1. PICK T \in B : \A U \in B : U \subseteq T => U = T
    <3> HIDE DEF B
    <3>1. B \in SUBSET (SUBSET S)
      BY DEF B
    <3> QED BY <1>2, <3>1, SmallestSet
  <2>2. T \in SUBSET S /\ T \in SUBSET D /\ T \in SUBSET E /\ g[T] # h[T]
    OBVIOUS
  <2>3. T # {}
    BY <2>2, IsSumUnfolded
  <2> DEFINE p == Picked(T)
  <2>4. p \in T /\ p \in S
    BY <2>2, <2>3, PickedIsElement
  <2>5. T \ {p} \in SUBSET S /\ T \ {p} \subseteq T /\ T \ {p} # T
    BY <2>2, <2>4
  <2>6. g[T \ {p}] = h[T \ {p}]
    BY <2>1, <2>5
  <2>7. g[T] = f[p] + g[T \ {p}]
    BY <2>2, <2>3, IsSumUnfolded
  <2>8. h[T] = e[p] + h[T \ {p}]
    BY <2>2, <2>3, IsSumUnfolded
  <2> QED BY <2>2, <2>4, <2>6, <2>7, <2>8
<1> QED BY <1>1, <1>2

(* Over a finite set there is a sum.                                       *)
LEMMA SumExists ==
  ASSUME NEW f, NEW D, IsFiniteSet(D)
  PROVE  \E g : IsSum(g, f, D)
<1> DEFINE B == {T \in SUBSET D : ~ \E g : IsSum(g, f, T)}
<1>1. CASE B = {}
  <2>1. D \notin B
    BY <1>1
  <2> QED BY <2>1
<1>2. CASE B # {}
  <2>1. PICK S \in B : \A U \in B : U \subseteq S => U = S
    <3> HIDE DEF B
    <3>1. B \in SUBSET (SUBSET D)
      BY DEF B
    <3> QED BY <1>2, <3>1, SmallestSet
  <2>2. S \in SUBSET D /\ ~ \E g : IsSum(g, f, S)
    OBVIOUS
  <2> DEFINE k(t) == CHOOSE g : IsSum(g, f, t)
             v(t) == k(t)[t]
             g == [s \in SUBSET S |->
                     IF s = {} THEN 0 ELSE f[Picked(s)] + v(s \ {Picked(s)})]
  <2>3. ASSUME NEW t \in SUBSET S, t # S PROVE IsSum(k(t), f, t)
    <3>1. t \in SUBSET D /\ t \notin B
      BY <2>1, <2>2, <2>3
    <3>2. \E j : IsSum(j, f, t)
      BY <3>1
    <3> QED BY <3>2
  <2> HIDE DEF k
  <2>4. ASSUME NEW t \in SUBSET S, t # S PROVE g[t] = v(t)
    <3>1. IsSum(k(t), f, t)
      BY <2>3, <2>4
    <3>2. CASE t = {}
      <4>1. k(t)[t] = 0
        BY <3>1, <3>2, IsSumUnfolded
      <4> QED BY <3>2, <4>1
    <3>3. CASE t # {}
      <4> DEFINE p == Picked(t)
      <4>1. p \in t
        BY <3>3, PickedIsElement
      <4>2. t \ {p} \in SUBSET S /\ t \ {p} # S /\ t \ {p} \subseteq t
        BY <4>1
      <4>3. k(t)[t] = f[p] + k(t)[t \ {p}]
        BY <3>1, <3>3, IsSumUnfolded
      <4>4. IsSum(k(t \ {p}), f, t \ {p})
        BY <2>3, <4>2
      <4>5. IsFiniteSet(t \ {p})
        BY <2>2, <4>2, FS_Subset
      <4>6. k(t)[t \ {p}] = k(t \ {p})[t \ {p}]
        BY <3>1, <4>2, <4>4, <4>5, SumsAgree
      <4>7. g[t] = f[p] + v(t \ {p})
        BY <3>3
      <4> QED BY <4>3, <4>6, <4>7
    <3> QED BY <3>2, <3>3
  <2>5. \A s \in SUBSET S : s # {} => v(s \ {Picked(s)}) = g[s \ {Picked(s)}]
    <3> SUFFICES ASSUME NEW s \in SUBSET S, s # {}
                 PROVE  v(s \ {Picked(s)}) = g[s \ {Picked(s)}]
      OBVIOUS
    <3>1. Picked(s) \in s
      BY PickedIsElement
    <3>2. s \ {Picked(s)} \in SUBSET S /\ s \ {Picked(s)} # S
      BY <3>1
    <3> HIDE DEF v, g
    <3> QED BY <2>4, <3>2
  <2> HIDE DEF v
  <2>6. g = [s \in SUBSET S |->
               IF s = {} THEN 0 ELSE f[Picked(s)] + g[s \ {Picked(s)}]]
    <3> DEFINE F == [s \in SUBSET S |->
               IF s = {} THEN 0 ELSE f[Picked(s)] + g[s \ {Picked(s)}]]
    <3>1. \A s \in SUBSET S : g[s] = F[s]
      <4> SUFFICES ASSUME NEW s \in SUBSET S PROVE g[s] = F[s]
        OBVIOUS
      <4>1. CASE s = {}
        BY <4>1
      <4>2. CASE s # {}
        <5>1. g[s] = f[Picked(s)] + v(s \ {Picked(s)})
          BY <4>2
        <5>2. F[s] = f[Picked(s)] + g[s \ {Picked(s)}]
          <6> HIDE DEF g
          <6> QED BY <4>2
        <5> HIDE DEF F, g
        <5> QED BY <2>5, <4>2, <5>1, <5>2
      <4> QED BY <4>1, <4>2
    <3>2. g = [s \in SUBSET S |-> g[s]] /\ F = [s \in SUBSET S |-> F[s]]
      OBVIOUS
    <3>3. DOMAIN F = SUBSET S
      OBVIOUS
    <3>4. g = F
      <4> HIDE DEF F, g
      <4> QED BY <3>1, <3>2
    <3> QED BY <3>4
  <2> HIDE DEF g
  <2>7. IsSum(g, f, S)
    BY <2>6 DEF IsSum
  <2> QED BY <2>2, <2>7
<1> QED BY <1>1, <1>2

(* The library takes some sum in this sense.                               *)
LEMMA SumFunctionUnfolded ==
  ASSUME NEW f
  PROVE SumFunction(f) = (CHOOSE g : IsSum(g, f, DOMAIN f))[DOMAIN f]
  BY DEF SumFunction, SumFunctionOnSet, FoldFunctionOnSet, MapThenFoldSet, IsSum, Picked

(* Every sum in this sense is the one the library takes.                   *)
LEMMA SumOverIs ==
  ASSUME NEW f, NEW D, IsFiniteSet(D), NEW g, IsSum(g, f, D)
  PROVE  SumOver(f, D) = g[D]
<1> DEFINE e == [x \in D |-> f[x]]
           h == CHOOSE k : IsSum(k, e, DOMAIN e)
<1>1. DOMAIN e = D
  OBVIOUS
<1>2. \A x \in D : f[x] = e[x]
  OBVIOUS
<1>3. SumFunction(e) = h[DOMAIN e]
  <2> HIDE DEF e
  <2> QED BY SumFunctionUnfolded
<1>4. IsSum(h, e, D)
  <2> HIDE DEF e
  <2>1. \E k : IsSum(k, e, DOMAIN e)
    BY <1>1, SumExists
  <2> QED BY <1>1, <2>1
<1> HIDE DEF h
<1>5. g[D] = h[D]
  <2> HIDE DEF e
  <2>1. D \subseteq D
    OBVIOUS
  <2> QED BY <1>2, <1>4, <2>1, SumsAgree
<1> QED BY <1>1, <1>3, <1>5 DEF SumOver

(* The sum over nothing, and the sum over a set by its picked element.     *)
LEMMA SumByPicked ==
  ASSUME NEW f, NEW S, IsFiniteSet(S)
  PROVE  /\ S = {} => SumOver(f, S) = 0
         /\ S # {} => SumOver(f, S) = f[Picked(S)] + SumOver(f, S \ {Picked(S)})
<1>1. PICK g : IsSum(g, f, S)
  BY SumExists
<1>2. SumOver(f, S) = g[S]
  BY <1>1, SumOverIs
<1>3. S \in SUBSET S
  OBVIOUS
<1>4. S = {} => SumOver(f, S) = 0
  BY <1>1, <1>2, <1>3, IsSumUnfolded
<1>5. ASSUME S # {}
      PROVE  SumOver(f, S) = f[Picked(S)] + SumOver(f, S \ {Picked(S)})
  <2> DEFINE T == S \ {Picked(S)}
  <2>1. T \subseteq S /\ IsFiniteSet(T)
    BY FS_Subset
  <2>2. PICK h : IsSum(h, f, T)
    BY <2>1, SumExists
  <2>3. SumOver(f, T) = h[T]
    BY <2>1, <2>2, SumOverIs
  <2>4. g[T] = h[T]
    <3> HIDE DEF T
    <3>1. T \subseteq T
      OBVIOUS
    <3> QED BY <1>1, <2>1, <2>2, <3>1, SumsAgree
  <2>5. g[S] = f[Picked(S)] + g[T]
    BY <1>1, <1>3, <1>5, IsSumUnfolded
  <2> QED BY <1>2, <2>3, <2>4, <2>5
<1> QED BY <1>4, <1>5

-----------------------------------------------------------------------------
(* Sums of integers do not depend on the order.                            *)

(* Sums of integers are integers.                                          *)
LEMMA SumType ==
  ASSUME NEW f, NEW S, IsFiniteSet(S), \A x \in S : f[x] \in Int
  PROVE  SumOver(f, S) \in Int
<1> DEFINE B == {T \in SUBSET S : SumOver(f, T) \notin Int}
<1>1. CASE B = {}
  <2>1. S \notin B
    BY <1>1
  <2> QED BY <2>1
<1>2. CASE B # {}
  <2>1. PICK T \in B : \A U \in B : U \subseteq T => U = T
    <3> HIDE DEF B
    <3>1. B \in SUBSET (SUBSET S)
      BY DEF B
    <3> QED BY <1>2, <3>1, SmallestSet
  <2>2. T \in SUBSET S /\ SumOver(f, T) \notin Int /\ IsFiniteSet(T)
    BY FS_Subset
  <2>3. T # {}
    <3> SUFFICES ASSUME T = {} PROVE FALSE
      OBVIOUS
    <3>1. SumOver(f, T) = 0
      BY <2>2, SumByPicked
    <3> QED BY <2>2, <3>1
  <2>4. Picked(T) \in T
    BY <2>3, PickedIsElement
  <2>5. T \ {Picked(T)} \in SUBSET S /\ T \ {Picked(T)} # T
    BY <2>2, <2>4
  <2>6. SumOver(f, T \ {Picked(T)}) \in Int
    BY <2>1, <2>5
  <2>7. f[Picked(T)] \in Int
    BY <2>2, <2>4
  <2> QED BY <2>2, <2>3, <2>6, <2>7, SumByPicked
<1> QED BY <1>1, <1>2

(* Sums of natural numbers are natural numbers.                            *)
LEMMA SumNat ==
  ASSUME NEW f, NEW S, IsFiniteSet(S), \A x \in S : f[x] \in Nat
  PROVE  SumOver(f, S) \in Nat
<1> DEFINE B == {T \in SUBSET S : SumOver(f, T) \notin Nat}
<1>1. CASE B = {}
  <2>1. S \notin B
    BY <1>1
  <2> QED BY <2>1
<1>2. CASE B # {}
  <2>1. PICK T \in B : \A U \in B : U \subseteq T => U = T
    <3> HIDE DEF B
    <3>1. B \in SUBSET (SUBSET S)
      BY DEF B
    <3> QED BY <1>2, <3>1, SmallestSet
  <2>2. T \in SUBSET S /\ SumOver(f, T) \notin Nat /\ IsFiniteSet(T)
    BY FS_Subset
  <2>3. T # {}
    <3> SUFFICES ASSUME T = {} PROVE FALSE
      OBVIOUS
    <3>1. SumOver(f, T) = 0
      BY <2>2, SumByPicked
    <3> QED BY <2>2, <3>1
  <2>4. Picked(T) \in T
    BY <2>3, PickedIsElement
  <2>5. T \ {Picked(T)} \in SUBSET S /\ T \ {Picked(T)} # T
    BY <2>2, <2>4
  <2>6. SumOver(f, T \ {Picked(T)}) \in Nat
    BY <2>1, <2>5
  <2>7. f[Picked(T)] \in Nat
    BY <2>2, <2>4
  <2> QED BY <2>2, <2>3, <2>6, <2>7, SumByPicked
<1> QED BY <1>1, <1>2

(* Any element may be taken out of a sum.                                  *)
LEMMA SumWithout ==
  ASSUME NEW f, NEW S, IsFiniteSet(S), \A x \in S : f[x] \in Int, NEW y \in S
  PROVE  /\ SumOver(f, S) = f[y] + SumOver(f, S \ {y})
         /\ SumOver(f, S \ {y}) \in Int
<1> DEFINE B == {T \in SUBSET S :
                   \E x \in T : SumOver(f, T) # f[x] + SumOver(f, T \ {x})}
<1>0. SumOver(f, S \ {y}) \in Int
  <2>1. IsFiniteSet(S \ {y}) /\ \A x \in S \ {y} : f[x] \in Int
    BY FS_Subset
  <2> QED BY <2>1, SumType
<1>1. CASE B = {}
  <2>1. S \notin B
    BY <1>1
  <2> QED BY <1>0, <2>1
<1>2. CASE B # {}
  <2>1. PICK T \in B : \A U \in B : U \subseteq T => U = T
    <3> HIDE DEF B
    <3>1. B \in SUBSET (SUBSET S)
      BY DEF B
    <3> QED BY <1>2, <3>1, SmallestSet
  <2>2. T \in SUBSET S
    OBVIOUS
  <2>3. PICK x \in T : SumOver(f, T) # f[x] + SumOver(f, T \ {x})
    OBVIOUS
  <2> DEFINE p == Picked(T)
  <2>4. p \in T /\ IsFiniteSet(T)
    BY <2>2, PickedIsElement, FS_Subset
  <2>5. SumOver(f, T) = f[p] + SumOver(f, T \ {p})
    BY <2>3, <2>4, SumByPicked
  <2>6. p # x
    BY <2>3, <2>5
  <2> HIDE DEF p
  <2>7. /\ T \ {p} \in SUBSET S /\ T \ {p} # T /\ x \in T \ {p}
        /\ T \ {x} \in SUBSET S /\ T \ {x} # T /\ p \in T \ {x}
        /\ (T \ {p}) \ {x} \in SUBSET S
        /\ (T \ {x}) \ {p} = (T \ {p}) \ {x}
    BY <2>2, <2>4, <2>6
  <2>8. SumOver(f, T \ {p}) = f[x] + SumOver(f, (T \ {p}) \ {x})
    <3>1. T \ {p} \notin B
      BY <2>1, <2>7
    <3> QED BY <2>7, <3>1
  <2>9. SumOver(f, T \ {x}) = f[p] + SumOver(f, (T \ {p}) \ {x})
    <3>1. T \ {x} \notin B
      BY <2>1, <2>7
    <3> QED BY <2>7, <3>1
  <2>10. SumOver(f, (T \ {p}) \ {x}) \in Int
    <3> DEFINE U == (T \ {p}) \ {x}
    <3>1. U \in SUBSET S /\ IsFiniteSet(U) /\ \A z \in U : f[z] \in Int
      BY <2>7, FS_Subset
    <3> HIDE DEF U
    <3>2. SumOver(f, U) \in Int
      BY <3>1, SumType
    <3> QED BY <3>2 DEF U
  <2>11. f[x] \in Int /\ f[p] \in Int
    BY <2>2, <2>4
  <2> QED BY <2>3, <2>5, <2>8, <2>9, <2>10, <2>11
<1> QED BY <1>1, <1>2

(* Functions that agree on a set have the same sum over it.                *)
LEMMA SumSame ==
  ASSUME NEW f, NEW e, NEW S, \A x \in S : f[x] = e[x]
  PROVE  SumOver(f, S) = SumOver(e, S)
<1>1. [x \in S |-> f[x]] = [x \in S |-> e[x]]
  OBVIOUS
<1> QED BY <1>1 DEF SumOver

(* The sum of a function is the sum over its domain.                       *)
LEMMA SumOfFunction ==
  ASSUME NEW f, NEW S, f = [x \in S |-> f[x]]
  PROVE  SumFunction(f) = SumOver(f, S)
  BY DEF SumOver

Combined(a, x, b, y) == a * x + b * y

(* Sums are linear.                                                        *)
LEMMA SumLinear ==
  ASSUME NEW S, IsFiniteSet(S), NEW f, NEW e, NEW h, NEW a \in Int, NEW b \in Int,
         \A x \in S : f[x] \in Int /\ e[x] \in Int /\ h[x] = Combined(a, f[x], b, e[x])
  PROVE  SumOver(h, S) = Combined(a, SumOver(f, S), b, SumOver(e, S))
<1> DEFINE B == {T \in SUBSET S :
                   SumOver(h, T) # Combined(a, SumOver(f, T), b, SumOver(e, T))}
<1>1. CASE B = {}
  <2>1. S \notin B
    BY <1>1
  <2> QED BY <2>1
<1>2. CASE B # {}
  <2>1. PICK T \in B : \A U \in B : U \subseteq T => U = T
    <3> HIDE DEF B
    <3>1. B \in SUBSET (SUBSET S)
      BY DEF B
    <3> QED BY <1>2, <3>1, SmallestSet
  <2>2. /\ T \in SUBSET S /\ IsFiniteSet(T)
        /\ SumOver(h, T) # Combined(a, SumOver(f, T), b, SumOver(e, T))
    BY FS_Subset
  <2>3. T # {}
    <3> SUFFICES ASSUME T = {} PROVE FALSE
      OBVIOUS
    <3>1. SumOver(h, T) = 0 /\ SumOver(f, T) = 0 /\ SumOver(e, T) = 0
      BY <2>2, SumByPicked
    <3>2. a * 0 = 0 /\ b * 0 = 0
      OBVIOUS
    <3> QED BY <2>2, <3>1, <3>2 DEF Combined
  <2>4. PICK x \in T : TRUE
    BY <2>3
  <2>5. f[x] \in Int /\ e[x] \in Int /\ h[x] = a * f[x] + b * e[x]
    BY <2>2 DEF Combined
  <2> DEFINE U == T \ {x}
  <2>6. U \in SUBSET S /\ U \subseteq T /\ U # T
    BY <2>2
  <2>7. SumOver(h, U) = Combined(a, SumOver(f, U), b, SumOver(e, U))
    BY <2>1, <2>6
  <2>8. \A y \in T : f[y] \in Int /\ e[y] \in Int /\ h[y] \in Int
    BY <2>2 DEF Combined
  <2> HIDE DEF B
  <2>9. /\ SumOver(f, T) = f[x] + SumOver(f, U) /\ SumOver(f, U) \in Int
        /\ SumOver(e, T) = e[x] + SumOver(e, U) /\ SumOver(e, U) \in Int
        /\ SumOver(h, T) = h[x] + SumOver(h, U) /\ SumOver(h, U) \in Int
    <3>1. \A y \in T : f[y] \in Int
      BY <2>8
    <3>2. \A y \in T : e[y] \in Int
      BY <2>8
    <3>3. \A y \in T : h[y] \in Int
      BY <2>8
    <3>4. SumOver(f, T) = f[x] + SumOver(f, U) /\ SumOver(f, U) \in Int
      BY <2>2, <3>1, SumWithout
    <3>5. SumOver(e, T) = e[x] + SumOver(e, U) /\ SumOver(e, U) \in Int
      BY <2>2, <3>2, SumWithout
    <3>6. SumOver(h, T) = h[x] + SumOver(h, U) /\ SumOver(h, U) \in Int
      BY <2>2, <3>3, SumWithout
    <3> QED BY <3>4, <3>5, <3>6
  <2> HIDE DEF U
  <2>10. /\ a * (f[x] + SumOver(f, U)) = a * f[x] + a * SumOver(f, U)
         /\ b * (e[x] + SumOver(e, U)) = b * e[x] + b * SumOver(e, U)
    BY <2>5, <2>9
  <2>11. /\ a * f[x] \in Int /\ b * e[x] \in Int
         /\ a * SumOver(f, U) \in Int /\ b * SumOver(e, U) \in Int
    BY <2>5, <2>9
  <2> QED BY <2>2, <2>5, <2>7, <2>9, <2>10, <2>11 DEF Combined
<1> QED BY <1>1, <1>2

(* Multiplication, one step.                                               *)
LEMMA TimesSuccessor ==
  ASSUME NEW a \in Int, NEW n \in Nat
  PROVE  a * (n + 1) = a * n + a /\ a * n \in Int
  OBVIOUS

(* A sum lies between as many times the least and the largest term.        *)
LEMMA SumBounds ==
  ASSUME NEW S, IsFiniteSet(S), NEW f, NEW l \in Int, NEW u \in Int,
         \A x \in S : f[x] \in Int /\ l <= f[x] /\ f[x] <= u
  PROVE  /\ l * Cardinality(S) <= SumOver(f, S)
         /\ SumOver(f, S) <= u * Cardinality(S)
<1> DEFINE OK(T) == /\ l * Cardinality(T) <= SumOver(f, T)
                    /\ SumOver(f, T) <= u * Cardinality(T)
           B == {T \in SUBSET S : ~OK(T)}
<1>1. CASE B = {}
  <2>1. S \notin B
    BY <1>1
  <2> QED BY <2>1
<1>2. CASE B # {}
  <2>1. PICK T \in B : \A U \in B : U \subseteq T => U = T
    <3> HIDE DEF B
    <3>1. B \in SUBSET (SUBSET S)
      BY DEF B
    <3> QED BY <1>2, <3>1, SmallestSet
  <2>2. T \in SUBSET S /\ IsFiniteSet(T) /\ ~OK(T)
    BY FS_Subset
  <2>3. T # {}
    <3> SUFFICES ASSUME T = {} PROVE FALSE
      OBVIOUS
    <3>1. SumOver(f, T) = 0 /\ Cardinality(T) = 0
      BY <2>2, SumByPicked, FS_EmptySet
    <3>2. l * 0 = 0 /\ u * 0 = 0
      OBVIOUS
    <3> QED BY <2>2, <3>1, <3>2
  <2>4. PICK x \in T : TRUE
    BY <2>3
  <2>5. f[x] \in Int /\ l <= f[x] /\ f[x] <= u
    BY <2>2
  <2> DEFINE U == T \ {x}
  <2>6. U \in SUBSET S /\ U \subseteq T /\ U # T
    BY <2>2
  <2>7. OK(U)
    <3> HIDE DEF OK
    <3> QED BY <2>1, <2>6
  <2>8. \A y \in T : f[y] \in Int
    BY <2>2
  <2>9. IsFiniteSet(U) /\ Cardinality(T) = Cardinality(U) + 1 /\ Cardinality(U) \in Nat
    <3>1. IsFiniteSet(U) /\ Cardinality(U) = Cardinality(T) - 1
      BY <2>2, <2>4, FS_RemoveElement
    <3>2. Cardinality(T) \in Nat /\ Cardinality(U) \in Nat
      BY <2>2, <3>1, FS_CardinalityType
    <3> QED BY <3>1, <3>2
  <2>10. SumOver(f, T) = f[x] + SumOver(f, U) /\ SumOver(f, U) \in Int
    BY <2>2, <2>8, SumWithout
  <2> HIDE DEF U
  <2>11. /\ l * (Cardinality(U) + 1) = l * Cardinality(U) + l
         /\ u * (Cardinality(U) + 1) = u * Cardinality(U) + u
         /\ l * Cardinality(U) \in Int /\ u * Cardinality(U) \in Int
    BY <2>9, TimesSuccessor
  <2>12. OK(T)
    BY <2>5, <2>7, <2>9, <2>10, <2>11
  <2> QED BY <2>2, <2>12
<1> QED BY <1>1, <1>2

(* The sum of zeros.                                                       *)
LEMMA SumOfZeros ==
  ASSUME NEW S, IsFiniteSet(S)
  PROVE  SumFunction([x \in S |-> 0]) = 0
<1> DEFINE f == [x \in S |-> 0]
           z == 0
<1>1. SumFunction(f) = SumOver(f, S)
  BY DEF SumOver
<1>2. z \in Int /\ \A x \in S : f[x] \in Int /\ z <= f[x] /\ f[x] <= z
  OBVIOUS
<1> HIDE DEF f, z
<1>3. z * Cardinality(S) <= SumOver(f, S) /\ SumOver(f, S) <= z * Cardinality(S)
  BY <1>2, SumBounds
<1>4. SumOver(f, S) \in Int /\ Cardinality(S) \in Nat
  BY <1>2, SumType, FS_CardinalityType
<1>5. z * Cardinality(S) = 0
  BY <1>4 DEF z
<1>6. SumFunction(f) = 0
  BY <1>1, <1>3, <1>4, <1>5
<1> QED BY <1>6 DEF f

(* The sum over two sets without a common element.                         *)
LEMMA SumOfUnion ==
  ASSUME NEW f, NEW S, IsFiniteSet(S), NEW V, IsFiniteSet(V), S \cap V = {},
         \A x \in S \cup V : f[x] \in Int
  PROVE  SumOver(f, S \cup V) = SumOver(f, S) + SumOver(f, V)
<1> DEFINE B == {T \in SUBSET S :
                   SumOver(f, T \cup V) # SumOver(f, T) + SumOver(f, V)}
<1>1. CASE B = {}
  <2>1. S \notin B
    BY <1>1
  <2> QED BY <2>1
<1>2. CASE B # {}
  <2>1. PICK T \in B : \A U \in B : U \subseteq T => U = T
    <3> HIDE DEF B
    <3>1. B \in SUBSET (SUBSET S)
      BY DEF B
    <3> QED BY <1>2, <3>1, SmallestSet
  <2>2. /\ T \in SUBSET S /\ IsFiniteSet(T)
        /\ SumOver(f, T \cup V) # SumOver(f, T) + SumOver(f, V)
    BY FS_Subset
  <2>3. SumOver(f, V) \in Int
    BY SumType
  <2>4. T # {}
    <3> SUFFICES ASSUME T = {} PROVE FALSE
      OBVIOUS
    <3>1. SumOver(f, T) = 0 /\ T \cup V = V
      BY <2>2, SumByPicked
    <3> QED BY <2>2, <2>3, <3>1
  <2>5. PICK x \in T : TRUE
    BY <2>4
  <2> DEFINE U == T \ {x}
  <2>6. U \in SUBSET S /\ U \subseteq T /\ U # T /\ (T \cup V) \ {x} = U \cup V
    BY <2>2
  <2>7. SumOver(f, U \cup V) = SumOver(f, U) + SumOver(f, V)
    BY <2>1, <2>6
  <2> HIDE DEF B
  <2>8. SumOver(f, T) = f[x] + SumOver(f, U) /\ SumOver(f, U) \in Int
    BY <2>2, SumWithout
  <2>9. SumOver(f, T \cup V) = f[x] + SumOver(f, U \cup V)
    <3>1. IsFiniteSet(T \cup V) /\ x \in T \cup V /\ \A y \in T \cup V : f[y] \in Int
      BY <2>2, FS_Union
    <3>2. SumOver(f, T \cup V) = f[x] + SumOver(f, (T \cup V) \ {x})
      BY <3>1, SumWithout
    <3> QED BY <2>6, <3>2
  <2>10. f[x] \in Int
    BY <2>2
  <2> QED BY <2>2, <2>3, <2>7, <2>8, <2>9, <2>10
<1> QED BY <1>1, <1>2

-----------------------------------------------------------------------------
(* Sums of sums.                                                           *)

(* Parts without a common element: the sum of their sums is the sum over   *)
(* all of them.                                                            *)
LEMMA SumOfParts ==
  ASSUME NEW f, NEW O, IsFiniteSet(O), NEW part,
         \A o \in O : IsFiniteSet(part[o]) /\ \A x \in part[o] : f[x] \in Int,
         \A o, p \in O : o # p => part[o] \cap part[p] = {},
         NEW sum, \A o \in O : sum[o] = SumOver(f, part[o])
  PROVE  SumOver(sum, O) = SumOver(f, UNION {part[o] : o \in O})
<1> DEFINE all(T) == UNION {part[o] : o \in T}
           B == {T \in SUBSET O : SumOver(sum, T) # SumOver(f, all(T))}
<1>0. \A o \in O : sum[o] \in Int
  BY SumType
<1>1. CASE B = {}
  <2>1. O \notin B
    BY <1>1
  <2> QED BY <2>1
<1>2. CASE B # {}
  <2>1. PICK T \in B : \A U \in B : U \subseteq T => U = T
    <3> HIDE DEF B
    <3>1. B \in SUBSET (SUBSET O)
      BY DEF B
    <3> QED BY <1>2, <3>1, SmallestSet
  <2>2. /\ T \in SUBSET O /\ IsFiniteSet(T)
        /\ SumOver(sum, T) # SumOver(f, all(T))
    BY FS_Subset
  <2>3. T # {}
    <3> SUFFICES ASSUME T = {} PROVE FALSE
      OBVIOUS
    <3>1. SumOver(sum, T) = 0 /\ all(T) = {}
      BY <2>2, SumByPicked
    <3>2. SumOver(f, {}) = 0
      BY FS_EmptySet, SumByPicked
    <3> QED BY <2>2, <3>1, <3>2
  <2>4. PICK x \in T : TRUE
    BY <2>3
  <2> DEFINE U == T \ {x}
  <2>5. U \in SUBSET O /\ U \subseteq T /\ U # T /\ x \in O /\ T = U \cup {x}
    BY <2>2
  <2>6. SumOver(sum, U) = SumOver(f, all(U))
    BY <2>1, <2>5
  <2> HIDE DEF B
  <2>7. SumOver(sum, T) = sum[x] + SumOver(sum, U)
    BY <1>0, <2>2, SumWithout
  <2>8. all(T) = all(U) \cup part[x] /\ all(U) \cap part[x] = {}
    <3>1. all(T) = all(U) \cup part[x]
      BY <2>5
    <3>2. ASSUME NEW y \in all(U), y \in part[x] PROVE FALSE
      <4>1. PICK o \in U : y \in part[o]
        OBVIOUS
      <4>2. o \in O /\ o # x
        BY <2>5
      <4> QED BY <2>5, <3>2, <4>1, <4>2
    <3> QED BY <3>1, <3>2
  <2>9. IsFiniteSet(all(U)) /\ \A y \in all(U) : f[y] \in Int
    <3>1. \A y \in all(U) : f[y] \in Int
      BY <2>5
    <3>2. IsFiniteSet(U)
      BY <2>2, <2>5, FS_Subset
    <3>3. IsFiniteSet({part[o] : o \in U})
      <4>1. [o \in U |-> part[o]] \in Surjection(U, {part[o] : o \in U})
        BY DEF Surjection
      <4> QED BY <3>2, <4>1, FS_Surjection
    <3>4. \A P \in {part[o] : o \in U} : IsFiniteSet(P)
      BY <2>5
    <3>5. IsFiniteSet(all(U))
      BY <3>3, <3>4, FS_UNION
    <3> QED BY <3>1, <3>5
  <2> HIDE DEF U, all
  <2>10. IsFiniteSet(part[x]) /\ \A y \in part[x] : f[y] \in Int
    BY <2>5
  <2>11. SumOver(f, all(T)) = SumOver(f, all(U)) + SumOver(f, part[x])
    BY <2>8, <2>9, <2>10, SumOfUnion
  <2>12. SumOver(f, all(U)) \in Int /\ SumOver(f, part[x]) \in Int
    BY <2>9, <2>10, SumType
  <2>13. sum[x] = SumOver(f, part[x])
    BY <2>5
  <2> QED BY <2>2, <2>6, <2>7, <2>11, <2>12, <2>13
<1> QED BY <1>1, <1>2

(* Rows first or columns first.                                            *)
LEMMA SumsExchange ==
  ASSUME NEW O, IsFiniteSet(O), NEW D, IsFiniteSet(D), NEW a,
         \A o \in O : \A d \in D : a[o][d] \in Int
  PROVE  SumOver([o \in O |-> SumOver(a[o], D)], O)
           = SumOver([d \in D |-> SumOver([o \in O |-> a[o][d]], O)], D)
<1> DEFINE row == [o \in O |-> SumOver(a[o], D)]
           entry(d) == [o \in O |-> a[o][d]]
           column(T) == [d \in D |-> SumOver(entry(d), T)]
           B == {T \in SUBSET O : SumOver(row, T) # SumOver(column(T), D)}
<1>0. \A o \in O : row[o] \in Int
  <2> SUFFICES ASSUME NEW o \in O PROVE SumOver(a[o], D) \in Int
    OBVIOUS
  <2> QED BY SumType
<1>1. CASE B = {}
  <2>1. O \notin B
    BY <1>1
  <2> QED BY <2>1
<1>2. CASE B # {}
  <2>1. PICK T \in B : \A U \in B : U \subseteq T => U = T
    <3> HIDE DEF B
    <3>1. B \in SUBSET (SUBSET O)
      BY DEF B
    <3> QED BY <1>2, <3>1, SmallestSet
  <2>2. /\ T \in SUBSET O /\ IsFiniteSet(T)
        /\ SumOver(row, T) # SumOver(column(T), D)
    BY FS_Subset
  <2>3. T # {}
    <3> SUFFICES ASSUME T = {} PROVE FALSE
      OBVIOUS
    <3>1. SumOver(row, T) = 0
      BY <2>2, SumByPicked
    <3>2. \A d \in D : column(T)[d] = 0
      <4> SUFFICES ASSUME NEW d \in D PROVE SumOver(entry(d), T) = 0
        OBVIOUS
      <4> QED BY <2>2, SumByPicked
    <3>3. /\ 0 * Cardinality(D) <= SumOver(column(T), D)
          /\ SumOver(column(T), D) <= 0 * Cardinality(D)
      <4> DEFINE c == column(T)
                 z == 0
      <4>1. z \in Int /\ \A d \in D : c[d] \in Int /\ z <= c[d] /\ c[d] <= z
        BY <3>2
      <4> HIDE DEF c, z
      <4>2. /\ z * Cardinality(D) <= SumOver(c, D)
            /\ SumOver(c, D) <= z * Cardinality(D)
        BY <4>1, SumBounds
      <4> QED BY <4>2 DEF c, z
    <3>4. SumOver(column(T), D) \in Int
      <4> DEFINE c == column(T)
      <4>1. \A d \in D : c[d] \in Int
        BY <3>2
      <4> HIDE DEF c
      <4>2. SumOver(c, D) \in Int
        BY <4>1, SumType
      <4> QED BY <4>2 DEF c
    <3>5. Cardinality(D) \in Nat
      BY FS_CardinalityType
    <3>6. SumOver(column(T), D) = 0
      <4> HIDE DEF column
      <4>1. 0 * Cardinality(D) = 0
        BY <3>5
      <4> QED BY <3>3, <3>4, <4>1
    <3> QED BY <2>2, <3>1, <3>6
  <2>4. PICK x \in T : TRUE
    BY <2>3
  <2> DEFINE U == T \ {x}
  <2>5. U \in SUBSET O /\ U \subseteq T /\ U # T /\ x \in O /\ IsFiniteSet(U)
    BY <2>2, FS_Subset
  <2>6. SumOver(row, U) = SumOver(column(U), D)
    BY <2>1, <2>5
  <2> HIDE DEF B
  <2>7. SumOver(row, T) = row[x] + SumOver(row, U)
    <3> HIDE DEF row
    <3> QED BY <1>0, <2>2, SumWithout
  <2>8. \A d \in D : /\ column(T)[d] \in Int
                     /\ a[x][d] \in Int
                     /\ column(U)[d] \in Int
                     /\ column(T)[d] = Combined(1, a[x][d], 1, column(U)[d])
    <3> SUFFICES ASSUME NEW d \in D
                 PROVE  /\ column(T)[d] \in Int
                        /\ a[x][d] \in Int
                        /\ column(U)[d] \in Int
                        /\ column(T)[d] = Combined(1, a[x][d], 1, column(U)[d])
      OBVIOUS
    <3>1. \A o \in O : entry(d)[o] \in Int
      OBVIOUS
    <3>2. a[x][d] \in Int /\ entry(d)[x] = a[x][d]
      BY <2>5
    <3>3. column(T)[d] = SumOver(entry(d), T) /\ column(U)[d] = SumOver(entry(d), U)
      OBVIOUS
    <3> HIDE DEF entry, column
    <3>4. SumOver(entry(d), T) \in Int /\ SumOver(entry(d), U) \in Int
      BY <2>2, <2>5, <3>1, SumType
    <3>5. SumOver(entry(d), T) = entry(d)[x] + SumOver(entry(d), U)
      BY <2>2, <3>1, SumWithout
    <3> QED BY <3>2, <3>3, <3>4, <3>5 DEF Combined
  <2>9. SumOver(column(T), D) = Combined(1, SumOver(a[x], D), 1, SumOver(column(U), D))
    <3> DEFINE c == column(T)
               b == column(U)
    <3>1. \A d \in D : a[x][d] \in Int /\ b[d] \in Int /\ c[d] = Combined(1, a[x][d], 1, b[d])
      BY <2>8
    <3> HIDE DEF b, c
    <3>2. SumOver(c, D) = Combined(1, SumOver(a[x], D), 1, SumOver(b, D))
      BY <3>1, SumLinear
    <3> QED BY <3>2 DEF b, c
  <2>10. row[x] = SumOver(a[x], D) /\ row[x] \in Int
    BY <1>0, <2>5
  <2>11. SumOver(column(U), D) \in Int
    <3> DEFINE b == column(U)
    <3>1. \A d \in D : b[d] \in Int
      BY <2>8
    <3> HIDE DEF b
    <3>2. SumOver(b, D) \in Int
      BY <3>1, SumType
    <3> QED BY <3>2 DEF b
  <2> HIDE DEF row, column
  <2> QED BY <2>2, <2>6, <2>7, <2>9, <2>10, <2>11 DEF Combined
<1>3. SumOver(row, O) = SumOver(column(O), D)
  BY <1>1, <1>2
<1> QED BY <1>3
=============================================================================
