--------------------------- MODULE RoutingProofs ---------------------------
(***************************************************************************)
(* What is proved of Routing, for any plans, stops, coordinates and        *)
(* requests.  The nearest-neighbour tour is a recursive function of the    *)
(* stops that are left: that it visits each of them once is shown by       *)
(* induction on finite sets, through the least counterexample.             *)
(***************************************************************************)
EXTENDS Routing, FiniteSetTheorems, SequenceTheorems, TLAPS

-----------------------------------------------------------------------------
(* Numbers: induction without an operator as a parameter.                   *)

\* The subsets of a finite set are well-founded, and so are the numbers.
LEMMA LeastNumber ==
  ASSUME NEW T \in SUBSET Nat, T # {}
  PROVE  \E m \in T : \A k \in T : m <= k
<1>1. PICK n \in T : TRUE
  OBVIOUS
<1> DEFINE Below == {0..(k - 1) : k \in {j \in T : j <= n}}
<1>2. IsFiniteSet(0..n) /\ n \in Nat
  BY FS_Interval
<1>3. IsWellFoundedOn(StrictSubsetOrdering(0..n), SUBSET (0..n))
  BY <1>2, FS_StrictSubsetOrderingWellFounded, FS_FiniteSubsetsOfFinite
<1>4. Below \subseteq SUBSET (0..n) /\ Below # {}
  <2>1. \A k \in T : k <= n => 0..(k - 1) \in SUBSET (0..n)
    BY <1>2
  <2>2. 0..(n - 1) \in Below
    BY <1>2
  <2> QED
    BY <2>1, <2>2
<1>5. PICK B \in Below : \A C \in Below : ~(<<C, B>> \in StrictSubsetOrdering(0..n))
  BY <1>3, <1>4, WFMin
<1>6. PICK m \in T : m <= n /\ B = 0..(m - 1)
  BY <1>5
<1>7. ASSUME NEW k \in T, k < m PROVE FALSE
  <2>1. 0..(k - 1) \in Below
    BY <1>6, <1>7, <1>2
  <2>2. 0..(k - 1) \subseteq B /\ k \in B /\ k \notin 0..(k - 1)
    BY <1>6, <1>7
  <2>3. <<0..(k - 1), B>> \in StrictSubsetOrdering(0..n)
    BY <1>4, <2>1, <2>2 DEF StrictSubsetOrdering
  <2> QED
    BY <1>5, <2>1, <2>3
<1> QED
  BY <1>7, <1>6

LEMMA Induction ==
  ASSUME NEW n \in Nat, NEW S, 0 \in S, \A k \in 1..n : k - 1 \in S => k \in S
  PROVE  n \in S
<1> SUFFICES ASSUME n \notin S PROVE FALSE
  OBVIOUS
<1> DEFINE T == {k \in 0..n : k \notin S}
<1>0. T \in SUBSET Nat /\ T # {}
  OBVIOUS
<1>1. PICK m \in T : \A k \in T : m <= k
  BY <1>0, LeastNumber
<1>2. m \in 1..n /\ m - 1 \in 0..n /\ ~(m <= m - 1)
  BY <1>1
<1> QED
  BY <1>1, <1>2

-----------------------------------------------------------------------------
(* The tour.                                                                *)

Candidates(points, n, before) ==
  {i \in 1..Len(points) : \A k \in 1..(n - 1) : before[k] # i}

\* The tour of n points, from the one of n - 1.
Further(start, points, n, before) ==
  Append(before,
         Nearest(IF n = 1 THEN start ELSE points[before[n - 1]], points, Candidates(points, n, before)))

IsTour(f, start, points, last) ==
  f = [n \in 0..last |-> IF n = 0 THEN <<>> ELSE Further(start, points, n, f[n - 1])]

LEMMA TourIsChosen ==
  ASSUME NEW start, NEW points
  PROVE  NearestNeighborOrder(start, points) =
           (CHOOSE f : IsTour(f, start, points, Len(points)))[Len(points)]
BY DEF NearestNeighborOrder, IsTour, Further, Candidates

\* What is defined from the tour before is defined for all of them.
LEMMA TourExists ==
  ASSUME NEW start, NEW points, NEW n \in Nat
  PROVE  \E f : IsTour(f, start, points, n)
<1> DEFINE S == {k \in Nat : \E f : IsTour(f, start, points, k)}
<1>1. 0 \in S
  <2>1. IsTour([k \in 0..0 |-> <<>>], start, points, 0)
    BY DEF IsTour
  <2> QED
    BY <2>1
<1>2. ASSUME NEW k \in 1..n, k - 1 \in S PROVE k \in S
  <2>1. PICK f : IsTour(f, start, points, k - 1)
    BY <1>2
  <2> DEFINE g == [m \in 0..k |-> IF m = k THEN Further(start, points, k, f[k - 1]) ELSE f[m]]
  <2>2. \A m \in 0..(k - 1) : f[m] = IF m = 0 THEN <<>> ELSE Further(start, points, m, f[m - 1])
    BY <2>1 DEF IsTour
  <2>3. \A m \in 1..k : g[m - 1] = f[m - 1]
    OBVIOUS
  <2>4. \A m \in 0..k : g[m] = IF m = 0 THEN <<>> ELSE Further(start, points, m, g[m - 1])
    BY <2>2, <2>3
  <2>5. IsTour(g, start, points, k)
    BY <2>4 DEF IsTour
  <2> QED
    BY <2>5
<1> HIDE DEF S
<1>3. n \in S
  BY <1>1, <1>2, Induction
<1> QED
  BY <1>3 DEF S

\* Some candidate is nearest.
LEMMA NearestIsCandidate ==
  ASSUME NEW n \in Nat, NEW points \in [1..n -> Nat], NEW current \in Nat,
         NEW left \in SUBSET (1..n), left # {}
  PROVE  Nearest(current, points, left) \in left
<1> DEFINE far(i) == Distance(current, points[i])
<1>1. \A i \in left : far(i) \in Nat
  BY DEF Distance
<1>2. PICK d \in {far(i) : i \in left} : \A e \in {far(i) : i \in left} : d <= e
  <2>1. {far(i) : i \in left} \in SUBSET Nat /\ {far(i) : i \in left} # {}
    BY <1>1
  <2> QED
    BY <2>1, LeastNumber
<1> DEFINE near == {i \in left : far(i) = d}
<1>3. PICK m \in near : \A k \in near : m <= k
  <2>1. near \in SUBSET Nat /\ near # {}
    BY <1>2
  <2> QED
    BY <2>1, LeastNumber
<1>4. ASSUME NEW j \in left PROVE far(m) < far(j) \/ (far(m) = far(j) /\ m <= j)
  <2>1. PICK x, y \in Nat : x = far(m) /\ y = far(j)
    BY <1>1, <1>3
  <2>2. x <= y
    BY <1>2, <1>3, <2>1
  <2>3. y = x => m <= j
    BY <1>3, <2>1
  <2>4. x < y \/ (x = y /\ m <= j)
    BY <2>2, <2>3
  <2> QED
    BY <2>1, <2>4
<1>5. \E i \in left : \A j \in left :
        \/ Distance(current, points[i]) < Distance(current, points[j])
        \/ Distance(current, points[i]) = Distance(current, points[j]) /\ i <= j
  BY <1>3, <1>4
<1> QED
  BY <1>5 DEF Nearest

LEMMA FunctionIsSeq ==
  ASSUME NEW n \in Nat, NEW T, NEW f \in [1..n -> T]
  PROVE  f \in Seq(T) /\ Len(f) = n
OBVIOUS

\* n points are visited, each once.
LEMMA TourVisitsAll ==
  ASSUME NEW n \in Nat, NEW points \in [1..n -> Nat], NEW start \in Nat
  PROVE  NearestNeighborOrder(start, points) \in Injection(1..n, 1..n)
<1>1. points \in Seq(Nat) /\ Len(points) = n
  BY FunctionIsSeq
<1>2. PICK f : /\ IsTour(f, start, points, n)
               /\ NearestNeighborOrder(start, points) = f[n]
  BY <1>1, TourExists, TourIsChosen
<1>3. f[0] = <<>> /\ \A k \in 1..n : f[k] = Further(start, points, k, f[k - 1])
  BY <1>2 DEF IsTour
<1> DEFINE S == {k \in 0..n : f[k] \in Injection(1..k, 1..n)}
<1>4. 0 \in S
  <2>1. <<>> \in [1..0 -> 1..n] /\ 1..0 = {}
    OBVIOUS
  <2>2. <<>> \in Injection(1..0, 1..n)
    BY <2>1 DEF Injection, IsInjective
  <2> QED
    BY <1>3, <2>2
<1>5. ASSUME NEW k \in 1..n, k - 1 \in S PROVE k \in S
  <2>1. PICK before \in Injection(1..(k - 1), 1..n) : before = f[k - 1]
    BY <1>5
  <2>2. before \in [1..(k - 1) -> 1..n] /\ \A i, j \in 1..(k - 1) : before[i] = before[j] => i = j
    BY DEF Injection, IsInjective
  <2> DEFINE left == Candidates(points, k, before)
             current == IF k = 1 THEN start ELSE points[before[k - 1]]
             next == Nearest(current, points, left)
  <2>3. left \in SUBSET (1..n) /\ current \in Nat
    BY <1>1, <2>2 DEF Candidates
  <2>4. left # {}
    <3> SUFFICES ASSUME left = {} PROVE FALSE
      OBVIOUS
    <3>1. \A i \in 1..n : \E j \in 1..(k - 1) : before[j] = i
      BY <1>1 DEF Candidates
    <3>2. before \in Surjection(1..(k - 1), 1..n)
      BY <2>2, <3>1 DEF Surjection
    <3>3. IsFiniteSet(1..(k - 1)) /\ Cardinality(1..(k - 1)) = k - 1
      BY FS_Interval
    <3>4. Cardinality(1..n) = n
      BY FS_Interval
    <3>5. Cardinality(1..n) <= Cardinality(1..(k - 1))
      BY <3>2, <3>3, FS_Surjection
    <3> QED
      BY <3>3, <3>4, <3>5
  <2> HIDE DEF left, current
  <2>5. next \in left
    BY <2>3, <2>4, NearestIsCandidate
  <2>6. next \in 1..n /\ \A j \in 1..(k - 1) : before[j] # next
    BY <2>5, <2>3 DEF left, Candidates
  <2>7. f[k] = Append(before, next)
    BY <1>3, <2>1 DEF Further, left, current
  <2> HIDE DEF next
  <2>8. before \in Seq(1..n) /\ Len(before) = k - 1
    <3>1. k - 1 \in Nat
      OBVIOUS
    <3> QED
      BY <2>2, <3>1, FunctionIsSeq
  <2>9. /\ Append(before, next) \in [1..k -> 1..n]
        /\ \A j \in 1..(k - 1) : Append(before, next)[j] = before[j]
        /\ Append(before, next)[k] = next
    <3>1. /\ Append(before, next) \in Seq(1..n)
          /\ Len(Append(before, next)) = k
          /\ \A j \in 1..(k - 1) : Append(before, next)[j] = before[j]
          /\ Append(before, next)[k] = next
      BY <2>6, <2>8, AppendProperties
    <3> QED
      BY <3>1, LenProperties
  <2>10. PICK after : after = Append(before, next)
    OBVIOUS
  <2>11. after \in [1..k -> 1..n] /\ (\A j \in 1..(k - 1) : after[j] = before[j]) /\ after[k] = next
    BY <2>9, <2>10
  <2>12. ASSUME NEW i \in 1..k, NEW j \in 1..k, after[i] = after[j] PROVE i = j
    <3>1. \A m \in 1..k : m = k \/ m \in 1..(k - 1)
      OBVIOUS
    <3>2. CASE i = k
      BY <2>6, <2>11, <2>12, <3>1, <3>2
    <3>3. CASE j = k
      BY <2>6, <2>11, <2>12, <3>1, <3>3
    <3>4. CASE i \in 1..(k - 1) /\ j \in 1..(k - 1)
      BY <2>2, <2>11, <2>12, <3>4
    <3> QED
      BY <3>1, <3>2, <3>3, <3>4
  <2>13. after \in Injection(1..k, 1..n)
    BY <2>11, <2>12 DEF Injection, IsInjective
  <2> QED
    <3>1. f[k] \in Injection(1..k, 1..n)
      BY <2>7, <2>10, <2>13
    <3>2. k \in 0..n
      OBVIOUS
    <3> QED
      BY <3>1, <3>2
<1> HIDE DEF S
<1>6. n \in S
  BY <1>4, <1>5, Induction
<1> QED
  BY <1>2, <1>6 DEF S

-----------------------------------------------------------------------------
(* The line of stops.                                                       *)

\* n different numbers fit between a and b only if there are n of them.
LEMMA Crowding ==
  ASSUME NEW S, IsFiniteSet(S), NEW a \in Int, NEW b \in Int,
         NEW f \in [S -> a..b], \A s, t \in S : f[s] = f[t] => s = t, S # {}
  PROVE  Cardinality(S) <= b - a + 1
<1>1. f \in Injection(S, a..b)
  BY DEF Injection, IsInjective
<1>2. IsFiniteSet(a..b) /\ Cardinality(a..b) = IF a > b THEN 0 ELSE b - a + 1
  BY FS_Interval
<1>3. Cardinality(S) <= Cardinality(a..b)
  BY <1>1, <1>2, FS_Injection
<1>4. PICK s \in S : TRUE
  OBVIOUS
<1>5. f[s] \in Int /\ a <= f[s] /\ f[s] <= b
  OBVIOUS
<1>6. ~(a > b)
  BY <1>5
<1> QED
  BY <1>2, <1>3, <1>6

\* n different numbers up to n are all numbers up to n.
LEMMA Packing ==
  ASSUME NEW S, IsFiniteSet(S), NEW f \in [S -> 1..Cardinality(S)],
         \A s, t \in S : f[s] = f[t] => s = t
  PROVE  {f[s] : s \in S} = 1..Cardinality(S)
<1>1. f \in Injection(S, 1..Cardinality(S))
  BY DEF Injection, IsInjective
<1>2. Cardinality(S) \in Nat
  BY FS_CardinalityType
<1>3. IsFiniteSet(1..Cardinality(S)) /\ Cardinality(1..Cardinality(S)) = Cardinality(S)
  BY <1>2, FS_Interval
<1>4. f \in Surjection(S, 1..Cardinality(S))
  BY <1>1, <1>3, FS_Injection
<1>5. \A n \in 1..Cardinality(S) : \E s \in S : f[s] = n
  BY <1>4 DEF Surjection
<1> QED
  BY <1>5

\* The place of each in the order of its number is how many come up to it.
LEMMA LineExists ==
  ASSUME NEW ids, IsFiniteSet(ids), NEW number \in [ids -> Nat],
         \A s, t \in ids : number[s] = number[t] => s = t
  PROVE  \E line \in [1..Cardinality(ids) -> ids] :
           \A i, j \in 1..Cardinality(ids) : i < j =>
             line[i] # line[j] /\ number[line[i]] <= number[line[j]]
<1> DEFINE upTo(s) == {t \in ids : number[t] <= number[s]}
           rank == [s \in ids |-> Cardinality(upTo(s))]
           n == Cardinality(ids)
<1>1. n \in Nat
  BY FS_CardinalityType
<1>2. \A s \in ids : IsFiniteSet(upTo(s)) /\ Cardinality(upTo(s)) \in 1..n
  <2> SUFFICES ASSUME NEW s \in ids
               PROVE  IsFiniteSet(upTo(s)) /\ Cardinality(upTo(s)) \in 1..n
    OBVIOUS
  <2>1. upTo(s) \in SUBSET ids /\ s \in upTo(s)
    OBVIOUS
  <2>2. IsFiniteSet(upTo(s)) /\ Cardinality(upTo(s)) <= n
    BY <2>1, FS_Subset
  <2>3. Cardinality(upTo(s)) \in Nat /\ Cardinality(upTo(s)) # 0
    BY <2>1, <2>2, FS_CardinalityType, FS_EmptySet
  <2> QED
    BY <1>1, <2>2, <2>3
<1>3. ASSUME NEW s \in ids, NEW t \in ids, number[s] < number[t]
      PROVE  rank[s] < rank[t]
  <2>1. upTo(s) \in SUBSET upTo(t) /\ t \in upTo(t) /\ t \notin upTo(s)
    BY <1>3
  <2>2. Cardinality(upTo(s)) <= Cardinality(upTo(t)) /\ Cardinality(upTo(s)) # Cardinality(upTo(t))
    BY <1>2, <2>1, FS_Subset
  <2> QED
    BY <1>2, <2>2
<1>4. rank \in [ids -> 1..n]
  BY <1>2
<1> HIDE DEF upTo, rank
<1>5. ASSUME NEW s \in ids, NEW t \in ids, rank[s] = rank[t] PROVE s = t
  <2>1. number[s] \in Nat /\ number[t] \in Nat /\ rank[s] \in Nat /\ rank[t] \in Nat
    BY <1>1, <1>4
  <2>2. ~(number[s] < number[t]) /\ ~(number[t] < number[s])
    BY <1>3, <1>5, <2>1
  <2> QED
    BY <2>1, <2>2
<1>6. {rank[s] : s \in ids} = 1..n
  BY <1>4, <1>5, Packing
<1> DEFINE line == [i \in 1..n |-> CHOOSE s \in ids : rank[s] = i]
<1>7. \A i \in 1..n : line[i] \in ids /\ rank[line[i]] = i
  BY <1>6
<1> HIDE DEF line
<1>8. ASSUME NEW i \in 1..n, NEW j \in 1..n, i < j
      PROVE  line[i] # line[j] /\ number[line[i]] <= number[line[j]]
  <2>1. PICK s, t \in ids : s = line[i] /\ t = line[j]
    BY <1>7
  <2>2. rank[s] = i /\ rank[t] = j
    BY <1>7, <2>1
  <2>3. ~(rank[t] < rank[s])
    BY <1>8, <2>2
  <2>4. ~(number[t] < number[s])
    BY <1>3, <2>3
  <2> QED
    BY <1>8, <2>1, <2>2, <2>4
<1>9. line \in [1..n -> ids]
  BY <1>7 DEF line
<1> QED
  BY <1>8, <1>9

\* The stops that a request reads come in the order of their sequences, when
\* these are distinct.
LEMMA InSequenceSorts ==
  ASSUME NEW ids, IsFiniteSet(ids), \A s \in ids : stops[s].sequence \in Nat,
         \A s, t \in ids : stops[s].sequence = stops[t].sequence => s = t
  PROVE  /\ InSequence(ids) \in [1..Cardinality(ids) -> ids]
         /\ \A i, j \in 1..Cardinality(ids) : i < j =>
              /\ InSequence(ids)[i] # InSequence(ids)[j]
              /\ stops[InSequence(ids)[i]].sequence <= stops[InSequence(ids)[j]].sequence
<1> DEFINE number == [s \in ids |-> stops[s].sequence]
           n == Cardinality(ids)
<1>1. number \in [ids -> Nat] /\ \A s, t \in ids : number[s] = number[t] => s = t
  OBVIOUS
<1> HIDE DEF number
<1>2. PICK line \in [1..n -> ids] :
        \A i, j \in 1..n : i < j => line[i] # line[j] /\ number[line[i]] <= number[line[j]]
  BY <1>1, LineExists
<1>3. \A s \in ids : number[s] = stops[s].sequence
  BY DEF number
<1>4. \A i, j \in 1..n : i < j =>
        line[i] # line[j] /\ stops[line[i]].sequence <= stops[line[j]].sequence
  BY <1>2, <1>3
<1>5. \E f \in [1..n -> ids] : \A i, j \in 1..n : i < j =>
        /\ f[i] # f[j]
        /\ stops[f[i]].sequence <= stops[f[j]].sequence
  BY <1>4
<1> QED
  BY <1>5 DEF InSequence

\* Recalculating gives the pending stops numbers in the range they have.
LEMMA RecalculationStays ==
  ASSUME RoutingAssumption, NEW last \in Nat,
         \A s \in Pending : stops[s].sequence \in 1..last /\ stops[s].delivery \in Delivery,
         \A s, t \in Pending : stops[s].sequence = stops[t].sequence => s = t,
         NEW r \in Request, Recalculate(r)
  PROVE  \E moves :
           /\ Opens(r, Plan("recalculate", moves, NoStops, {}))
           /\ DOMAIN moves \subseteq Pending
           /\ \A s \in DOMAIN moves : moves[s] \in 1..last
<1> DEFINE n == Cardinality(Pending)
           line == InSequence(Pending)
           points == [i \in DOMAIN line |-> Location[stops[line[i]].delivery]]
           tour == NearestNeighborOrder(points[1], points)
           turn(s) == CHOOSE k \in DOMAIN tour : line[tour[k]] = s
           base == stops[line[1]].sequence
           moves == Changed([s \in Pending |-> base + turn(s) - 1])
<1>1. IsFiniteSet(Pending) /\ n \in Nat
  <2>1. IsFiniteSet(StopId)
    BY FS_Interval DEF RoutingAssumption, StopId
  <2> QED
    BY <2>1, FS_Subset, FS_CardinalityType DEF Pending
<1>2. /\ line \in [1..n -> Pending]
      /\ \A i, j \in 1..n : i < j =>
           line[i] # line[j] /\ stops[line[i]].sequence <= stops[line[j]].sequence
  BY <1>1, InSequenceSorts
<1>3. n >= 2
  BY DEF Recalculate
<1>4. Opens(r, Plan("recalculate", moves, NoStops, {}))
  BY DEF Recalculate
<1> HIDE DEF line
<1>5. points \in [1..n -> Nat] /\ points[1] \in Nat
  <2>1. DOMAIN line = 1..n /\ 1 \in 1..n
    BY <1>1, <1>2, <1>3
  <2>2. \A i \in 1..n : line[i] \in Pending
    BY <1>2
  <2>3. \A s \in Pending : Location[stops[s].delivery] \in Nat
    BY DEF RoutingAssumption
  <2>4. points = [i \in 1..n |-> Location[stops[line[i]].delivery]]
    BY <2>1
  <2> HIDE DEF points
  <2>5. points \in [1..n -> Nat]
    BY <2>2, <2>3, <2>4
  <2> QED
    BY <2>1, <2>5
<1> HIDE DEF points
<1>6. tour \in Injection(1..n, 1..n)
  BY <1>1, <1>5, TourVisitsAll
<1> HIDE DEF tour
<1>7. line \in Injection(1..n, Pending)
  <2>1. ASSUME NEW i \in 1..n, NEW j \in 1..n, line[i] = line[j] PROVE i = j
    BY <1>1, <1>2, <2>1
  <2> QED
    BY <1>2, <2>1 DEF Injection, IsInjective
<1>8. IsFiniteSet(1..n) /\ Cardinality(1..n) = n
  BY <1>1, FS_Interval
<1>9. line \in Surjection(1..n, Pending) /\ tour \in Surjection(1..n, 1..n)
  BY <1>1, <1>6, <1>7, <1>8, FS_Injection
<1>10. ASSUME NEW s \in Pending PROVE turn(s) \in 1..n
  <2>1. PICK i \in 1..n : line[i] = s
    BY <1>9 DEF Surjection
  <2>2. PICK k \in 1..n : tour[k] = i
    BY <1>9 DEF Surjection
  <2>3. DOMAIN tour = 1..n
    BY <1>6 DEF Injection
  <2> QED
    BY <2>1, <2>2, <2>3
<1> HIDE DEF turn
<1>11. line[1] \in Pending /\ base \in 1..last
  BY <1>1, <1>2, <1>3
<1>12. \A s \in Pending : base <= stops[s].sequence
  <2> SUFFICES ASSUME NEW s \in Pending PROVE base <= stops[s].sequence
    OBVIOUS
  <2>1. PICK i \in 1..n : line[i] = s
    BY <1>9 DEF Surjection
  <2>2. i = 1 \/ 1 < i
    BY <1>1
  <2> QED
    BY <1>1, <1>2, <1>3, <1>11, <2>1, <2>2
<1>13. n <= last - base + 1
  <2> DEFINE number == [s \in Pending |-> stops[s].sequence]
  <2>1. number \in [Pending -> base..last]
    BY <1>11, <1>12
  <2>2. \A s, t \in Pending : number[s] = number[t] => s = t
    OBVIOUS
  <2>3. Pending # {} /\ base \in Int /\ last \in Int
    BY <1>11
  <2> HIDE DEF number
  <2> QED
    BY <1>1, <2>1, <2>2, <2>3, Crowding
<1>14. \A s \in Pending : base + turn(s) - 1 \in 1..last
  BY <1>1, <1>10, <1>11, <1>13
<1>15. DOMAIN moves \subseteq Pending /\ \A s \in DOMAIN moves : moves[s] = base + turn(s) - 1
  BY DEF Changed
<1> QED
  BY <1>4, <1>14, <1>15

\* A route is created with the stops numbered from 1.
LEMMA CreationNumbers ==
  ASSUME RoutingAssumption, NEW n \in Nat, NEW deliveries \in [1..n -> Delivery], NEW ids \in Keys(n),
         NEW start \in Nat, CreateRoute(deliveries, start, ids)
  PROVE  \A s \in StopId :
           \/ /\ \A k \in 1..n : ids[k] # s
              /\ stops'[s] = Unused
           \/ \E k \in 1..n, d \in Delivery : ids[k] = s /\ stops'[s] = NewStop(d, k)
<1> DEFINE points == [i \in DOMAIN deliveries |-> Location[deliveries[i]]]
           tour == NearestNeighborOrder(start, points)
           turn(s) == CHOOSE k \in DOMAIN tour : ids[k] = s
<1>1. stops' = [s \in StopId |->
                  IF \E k \in DOMAIN tour : ids[k] = s
                  THEN NewStop(deliveries[tour[turn(s)]], turn(s))
                  ELSE Unused]
  BY DEF CreateRoute
<1>2. points \in [1..n -> Nat]
  BY DEF RoutingAssumption
<1> HIDE DEF points
<1>3. tour \in [1..n -> 1..n] /\ DOMAIN tour = 1..n
  BY <1>2, TourVisitsAll DEF Injection
<1> HIDE DEF tour
<1>4. ASSUME NEW s \in StopId, NEW k \in 1..n, ids[k] = s
      PROVE  /\ turn(s) = k
             /\ deliveries[tour[turn(s)]] \in Delivery
  <2>1. turn(s) \in 1..n /\ ids[turn(s)] = s
    BY <1>3, <1>4
  <2>2. turn(s) = k
    BY <1>4, <2>1 DEF Keys
  <2>3. tour[k] \in 1..n
    BY <1>3
  <2> QED
    BY <2>2, <2>3
<1> HIDE DEF turn
<1> QED
  BY <1>1, <1>3, <1>4

-----------------------------------------------------------------------------
(* The invariant.                                                           *)

Used == {s \in StopId : stops[s] # Unused}

\* What a plan may hold, whatever has happened since it was made: only an add
\* has a new stop, of a key that is still free, and no sequence goes beyond the
\* number of keys in use by the time it is committed.
PlanFits(p) ==
  /\ p.op \in {"add", "remove", "recalculate", "delete"}
  /\ DOMAIN p.moves \subseteq StopId
  /\ \A s \in DOMAIN p.moves :
       p.moves[s] \in 1..(IF p.op = "add" THEN Cardinality(Used) + 1 ELSE Cardinality(Used))
  /\ p.old \subseteq Used
  /\ p.op \notin {"remove", "delete"} => p.old = {}
  /\ p.op = "delete" => DOMAIN p.moves = {}
  /\ IF p.op = "add"
     THEN \E id \in StopId \ Used :
            /\ DOMAIN p.new = {id}
            /\ p.new[id] \in StopRow
            /\ p.new[id].state = "pending"
            /\ p.new[id].sequence <= Cardinality(Used) + 1
     ELSE DOMAIN p.new = {}

\* The rows, and the status of a route that has none.
RowsFit ==
  /\ route \in {"none", "planned", "active", "completed", "deleted"}
  /\ stops \in [StopId -> StopRow \cup {Unused, Removed}]
  /\ \A s \in Live : stops[s].sequence <= Cardinality(Used)
  /\ \A s, t \in Live : stops[s].sequence = stops[t].sequence => s = t
  /\ route = "none" => Used = {} /\ \A r \in Request : request[r] = Idle
  /\ route = "deleted" => Live = {}

PlansFit ==
  /\ request = [r \in Request |-> request[r]]
  /\ \A r \in Request : request[r] # Idle => PlanFits(request[r])
  /\ \A r, q \in Request :
       request[r] # Idle /\ request[q] # Idle /\ r # q =>
         DOMAIN request[r].new \cap DOMAIN request[q].new = {}

Recalculating == {r \in Request : request[r].op = "recalculate"}

Logged ==
  /\ recalculations \in Nat
  /\ recalculations + Cardinality(Recalculating) <= MaxRecalculations
  /\ raced \in BOOLEAN

\* A plan as it would be made now.
AddsNow(p) ==
  \E id \in StopId :
    LET pos == p.new[id].sequence
    IN  /\ DOMAIN p.new = {id}
        /\ pos <= Cardinality(Live) + 1
        /\ DOMAIN p.moves = {t \in Live : stops[t].sequence >= pos}
        /\ \A t \in DOMAIN p.moves : p.moves[t] = stops[t].sequence + 1

RemovesNow(p) ==
  \E id \in Live :
    /\ p.old = {id}
    /\ DOMAIN p.moves = {t \in Live : stops[t].sequence > stops[id].sequence}
    /\ \A t \in DOMAIN p.moves : p.moves[t] = stops[t].sequence - 1

\* A plan that leads nowhere beyond the stops there are.
StaysWithin(p) ==
  /\ \A s \in DOMAIN p.moves : p.moves[s] \in 1..Cardinality(Live)
  /\ \A s \in DOMAIN p.new : p.new[s].sequence \in 1..Cardinality(Live)

\* As long as no removal overlaps, what is removed is what was read; what is added
\* is, too, unless another stop has been added: then it has no place.
PlanHolds(p) ==
  /\ p.op = "remove" => RemovesNow(p)
  /\ p.op = "add" => AddsNow(p) \/ StaysWithin(p)
  /\ p.op = "recalculate" => StaysWithin(p)

Gapless ==
  ~raced /\ route # "deleted" =>
    /\ {stops[s].sequence : s \in Live} = 1..Cardinality(Live)
    /\ \A r \in Request : request[r] # Idle => PlanHolds(request[r])

Typed == RowsFit /\ PlansFit /\ Logged

RoutingInv == Typed /\ Gapless

-----------------------------------------------------------------------------
(* Counting keys.                                                           *)

LEMMA KeysAreFinite ==
  /\ IsFiniteSet(StopId) /\ Cardinality(StopId) = MaxStops
  /\ IsFiniteSet(Used) /\ Cardinality(Used) \in Nat /\ Cardinality(Used) <= MaxStops
  /\ IsFiniteSet(Live) /\ Cardinality(Live) \in Nat
  /\ \A id \in StopId \ Used : Cardinality(Used) + 1 <= MaxStops
<1>1. IsFiniteSet(StopId) /\ Cardinality(StopId) = MaxStops
  BY RoutingAssumption, FS_Interval DEF StopId
<1>2. Used \in SUBSET StopId /\ Live \in SUBSET StopId
  BY DEF Used, Live
<1>3. /\ IsFiniteSet(Used) /\ Cardinality(Used) <= MaxStops
      /\ IsFiniteSet(Live)
  BY <1>1, <1>2, FS_Subset
<1>4. Cardinality(Used) \in Nat /\ Cardinality(Live) \in Nat
  BY <1>3, FS_CardinalityType
<1>5. ASSUME NEW id \in StopId \ Used PROVE Cardinality(Used) + 1 <= MaxStops
  <2>1. Cardinality(Used \cup {id}) = Cardinality(Used) + 1
    BY <1>3, FS_AddElement
  <2>2. Used \cup {id} \in SUBSET StopId
    BY <1>2
  <2> QED
    BY <1>1, <2>1, <2>2, FS_Subset
<1> QED
  BY <1>1, <1>3, <1>4, <1>5

LEMMA LiveIsUsed ==
  /\ Live \subseteq Used
  /\ Cardinality(Live) <= Cardinality(Used)
<1>1. Live \in SUBSET Used
  BY DEF Live, Used, Unused
<1> QED
  BY <1>1, KeysAreFinite, FS_Subset

LEMMA LiveRows ==
  ASSUME RowsFit, NEW s \in Live
  PROVE  /\ stops[s] \in StopRow
         /\ stops[s].sequence \in Nat /\ 1 <= stops[s].sequence
         /\ stops[s].sequence <= Cardinality(Used)
BY DEF RowsFit, Live, StopRow, Position, Unused, Removed

\* The invariant gives the types.
LEMMA TypesFollow == Typed => TypeOK
<1> SUFFICES ASSUME Typed PROVE TypeOK
  OBVIOUS
<1> USE DEF Typed
<1>1. recalculations \in 0..MaxRecalculations
  <2>1. Recalculating \in SUBSET Request /\ IsFiniteSet(Request)
    BY RoutingAssumption DEF Recalculating
  <2>2. Cardinality(Recalculating) \in Nat
    BY <2>1, FS_Subset, FS_CardinalityType
  <2> QED
    BY <2>2, RoutingAssumption DEF Logged
<1>2. ASSUME NEW p, PlanFits(p)
      PROVE  /\ p.op \in Operation \ {"none"}
             /\ DOMAIN p.moves \subseteq StopId
             /\ \A s \in DOMAIN p.moves : p.moves[s] \in Position
             /\ DOMAIN p.new \subseteq StopId
             /\ \A s \in DOMAIN p.new : p.new[s] \in StopRow
             /\ p.old \subseteq StopId
  <2>1. \A s \in DOMAIN p.moves : p.moves[s] \in 1..(Cardinality(Used) + 1)
    BY <1>2, KeysAreFinite DEF PlanFits
  <2>2. Cardinality(Used) + 1 <= MaxStops + 1 /\ MaxStops \in Nat
    BY KeysAreFinite, RoutingAssumption
  <2>3. \A s \in DOMAIN p.moves : p.moves[s] \in Position
    BY <2>1, <2>2, KeysAreFinite DEF Position
  <2>4. Used \subseteq StopId
    BY DEF Used
  <2> QED
    BY <1>2, <2>3, <2>4 DEF PlanFits, Operation
<1>3. \A r \in Request : request[r] # Idle => PlanFits(request[r])
  BY DEF PlansFit
<1>4. \A r \in Request : request[r] # Idle =>
        /\ request[r].op \in Operation \ {"none"}
        /\ DOMAIN request[r].moves \subseteq StopId
        /\ \A s \in DOMAIN request[r].moves : request[r].moves[s] \in Position
        /\ DOMAIN request[r].new \subseteq StopId
        /\ \A s \in DOMAIN request[r].new : request[r].new[s] \in StopRow
        /\ request[r].old \subseteq StopId
  BY <1>2, <1>3
<1> QED
  BY <1>1, <1>4 DEF TypeOK, RowsFit, Logged

LEMMA InitHolds == Init => RoutingInv
<1> SUFFICES ASSUME Init PROVE RoutingInv
  OBVIOUS
<1>1. Used = {} /\ Live = {}
  BY DEF Init, Used, Live, Unused
<1>2. \A r \in Request : request[r] = Idle
  BY DEF Init
<1>3. Recalculating = {}
  BY <1>2 DEF Recalculating, Idle
<1>4. Cardinality({}) = 0
  BY FS_EmptySet
<1>5. RowsFit
  BY <1>1, <1>2 DEF Init, RowsFit
<1>6. PlansFit
  BY <1>2 DEF Init, PlansFit
<1>7. Logged
  <2>1. recalculations = 0 /\ raced = FALSE /\ Cardinality(Recalculating) = 0
    BY <1>3, <1>4 DEF Init
  <2>2. recalculations + Cardinality(Recalculating) <= MaxRecalculations
    BY <2>1, RoutingAssumption
  <2> QED
    BY <2>1, <2>2 DEF Logged
<1>8. Gapless
  BY <1>1, <1>2, <1>4 DEF Gapless
<1> QED
  BY <1>5, <1>6, <1>7, <1>8 DEF RoutingInv, Typed

-----------------------------------------------------------------------------
(* Steps that leave the rows as they are.                                   *)

\* What a plan may hold depends on the keys in use, and on the live stops.
LEMMA PlansStay ==
  ASSUME NEW p, Used' = Used
  PROVE  PlanFits(p)' <=> PlanFits(p)
BY DEF PlanFits

LEMMA PlansHold ==
  ASSUME NEW p, Live' = Live, \A s \in Live : stops'[s].sequence = stops[s].sequence
  PROVE  PlanHolds(p)' <=> PlanHolds(p)
<1>1. RemovesNow(p)' <=> RemovesNow(p)
  BY DEF RemovesNow
<1>2. AddsNow(p)' <=> AddsNow(p)
  BY DEF AddsNow
<1>3. StaysWithin(p)' <=> StaysWithin(p)
  BY DEF StaysWithin
<1> QED
  BY <1>1, <1>2, <1>3 DEF PlanHolds

LEMMA RecalculationsAreFinite ==
  /\ IsFiniteSet(Recalculating) /\ Cardinality(Recalculating) \in Nat
  /\ IsFiniteSet(Recalculating') /\ Cardinality(Recalculating') \in Nat
<1>1. Recalculating \in SUBSET Request /\ Recalculating' \in SUBSET Request /\ IsFiniteSet(Request)
  BY RoutingAssumption DEF Recalculating
<1> QED
  BY <1>1, FS_Subset, FS_CardinalityType

\* A plan that fits and holds is opened.
LEMMA OpeningKeeps ==
  ASSUME RoutingInv, NEW r \in Request, NEW p, Opens(r, p), PlanFits(p), route # "none",
         \A q \in Request : request[q] # Idle => DOMAIN p.new \cap DOMAIN request[q].new = {},
         p.op = "recalculate" =>
           recalculations + Cardinality(Recalculating) < MaxRecalculations,
         ~raced /\ route # "deleted" => PlanHolds(p)
  PROVE  RoutingInv'
<1> USE DEF RoutingInv, Typed
<1>1. /\ UNCHANGED <<route, stops, recalculations, raced>>
      /\ request' = [request EXCEPT ![r] = p]
      /\ request[r] = Idle
  BY DEF Opens
<1>2. Used' = Used /\ Live' = Live
  BY <1>1 DEF Used, Live
<1>3. /\ \A q \in Request : request'[q] = IF q = r THEN p ELSE request[q]
      /\ request' = [q \in Request |-> request'[q]]
  BY <1>1 DEF PlansFit
<1>4. RowsFit'
  BY <1>1, <1>2 DEF RowsFit
<1>5. PlansFit'
  <2>1. \A q \in Request : request'[q] # Idle => PlanFits(request'[q])
    BY <1>3 DEF PlansFit
  <2>2. ASSUME NEW q \in Request, request'[q] # Idle PROVE PlanFits(request[q])'
    <3>1. PICK x : x = request'[q]
      OBVIOUS
    <3>2. PlanFits(x)
      BY <2>1, <2>2, <3>1
    <3>3. PlanFits(x)'
      BY <1>2, <3>2, PlansStay
    <3> QED
      BY <3>1, <3>3
  <2>3. \A q, s \in Request : request'[q] # Idle /\ request'[s] # Idle /\ q # s =>
          DOMAIN request'[q].new \cap DOMAIN request'[s].new = {}
    BY <1>3 DEF PlansFit
  <2> QED
    BY <1>3, <2>2, <2>3 DEF PlansFit
<1>6. Logged'
  <2>1. r \notin Recalculating
    BY <1>1 DEF Recalculating, Idle
  <2>2. CASE p.op = "recalculate"
    <3>1. Recalculating' = Recalculating \cup {r}
      BY <1>3, <2>2 DEF Recalculating
    <3>2. Cardinality(Recalculating') = Cardinality(Recalculating) + 1
      BY <2>1, <3>1, RecalculationsAreFinite, FS_AddElement
    <3> QED
      BY <1>1, <2>2, <3>2, RecalculationsAreFinite, RoutingAssumption DEF Logged
  <2>3. CASE p.op # "recalculate"
    <3>1. Recalculating' = Recalculating
      BY <1>1, <1>3, <2>1, <2>3 DEF Recalculating
    <3> QED
      BY <1>1, <3>1 DEF Logged
  <2> QED
    BY <2>2, <2>3
<1>7. Gapless'
  <2> SUFFICES ASSUME ~raced, route # "deleted" PROVE Gapless'
    BY <1>1 DEF Gapless
  <2>1. {stops'[s].sequence : s \in Live'} = 1..Cardinality(Live')
    BY <1>1, <1>2 DEF Gapless
  <2>2. ASSUME NEW q \in Request, request'[q] # Idle PROVE PlanHolds(request[q])'
    <3>1. PICK x : x = request'[q]
      OBVIOUS
    <3>2. PlanHolds(x)
      BY <1>3, <2>2, <3>1 DEF Gapless
    <3>3. PlanHolds(x)'
      BY <1>1, <1>2, <3>2, PlansHold
    <3> QED
      BY <3>1, <3>3
  <2> QED
    BY <2>1, <2>2 DEF Gapless
<1> QED
  BY <1>4, <1>5, <1>6, <1>7

\* A request is closed without a trace.
LEMMA FailKeeps ==
  ASSUME RoutingInv, NEW r \in Request, Fail(r)
  PROVE  RoutingInv'
<1> USE DEF RoutingInv, Typed
<1>1. /\ UNCHANGED <<route, stops, recalculations, raced>>
      /\ request' = [request EXCEPT ![r] = Idle]
  BY DEF Fail
<1>2. Used' = Used /\ Live' = Live
  BY <1>1 DEF Used, Live
<1>3. /\ \A q \in Request : request'[q] = IF q = r THEN Idle ELSE request[q]
      /\ request' = [q \in Request |-> request'[q]]
  BY <1>1 DEF PlansFit
<1>4. RowsFit'
  BY <1>1, <1>2, <1>3 DEF RowsFit
<1>5. PlansFit'
  <2>1. ASSUME NEW q \in Request, request'[q] # Idle PROVE PlanFits(request[q])'
    <3>1. PICK x : x = request[q]
      OBVIOUS
    <3>2. x = request'[q] /\ PlanFits(x)
      BY <1>3, <2>1, <3>1 DEF PlansFit
    <3>3. PlanFits(x)'
      BY <1>2, <3>2, PlansStay
    <3> QED
      BY <3>2, <3>3
  <2>2. \A q, s \in Request : request'[q] # Idle /\ request'[s] # Idle /\ q # s =>
          DOMAIN request'[q].new \cap DOMAIN request'[s].new = {}
    BY <1>3 DEF PlansFit
  <2> QED
    BY <1>3, <2>1, <2>2 DEF PlansFit
<1>6. Logged'
  <2>1. Recalculating' \in SUBSET Recalculating
    BY <1>3 DEF Recalculating, Idle
  <2>2. Cardinality(Recalculating') <= Cardinality(Recalculating)
    BY <2>1, RecalculationsAreFinite, FS_Subset
  <2> QED
    BY <1>1, <2>2, RecalculationsAreFinite, RoutingAssumption DEF Logged
<1>7. Gapless'
  <2> SUFFICES ASSUME ~raced, route # "deleted" PROVE Gapless'
    BY <1>1 DEF Gapless
  <2>1. {stops'[s].sequence : s \in Live'} = 1..Cardinality(Live')
    BY <1>1, <1>2 DEF Gapless
  <2>2. ASSUME NEW q \in Request, request'[q] # Idle PROVE PlanHolds(request[q])'
    <3>1. PICK x : x = request[q]
      OBVIOUS
    <3>2. x = request'[q] /\ PlanHolds(x)
      BY <1>3, <2>2, <3>1 DEF Gapless
    <3>3. PlanHolds(x)'
      BY <1>1, <1>2, <3>2, PlansHold
    <3> QED
      BY <3>2, <3>3
  <2> QED
    BY <2>1, <2>2 DEF Gapless
<1> QED
  BY <1>4, <1>5, <1>6, <1>7

-----------------------------------------------------------------------------
(* The plans that requests make.                                            *)

LEMMA AddKeeps ==
  ASSUME RoutingInv, NEW r \in Request, NEW d \in Delivery, NEW position \in Position,
         NEW id \in StopId, AddStop(r, d, position, id)
  PROVE  RoutingInv'
<1> USE DEF RoutingInv, Typed
<1> DEFINE last == Cardinality(Live) + 1
           pos == IF position < last THEN position ELSE last
           moves == [s \in {t \in Live : stops[t].sequence >= pos} |-> stops[s].sequence + 1]
           new == [s \in {id} |-> NewStop(d, pos)]
           p == Plan("add", moves, new, {})
<1>1. Opens(r, p) /\ route = "planned" /\ stops[id] = Unused
  BY DEF AddStop
<1>2. \A q \in Request : request[q] # Idle => id \notin DOMAIN request[q].new
  BY DEF AddStop
<1>3. position \in Nat /\ 1 <= position /\ last \in Nat /\ 1 <= last
  BY KeysAreFinite, RoutingAssumption DEF Position
<1>4. pos \in Nat /\ 1 <= pos /\ pos <= Cardinality(Live) + 1
  BY <1>3
<1>5. pos <= Cardinality(Used) + 1 /\ Cardinality(Used) \in Nat /\ Cardinality(Live) \in Nat
  BY <1>4, LiveIsUsed, KeysAreFinite
<1>6. id \in StopId \ Used /\ Cardinality(Used) + 1 <= MaxStops
  BY <1>1, KeysAreFinite DEF Used
<1> HIDE DEF pos
<1>7. NewStop(d, pos) \in StopRow /\ NewStop(d, pos).state = "pending" /\ NewStop(d, pos).sequence = pos
  BY <1>4, <1>5, <1>6, RoutingAssumption DEF NewStop, StopRow, Position
<1>8. DOMAIN new = {id} /\ new[id] = NewStop(d, pos)
  OBVIOUS
<1>9. /\ DOMAIN moves = {t \in Live : stops[t].sequence >= pos}
      /\ \A s \in DOMAIN moves : moves[s] = stops[s].sequence + 1
  OBVIOUS
<1>10. DOMAIN moves \subseteq StopId /\ \A s \in DOMAIN moves : moves[s] \in 1..(Cardinality(Used) + 1)
  <2>1. \A s \in Live : stops[s].sequence \in Nat /\ stops[s].sequence <= Cardinality(Used)
    BY LiveRows
  <2>2. Live \subseteq StopId
    BY DEF Live
  <2> QED
    BY <1>5, <1>9, <2>1, <2>2
<1>11. p.op = "add" /\ p.moves = moves /\ p.new = new /\ p.old = {}
  BY DEF Plan
<1> HIDE DEF p, moves, new
<1>12. PlanFits(p)
  BY <1>5, <1>6, <1>7, <1>8, <1>10, <1>11 DEF PlanFits
<1>13. PlanHolds(p)
  <2>1. AddsNow(p)
    BY <1>4, <1>7, <1>8, <1>9, <1>11 DEF AddsNow
  <2> QED
    BY <1>11, <2>1 DEF PlanHolds
<1>14. \A q \in Request : request[q] # Idle => DOMAIN p.new \cap DOMAIN request[q].new = {}
  BY <1>2, <1>8, <1>11
<1> QED
  BY <1>1, <1>11, <1>12, <1>13, <1>14, OpeningKeeps

LEMMA RemoveKeeps ==
  ASSUME RoutingInv, NEW r \in Request, NEW id \in StopId, RemoveStop(r, id)
  PROVE  RoutingInv'
<1> USE DEF RoutingInv, Typed
<1> DEFINE moves == [s \in {t \in Live : stops[t].sequence > stops[id].sequence} |-> stops[s].sequence - 1]
           p == Plan("remove", moves, NoStops, {id})
<1>1. Opens(r, p) /\ route = "planned" /\ id \in Live
  BY DEF RemoveStop
<1>2. /\ DOMAIN moves = {t \in Live : stops[t].sequence > stops[id].sequence}
      /\ \A s \in DOMAIN moves : moves[s] = stops[s].sequence - 1
  OBVIOUS
<1>3. p.op = "remove" /\ p.moves = moves /\ DOMAIN p.new = {} /\ p.old = {id}
  BY DEF Plan, NoStops
<1> HIDE DEF p, moves
<1>4. DOMAIN moves \subseteq StopId /\ \A s \in DOMAIN moves : moves[s] \in 1..Cardinality(Used)
  <2>1. \A s \in Live : /\ stops[s].sequence \in Nat /\ 1 <= stops[s].sequence
                        /\ stops[s].sequence <= Cardinality(Used)
    BY LiveRows
  <2>2. Live \subseteq StopId
    BY DEF Live
  <2> QED
    BY <1>1, <1>2, <2>1, <2>2, KeysAreFinite
<1>5. PlanFits(p)
  BY <1>1, <1>3, <1>4, LiveIsUsed DEF PlanFits
<1>6. PlanHolds(p)
  <2>1. RemovesNow(p)
    BY <1>1, <1>2, <1>3 DEF RemovesNow
  <2> QED
    BY <1>3, <2>1 DEF PlanHolds
<1> QED
  BY <1>1, <1>3, <1>5, <1>6, OpeningKeeps

LEMMA DeleteKeeps ==
  ASSUME RoutingInv, NEW r \in Request, DeleteRoute(r)
  PROVE  RoutingInv'
<1> USE DEF RoutingInv, Typed
<1> DEFINE p == Plan("delete", NoMoves, NoStops, Live)
<1>1. Opens(r, p) /\ route \in {"planned", "completed"}
  BY DEF DeleteRoute
<1>2. p.op = "delete" /\ DOMAIN p.moves = {} /\ DOMAIN p.new = {} /\ p.old = Live
  BY DEF Plan, NoStops, NoMoves
<1> HIDE DEF p
<1>3. PlanFits(p) /\ PlanHolds(p)
  BY <1>2, LiveIsUsed DEF PlanFits, PlanHolds
<1> QED
  BY <1>1, <1>2, <1>3, OpeningKeeps

LEMMA RecalculateKeeps ==
  ASSUME RoutingInv, NEW r \in Request, Recalculate(r)
  PROVE  RoutingInv'
<1> USE DEF RoutingInv, Typed
<1>1. Pending \subseteq Live
  BY DEF Pending, Live
<1>2. \A s \in Pending : stops[s].sequence \in 1..Cardinality(Used) /\ stops[s].delivery \in Delivery
  BY <1>1, LiveRows, KeysAreFinite DEF StopRow
<1>3. \A s, t \in Pending : stops[s].sequence = stops[t].sequence => s = t
  BY <1>1 DEF RowsFit
<1>4. route # "none"
  <2>1. Used = {} => Cardinality(Pending) = 0
    BY <1>1, LiveIsUsed, FS_EmptySet
  <2>2. Cardinality(Pending) >= 2
    BY DEF Recalculate
  <2> QED
    BY <2>1, <2>2 DEF RowsFit
<1>5. CASE ~raced /\ route # "deleted"
  <2>1. \A s \in Pending : stops[s].sequence \in 1..Cardinality(Live)
    BY <1>1, <1>5 DEF Gapless
  <2>2. PICK moves :
          /\ Opens(r, Plan("recalculate", moves, NoStops, {}))
          /\ DOMAIN moves \subseteq Pending
          /\ \A s \in DOMAIN moves : moves[s] \in 1..Cardinality(Live)
    BY <1>2, <1>3, <2>1, KeysAreFinite, RoutingAssumption, RecalculationStays
  <2> DEFINE p == Plan("recalculate", moves, NoStops, {})
  <2>3. p.op = "recalculate" /\ p.moves = moves /\ DOMAIN p.new = {} /\ p.old = {}
    BY DEF Plan, NoStops
  <2>4. Opens(r, p)
    BY <2>2
  <2> HIDE DEF p
  <2>5. \A s \in DOMAIN moves : moves[s] \in 1..Cardinality(Used)
    BY <2>2, LiveIsUsed, KeysAreFinite
  <2>6. PlanFits(p) /\ PlanHolds(p)
    BY <1>1, <2>2, <2>3, <2>5 DEF PlanFits, PlanHolds, StaysWithin, Live
  <2>7. recalculations + Cardinality(Recalculating) < MaxRecalculations
    BY DEF Recalculate, Recalculating
  <2> QED
    BY <1>4, <2>3, <2>4, <2>6, <2>7, OpeningKeeps
<1>6. CASE raced \/ route = "deleted"
  <2>2. PICK moves :
          /\ Opens(r, Plan("recalculate", moves, NoStops, {}))
          /\ DOMAIN moves \subseteq Pending
          /\ \A s \in DOMAIN moves : moves[s] \in 1..Cardinality(Used)
    BY <1>2, <1>3, KeysAreFinite, RoutingAssumption, RecalculationStays
  <2> DEFINE p == Plan("recalculate", moves, NoStops, {})
  <2>3. p.op = "recalculate" /\ p.moves = moves /\ DOMAIN p.new = {} /\ p.old = {}
    BY DEF Plan, NoStops
  <2>4. Opens(r, p)
    BY <2>2
  <2> HIDE DEF p
  <2>5. PlanFits(p)
    BY <1>1, <2>2, <2>3 DEF PlanFits, Live
  <2>6. recalculations + Cardinality(Recalculating) < MaxRecalculations
    BY DEF Recalculate, Recalculating
  <2> QED
    BY <1>4, <1>6, <2>3, <2>4, <2>5, <2>6, OpeningKeeps
<1> QED
  BY <1>5, <1>6

-----------------------------------------------------------------------------
(* Requests that write whatever they find.                                  *)

LEMMA StatusKeeps ==
  ASSUME RoutingInv, StatusStep
  PROVE  RoutingInv'
<1> USE DEF RoutingInv, Typed
<1>1. ASSUME NEW status \in {"active", "completed"}, UpdateRouteStatus(status) PROVE RoutingInv'
  <2>1. UNCHANGED <<stops, recalculations, request, raced>>
    BY <1>1 DEF UpdateRouteStatus
  <2>2. route \notin {"none", "deleted"} /\ route' \in {"active", "completed"}
    BY <1>1 DEF UpdateRouteStatus
  <2>3. Used' = Used /\ Live' = Live /\ Recalculating' = Recalculating
    BY <2>1 DEF Used, Live, Recalculating
  <2>4. RowsFit' /\ Logged'
    BY <2>1, <2>2, <2>3 DEF RowsFit, Logged
  <2>5. PlansFit'
    BY <2>1, <2>3 DEF PlansFit, PlanFits
  <2>6. \A r \in Request : PlanHolds(request[r])' <=> PlanHolds(request[r])
    BY <2>1, <2>3 DEF PlanHolds, AddsNow, RemovesNow, StaysWithin
  <2>7. Gapless'
    BY <2>1, <2>2, <2>3, <2>6 DEF Gapless
  <2> QED
    BY <2>4, <2>5, <2>7
<1>2. ASSUME NEW id \in StopId, NEW status \in {"pending", "visited"}, UpdateStopStatus(id, status)
      PROVE  RoutingInv'
  <2>1. UNCHANGED <<route, recalculations, request, raced>> /\ id \in Live
    BY <1>2 DEF UpdateStopStatus
  <2>2. stops' = [stops EXCEPT ![id].state = status]
    BY <1>2 DEF UpdateStopStatus
  <2>3. /\ stops' \in [StopId -> StopRow \cup {Unused, Removed}]
        /\ \A s \in StopId \ {id} : stops'[s] = stops[s]
        /\ stops'[id] \in StopRow
        /\ stops'[id].sequence = stops[id].sequence
        /\ stops[id] \in StopRow
    BY <2>1, <2>2, LiveRows DEF RowsFit, StopRow
  <2>4. Live' = Live /\ Used' = Used
    BY <2>1, <2>3 DEF Live, Used, StopRow, Unused
  <2>5. \A s \in Live : stops'[s].sequence = stops[s].sequence
    BY <2>3 DEF Live
  <2>6. RowsFit'
    BY <2>1, <2>3, <2>4, <2>5 DEF RowsFit
  <2>7. PlansFit' /\ Logged'
    BY <2>1, <2>4 DEF PlansFit, PlanFits, Logged, Recalculating
  <2>8. \A r \in Request : PlanHolds(request[r])' <=> PlanHolds(request[r])
    BY <2>1, <2>4, <2>5 DEF PlanHolds, AddsNow, RemovesNow, StaysWithin
  <2>9. Gapless'
    BY <2>1, <2>4, <2>5, <2>8 DEF Gapless
  <2> QED
    BY <2>6, <2>7, <2>9
<1> QED
  BY <1>1, <1>2 DEF StatusStep

LEMMA CreateKeeps ==
  ASSUME RoutingInv, CreateStep
  PROVE  RoutingInv'
<1> USE DEF RoutingInv, Typed
<1>1. PICK n \in 1..Cardinality(Delivery) : \E deliveries \in [1..n -> Delivery] :
        \E ids \in Keys(Len(deliveries)), d \in Delivery : CreateRoute(deliveries, Location[d], ids)
  BY DEF CreateStep, StopsAsked
<1>2. n \in Nat
  OBVIOUS
<1>3. PICK deliveries \in [1..n -> Delivery], ids \in Keys(n), d \in Delivery :
        CreateRoute(deliveries, Location[d], ids)
  BY <1>1, <1>2, FunctionIsSeq
<1>4. \A s \in StopId :
         \/ /\ \A k \in 1..n : ids[k] # s
            /\ stops'[s] = Unused
         \/ \E k \in 1..n, e \in Delivery : ids[k] = s /\ stops'[s] = NewStop(e, k)
  BY <1>2, <1>3, RoutingAssumption, CreationNumbers
<1>5. /\ route = "none" /\ route' = "planned"
      /\ UNCHANGED <<recalculations, request, raced>>
      /\ DOMAIN stops' = StopId /\ stops' = [s \in StopId |-> stops'[s]]
  BY <1>3 DEF CreateRoute
<1>6. ids \in [1..n -> StopId] /\ \A i, j \in 1..n : ids[i] = ids[j] => i = j
  BY DEF Keys
<1>7. n <= MaxStops
  <2>1. ids \in Injection(1..n, StopId)
    BY <1>6 DEF Injection, IsInjective
  <2>2. Cardinality(1..n) = n
    BY <1>2, FS_Interval
  <2> QED
    BY <2>1, <2>2, KeysAreFinite, FS_Injection
<1>8. \A s \in StopId : stops'[s] = Unused \/
        (stops'[s] \in StopRow /\ stops'[s].state = "pending")
  <2>1. ASSUME NEW k \in 1..n, NEW e \in Delivery
        PROVE  NewStop(e, k) \in StopRow /\ NewStop(e, k).state = "pending"
    BY <1>2, <1>7, RoutingAssumption DEF NewStop, StopRow, Position
  <2> QED
    BY <1>4, <2>1
<1>9. \A k \in 1..n : stops'[ids[k]].state = "pending" /\ stops'[ids[k]].sequence = k
  <2> SUFFICES ASSUME NEW k \in 1..n
               PROVE  stops'[ids[k]].state = "pending" /\ stops'[ids[k]].sequence = k
    OBVIOUS
  <2>1. PICK j \in 1..n, e \in Delivery : ids[j] = ids[k] /\ stops'[ids[k]] = NewStop(e, j)
    BY <1>4, <1>6
  <2>2. j = k
    BY <1>6, <2>1
  <2> QED
    BY <2>1, <2>2 DEF NewStop
<1>10. Live' = {ids[k] : k \in 1..n} /\ Used' = Live'
  <2>1. ASSUME NEW s \in StopId PROVE s \in Live' <=> \E k \in 1..n : ids[k] = s
    BY <1>4, <1>9 DEF Live, Unused
  <2>2. Live' = {ids[k] : k \in 1..n}
    BY <1>6, <2>1 DEF Live
  <2>3. Used' = Live'
    BY <1>4, <1>8, <1>9 DEF Used, Live, Unused, StopRow
  <2> QED
    BY <2>2, <2>3
<1>11. Cardinality(Live') = n
  <2>1. ids \in Bijection(1..n, Live')
    BY <1>6, <1>10 DEF Bijection, Injection, Surjection, IsInjective
  <2>2. IsFiniteSet(1..n) /\ Cardinality(1..n) = n
    BY <1>2, FS_Interval
  <2> QED
    BY <2>1, <2>2, FS_Bijection DEF ExistsBijection
<1>12. \A r \in Request : request'[r] = Idle
  BY <1>5 DEF RowsFit
<1>13. RowsFit'
  <2>1. \A s \in Live' : \E k \in 1..n : s = ids[k] /\ stops'[s].sequence = k
    BY <1>9, <1>10
  <2>2. \A s \in Live' : stops'[s].sequence <= Cardinality(Used')
    BY <1>10, <1>11, <2>1
  <2>3. \A s, t \in Live' : stops'[s].sequence = stops'[t].sequence => s = t
    BY <2>1
  <2>4. stops' \in [StopId -> StopRow \cup {Unused, Removed}]
    BY <1>5, <1>8
  <2> QED
    BY <1>5, <2>2, <2>3, <2>4 DEF RowsFit
<1>14. PlansFit'
  BY <1>5, <1>12 DEF PlansFit
<1>15. Logged'
  BY <1>5 DEF Logged, Recalculating
<1>16. Gapless'
  <2>1. {stops'[s].sequence : s \in Live'} = 1..n
    BY <1>9, <1>10
  <2> QED
    BY <1>11, <1>12, <2>1 DEF Gapless
<1> QED
  BY <1>13, <1>14, <1>15, <1>16

-----------------------------------------------------------------------------
(* Commits.                                                                 *)

\* What the sequence of a stop is when the rows are written.
After(p, s) ==
  IF s \in DOMAIN p.new THEN p.new[s].sequence
  ELSE IF s \in DOMAIN p.moves THEN p.moves[s] ELSE stops[s].sequence

\* The rows, their keys, and their sequences.
LEMMA CommitWrites ==
  ASSUME Typed, NEW p, PlanFits(p), FlushPasses(p), stops' = Written(p)
  PROVE  /\ Used' = Used \cup DOMAIN p.new
         /\ Live' = IF p.op = "delete" THEN {} ELSE (Live \ p.old) \cup DOMAIN p.new
         /\ \A s \in Live' : stops'[s].sequence = After(p, s)
         /\ stops' \in [StopId -> StopRow \cup {Unused, Removed}]
         /\ DOMAIN p.new \cap Used = {}
<1> USE DEF Typed
<1>1. /\ DOMAIN p.moves \subseteq Live
      /\ DOMAIN p.new \subseteq StopId \ Used
      /\ \A s \in DOMAIN p.new : p.new[s] \in StopRow /\ p.new[s].state = "pending"
  BY DEF PlanFits, FlushPasses, MovesPass
<1>2. ASSUME NEW s \in StopId, s \in p.old \/ (p.op = "delete" /\ s \in Live)
      PROVE  stops'[s] = Removed
  BY <1>2 DEF Written
<1>3. ASSUME NEW s \in StopId, ~(s \in p.old \/ (p.op = "delete" /\ s \in Live)), s \in DOMAIN p.new
      PROVE  stops'[s] = p.new[s]
  BY <1>3 DEF Written
<1>4. ASSUME NEW s \in StopId, ~(s \in p.old \/ (p.op = "delete" /\ s \in Live)),
             s \notin DOMAIN p.new, s \in DOMAIN p.moves
      PROVE  stops'[s] = [stops[s] EXCEPT !.sequence = p.moves[s]]
  BY <1>4 DEF Written
<1>5. ASSUME NEW s \in StopId, ~(s \in p.old \/ (p.op = "delete" /\ s \in Live)),
             s \notin DOMAIN p.new, s \notin DOMAIN p.moves
      PROVE  stops'[s] = stops[s]
  BY <1>5 DEF Written
<1>6. \A s \in DOMAIN p.moves : p.moves[s] \in Position
  <2>1. \A s \in DOMAIN p.moves : p.moves[s] \in 1..(Cardinality(Used) + 1)
    BY KeysAreFinite DEF PlanFits
  <2>2. Cardinality(Used) + 1 <= MaxStops + 1 /\ MaxStops \in Nat
    BY KeysAreFinite, RoutingAssumption
  <2> QED
    BY <2>1, <2>2, KeysAreFinite DEF Position
<1>7. ASSUME NEW s \in DOMAIN p.moves
      PROVE  /\ [stops[s] EXCEPT !.sequence = p.moves[s]] \in StopRow
             /\ [stops[s] EXCEPT !.sequence = p.moves[s]].sequence = p.moves[s]
  BY <1>1, <1>6, LiveRows DEF StopRow
<1>8. \A s \in Live : s \in StopId /\ stops[s] \in StopRow
  BY LiveRows DEF Live
<1>9. \A s \in StopId : s \in Live <=> stops[s] \in StopRow
  BY <1>8 DEF RowsFit, Live, StopRow, Unused, Removed
<1>10. p.old \subseteq Used /\ (p.op = "delete" => DOMAIN p.new = {})
  BY DEF PlanFits
<1>11. stops' \in [StopId -> StopRow \cup {Unused, Removed}]
  <2>1. \A s \in StopId : stops'[s] \in StopRow \cup {Unused, Removed}
    BY <1>1, <1>2, <1>3, <1>4, <1>5, <1>7 DEF RowsFit
  <2>2. stops' = [s \in StopId |-> stops'[s]]
    BY DEF Written
  <2> QED
    BY <2>1, <2>2
<1>12. \A s \in StopId : s \in Live' <=> stops'[s] \in StopRow
  BY <1>11 DEF Live, StopRow, Unused, Removed
<1>13. Unused \notin StopRow /\ Removed \notin StopRow /\ Removed # Unused
  BY DEF StopRow, Unused, Removed
<1>14. ASSUME NEW s \in StopId
       PROVE  /\ s \in Used' <=> s \in Used \cup DOMAIN p.new
              /\ s \in Live' <=> s \in IF p.op = "delete" THEN {} ELSE (Live \ p.old) \cup DOMAIN p.new
              /\ s \in Live' => stops'[s].sequence = After(p, s)
  <2>1. s \in Used <=> stops[s] # Unused
    BY DEF Used
  <2>2. s \in Used' <=> stops'[s] # Unused
    BY DEF Used
  <2>3. CASE s \in p.old \/ (p.op = "delete" /\ s \in Live)
    BY <1>2, <1>1, <1>8, <1>10, <1>12, <1>13, <2>1, <2>2, <2>3, LiveIsUsed
  <2>4. CASE ~(s \in p.old \/ (p.op = "delete" /\ s \in Live)) /\ s \in DOMAIN p.new
    BY <1>1, <1>3, <1>10, <1>12, <1>13, <2>1, <2>2, <2>4 DEF After
  <2>5. CASE ~(s \in p.old \/ (p.op = "delete" /\ s \in Live)) /\ s \notin DOMAIN p.new /\ s \in DOMAIN p.moves
    BY <1>1, <1>4, <1>7, <1>10, <1>12, <1>13, <2>1, <2>2, <2>5, LiveIsUsed DEF After
  <2>6. CASE ~(s \in p.old \/ (p.op = "delete" /\ s \in Live)) /\ s \notin DOMAIN p.new /\ s \notin DOMAIN p.moves
    BY <1>1, <1>5, <1>9, <1>10, <1>12, <1>13, <2>1, <2>2, <2>6 DEF After
  <2> QED
    BY <2>3, <2>4, <2>5, <2>6
<1>15. Used' \subseteq StopId /\ Live' \subseteq StopId /\ Used \subseteq StopId /\ Live \subseteq StopId
  BY DEF Used, Live
<1> QED
  BY <1>1, <1>10, <1>11, <1>14, <1>15

\* The constraint holds for what is written, however old the plan.
LEMMA CommitKeepsDistinct ==
  ASSUME Typed, NEW p, PlanFits(p), FlushPasses(p), stops' = Written(p)
  PROVE  \A s, t \in Live' : stops'[s].sequence = stops'[t].sequence => s = t
<1> USE DEF Typed
<1>1. CASE p.op = "delete"
  BY <1>1, CommitWrites
<1>2. CASE p.op # "delete"
  <2>1. Live' \subseteq Live \cup DOMAIN p.new /\ \A s \in Live' : stops'[s].sequence = After(p, s)
    BY <1>2, CommitWrites
  <2>2. DOMAIN p.new \cap Live = {}
    BY CommitWrites, LiveIsUsed
  <2>3. \A s, t \in DOMAIN p.new : s = t
    BY DEF PlanFits
  <2>4. ASSUME NEW s \in Live, NEW t \in Live, s # t PROVE After(p, s) # After(p, t)
    <3>1. /\ After(p, s) = IF s \in DOMAIN p.moves THEN p.moves[s] ELSE stops[s].sequence
          /\ After(p, t) = IF t \in DOMAIN p.moves THEN p.moves[t] ELSE stops[t].sequence
      BY <2>2 DEF After
    <3>2. \A x \in DOMAIN p.moves : \A y \in Live \ {x} :
            (IF y \in DOMAIN p.moves /\ y < x THEN p.moves[y] ELSE stops[y].sequence) # p.moves[x]
      BY DEF FlushPasses, MovesPass, SequenceWhen
    <3>3. stops[s].sequence # stops[t].sequence
      BY <2>4 DEF RowsFit
    <3>4. s \in Nat /\ t \in Nat
      BY RoutingAssumption DEF Live, StopId
    <3>5. s < t \/ t < s
      BY <2>4, <3>4
    <3> QED
      BY <2>4, <3>1, <3>2, <3>3, <3>5
  <2>5. ASSUME NEW s \in DOMAIN p.new, NEW t \in Live PROVE After(p, s) # After(p, t)
    BY <2>2 DEF After, FlushPasses, InsertsPass
  <2> QED
    BY <2>1, <2>3, <2>4, <2>5
<1> QED
  BY <1>1, <1>2

\* A commit leaves the rows and the other plans fit.
LEMMA CommitKeepsTyped ==
  ASSUME RoutingInv, NEW r \in Request, Commit(r)
  PROVE  Typed'
<1> USE DEF RoutingInv, Typed
<1>1. PICK p : p = request[r]
  OBVIOUS
<1>2. /\ p # Idle /\ FlushPasses(p) /\ stops' = Written(p)
      /\ route' = IF p.op = "delete" THEN "deleted" ELSE route
      /\ recalculations' = IF p.op = "recalculate" THEN recalculations + 1 ELSE recalculations
      /\ request' = [request EXCEPT ![r] = Idle]
      /\ raced' \in BOOLEAN
  BY <1>1 DEF Commit, Logged
<1>3. PlanFits(p)
  BY <1>1, <1>2 DEF PlansFit
<1>4. /\ Used' = Used \cup DOMAIN p.new
      /\ Live' = IF p.op = "delete" THEN {} ELSE (Live \ p.old) \cup DOMAIN p.new
      /\ \A s \in Live' : stops'[s].sequence = After(p, s)
      /\ stops' \in [StopId -> StopRow \cup {Unused, Removed}]
      /\ DOMAIN p.new \cap Used = {}
  BY <1>2, <1>3, CommitWrites
<1>5. /\ \A q \in Request : request'[q] = IF q = r THEN Idle ELSE request[q]
      /\ request' = [q \in Request |-> request'[q]]
  BY <1>2 DEF PlansFit
<1>6. Cardinality(Used') = IF p.op = "add" THEN Cardinality(Used) + 1 ELSE Cardinality(Used)
  <2>1. CASE p.op = "add"
    <3>1. PICK id : DOMAIN p.new = {id}
      BY <1>3, <2>1 DEF PlanFits
    <3>2. Cardinality(Used \cup {id}) = Cardinality(Used) + 1
      BY <1>4, <3>1, KeysAreFinite, FS_AddElement
    <3> QED
      BY <1>4, <2>1, <3>1, <3>2
  <2>2. CASE p.op # "add"
    BY <1>3, <1>4, <2>2 DEF PlanFits
  <2> QED
    BY <2>1, <2>2
<1>7. Cardinality(Used) \in Nat
  BY KeysAreFinite
<1>8. RowsFit'
  <2>1. \A s \in Live' : stops'[s].sequence <= Cardinality(Used')
    <3> SUFFICES ASSUME NEW s \in Live' PROVE After(p, s) <= Cardinality(Used')
      BY <1>4
    <3>1. CASE s \in DOMAIN p.new
      BY <1>3, <1>6, <3>1 DEF PlanFits, After
    <3>2. CASE s \notin DOMAIN p.new /\ s \in DOMAIN p.moves
      BY <1>3, <1>6, <1>7, <3>2 DEF PlanFits, After
    <3>3. CASE s \notin DOMAIN p.new /\ s \notin DOMAIN p.moves
      <4>1. s \in Live
        BY <1>4, <3>3
      <4> QED
        BY <1>6, <1>7, <3>3, <4>1, LiveRows DEF After
    <3> QED
      BY <3>1, <3>2, <3>3
  <2>2. \A s, t \in Live' : stops'[s].sequence = stops'[t].sequence => s = t
    BY <1>2, <1>3, CommitKeepsDistinct
  <2>3. route' # "none"
    BY <1>1, <1>2 DEF RowsFit
  <2>4. route' = "deleted" => Live' = {}
    BY <1>2, <1>4 DEF FlushPasses
  <2>5. route' \in {"none", "planned", "active", "completed", "deleted"}
    BY <1>2 DEF RowsFit
  <2> QED
    BY <1>4, <2>1, <2>2, <2>3, <2>4, <2>5 DEF RowsFit
<1>9. PlansFit'
  <2>1. ASSUME NEW q \in Request, request'[q] # Idle PROVE PlanFits(request[q])'
    <3>1. PICK x : x = request[q]
      OBVIOUS
    <3>2. x = request'[q] /\ q # r /\ PlanFits(x) /\ DOMAIN x.new \cap DOMAIN p.new = {}
      BY <1>1, <1>2, <1>5, <2>1, <3>1 DEF PlansFit
    <3>3. Cardinality(Used) <= Cardinality(Used') /\ Cardinality(Used') \in Nat
      BY <1>6, <1>7
    <3>4. \A s \in DOMAIN x.moves :
            x.moves[s] \in 1..(IF x.op = "add" THEN Cardinality(Used') + 1 ELSE Cardinality(Used'))
      BY <1>7, <3>2, <3>3 DEF PlanFits
    <3>5. x.op = "add" => \E id \in StopId \ Used' :
            /\ DOMAIN x.new = {id}
            /\ x.new[id] \in StopRow
            /\ x.new[id].state = "pending"
            /\ x.new[id].sequence <= Cardinality(Used') + 1
      <4> SUFFICES ASSUME x.op = "add"
                   PROVE  \E id \in StopId \ Used' :
                            /\ DOMAIN x.new = {id}
                            /\ x.new[id] \in StopRow
                            /\ x.new[id].state = "pending"
                            /\ x.new[id].sequence <= Cardinality(Used') + 1
        OBVIOUS
      <4>1. PICK id \in StopId \ Used :
              /\ DOMAIN x.new = {id}
              /\ x.new[id] \in StopRow
              /\ x.new[id].state = "pending"
              /\ x.new[id].sequence <= Cardinality(Used) + 1
        BY <3>2 DEF PlanFits
      <4>2. id \notin Used'
        BY <1>4, <3>2, <4>1
      <4>3. x.new[id].sequence \in Nat
        BY <4>1, RoutingAssumption DEF StopRow, Position
      <4>4. x.new[id].sequence <= Cardinality(Used') + 1
        BY <1>7, <3>3, <4>1, <4>3
      <4> QED
        BY <4>1, <4>2, <4>4
    <3>6. PlanFits(x)'
      BY <1>4, <3>2, <3>4, <3>5 DEF PlanFits
    <3> QED
      BY <3>2, <3>6
  <2>2. \A q, s \in Request : request'[q] # Idle /\ request'[s] # Idle /\ q # s =>
          DOMAIN request'[q].new \cap DOMAIN request'[s].new = {}
    BY <1>5 DEF PlansFit
  <2> QED
    BY <1>5, <2>1, <2>2 DEF PlansFit
<1>10. Logged'
  <2>1. Recalculating' = Recalculating \ {r}
    BY <1>5 DEF Recalculating, Idle
  <2>2. Cardinality(Recalculating') =
          IF p.op = "recalculate" THEN Cardinality(Recalculating) - 1 ELSE Cardinality(Recalculating)
    BY <1>1, <2>1, RecalculationsAreFinite, FS_RemoveElement DEF Recalculating
  <2> QED
    BY <1>2, <2>2, RecalculationsAreFinite, RoutingAssumption DEF Logged
<1> QED
  BY <1>8, <1>9, <1>10

-----------------------------------------------------------------------------
(* Commits of plans that hold.                                              *)

\* n stops numbered from 1 to n leave no number free.
LEMMA AllTaken ==
  ASSUME Typed, {stops[s].sequence : s \in Live} = 1..Cardinality(Live)
  PROVE  /\ \A s \in Live : stops[s].sequence \in 1..Cardinality(Live)
         /\ \A k \in 1..Cardinality(Live) : \E s \in Live : stops[s].sequence = k
OBVIOUS

\* The first row that would move finds its place taken.
LEMMA NobodyMoves ==
  ASSUME Typed, {stops[s].sequence : s \in Live} = 1..Cardinality(Live),
         NEW p, StaysWithin(p), MovesPass(p.moves)
  PROVE  \A s \in DOMAIN p.moves : p.moves[s] = stops[s].sequence
<1> USE DEF Typed
<1> DEFINE T == {s \in DOMAIN p.moves : p.moves[s] # stops[s].sequence}
<1> SUFFICES ASSUME T # {} PROVE FALSE
  OBVIOUS
<1>1. DOMAIN p.moves \subseteq Live /\ Live \subseteq StopId /\ StopId \subseteq Nat
  BY RoutingAssumption DEF MovesPass, Live, StopId
<1>2. PICK s \in T : \A k \in T : s <= k
  <2>1. T \in SUBSET Nat
    BY <1>1
  <2> QED
    BY <2>1, LeastNumber
<1>3. PICK t \in Live : stops[t].sequence = p.moves[s]
  BY AllTaken DEF StaysWithin
<1>4. t # s
  BY <1>3
<1>5. SequenceWhen(p.moves, s, t) # p.moves[s]
  BY <1>3, <1>4 DEF MovesPass
<1>6. t \in DOMAIN p.moves /\ t < s /\ p.moves[t] # p.moves[s]
  BY <1>3, <1>5 DEF SequenceWhen
<1>7. t \in T
  BY <1>3, <1>6
<1>8. t \in Nat /\ s \in Nat /\ s <= t
  BY <1>1, <1>2, <1>7
<1> QED
  BY <1>6, <1>8

\* An add that passes is one that would be planned now.
LEMMA AddIsCurrent ==
  ASSUME Typed, {stops[s].sequence : s \in Live} = 1..Cardinality(Live),
         NEW p, p.op = "add", PlanFits(p), PlanHolds(p), FlushPasses(p)
  PROVE  AddsNow(p)
<1> SUFFICES ASSUME StaysWithin(p) PROVE FALSE
  BY DEF PlanHolds
<1>1. PICK id \in StopId \ Used : DOMAIN p.new = {id}
  BY DEF PlanFits
<1>2. p.new[id].sequence \in 1..Cardinality(Live)
  BY <1>1 DEF StaysWithin
<1>3. PICK t \in Live : stops[t].sequence = p.new[id].sequence
  BY <1>2, AllTaken
<1>4. \A s \in DOMAIN p.moves : p.moves[s] = stops[s].sequence
  BY NobodyMoves DEF FlushPasses
<1> QED
  BY <1>1, <1>3, <1>4 DEF FlushPasses, InsertsPass

\* Adding shifts what comes at the position or after it.
LEMMA AddShifts ==
  ASSUME Typed, {stops[s].sequence : s \in Live} = 1..Cardinality(Live),
         NEW p, p.op = "add", PlanFits(p), AddsNow(p), FlushPasses(p), stops' = Written(p)
  PROVE  /\ {stops'[s].sequence : s \in Live'} = 1..Cardinality(Live')
         /\ Cardinality(Live') = Cardinality(Live) + 1
         /\ \A s, t \in Live \cap Live' :
              stops[s].sequence < stops[t].sequence => stops'[s].sequence < stops'[t].sequence
<1> DEFINE n == Cardinality(Live)
<1>1. PICK id \in StopId :
        LET pos == p.new[id].sequence
        IN  /\ DOMAIN p.new = {id}
            /\ pos <= n + 1
            /\ DOMAIN p.moves = {t \in Live : stops[t].sequence >= pos}
            /\ \A t \in DOMAIN p.moves : p.moves[t] = stops[t].sequence + 1
  BY DEF AddsNow
<1>2. PICK pos : pos = p.new[id].sequence
  OBVIOUS
<1>3. n \in Nat /\ IsFiniteSet(Live)
  BY KeysAreFinite
<1>4. pos \in 1..(n + 1)
  <2>1. p.new[id] \in StopRow
    BY <1>1 DEF PlanFits
  <2> QED
    BY <1>1, <1>2, <1>3, <2>1, RoutingAssumption DEF StopRow, Position
<1>5. id \notin Live /\ Live' = Live \cup {id} /\ \A s \in Live' : stops'[s].sequence = After(p, s)
  <2>1. p.old = {}
    BY DEF PlanFits
  <2> QED
    BY <1>1, <2>1, CommitWrites, LiveIsUsed
<1>6. Cardinality(Live') = n + 1
  BY <1>3, <1>5, FS_AddElement
<1>7. \A s \in Live : stops[s].sequence \in 1..n
  BY AllTaken
<1>8. /\ stops'[id].sequence = pos
      /\ \A s \in Live : stops'[s].sequence =
           IF stops[s].sequence >= pos THEN stops[s].sequence + 1 ELSE stops[s].sequence
  BY <1>1, <1>2, <1>5 DEF After
<1> HIDE DEF n
<1>9. \A s \in Live' : stops'[s].sequence \in 1..(n + 1)
  BY <1>3, <1>4, <1>5, <1>7, <1>8
<1>10. \A k \in 1..(n + 1) : \E s \in Live' : stops'[s].sequence = k
  <2> SUFFICES ASSUME NEW k \in 1..(n + 1) PROVE \E s \in Live' : stops'[s].sequence = k
    OBVIOUS
  <2>1. CASE k < pos
    <3>1. k \in 1..n
      BY <1>3, <1>4, <2>1
    <3>2. PICK s \in Live : stops[s].sequence = k
      BY <3>1, AllTaken DEF n
    <3> QED
      BY <1>4, <1>5, <1>8, <2>1, <3>2
  <2>2. CASE k = pos
    BY <1>5, <1>8, <2>2
  <2>3. CASE k > pos
    <3>1. k - 1 \in 1..n /\ k - 1 >= pos
      BY <1>3, <1>4, <2>3
    <3>2. PICK s \in Live : stops[s].sequence = k - 1
      BY <3>1, AllTaken DEF n
    <3> QED
      BY <1>5, <1>8, <3>1, <3>2
  <2> QED
    BY <1>4, <2>1, <2>2, <2>3
<1>11. {stops'[s].sequence : s \in Live'} = 1..(n + 1)
  BY <1>9, <1>10
<1>12. ASSUME NEW s \in Live, NEW t \in Live, stops[s].sequence < stops[t].sequence
       PROVE  stops'[s].sequence < stops'[t].sequence
  <2>1. stops[s].sequence \in Nat /\ stops[t].sequence \in Nat /\ pos \in Nat
    BY <1>3, <1>4, <1>7
  <2> QED
    BY <1>8, <1>12, <2>1
<1> QED
  BY <1>6, <1>11, <1>12 DEF n

\* Removing closes the gap.
LEMMA RemoveCloses ==
  ASSUME Typed, {stops[s].sequence : s \in Live} = 1..Cardinality(Live),
         NEW p, p.op = "remove", PlanFits(p), RemovesNow(p), FlushPasses(p), stops' = Written(p)
  PROVE  /\ {stops'[s].sequence : s \in Live'} = 1..Cardinality(Live')
         /\ \A s, t \in Live \cap Live' :
              stops[s].sequence < stops[t].sequence => stops'[s].sequence < stops'[t].sequence
<1> DEFINE n == Cardinality(Live)
<1>1. PICK id \in Live :
        /\ p.old = {id}
        /\ DOMAIN p.moves = {t \in Live : stops[t].sequence > stops[id].sequence}
        /\ \A t \in DOMAIN p.moves : p.moves[t] = stops[t].sequence - 1
  BY DEF RemovesNow
<1>2. PICK pos : pos = stops[id].sequence
  OBVIOUS
<1>3. n \in Nat /\ IsFiniteSet(Live) /\ n >= 1
  BY <1>1, KeysAreFinite, FS_EmptySet
<1>4. \A s \in Live : stops[s].sequence \in 1..n
  BY AllTaken
<1>5. pos \in 1..n
  BY <1>1, <1>2, <1>4
<1>6. Live' = Live \ {id} /\ DOMAIN p.new = {} /\ \A s \in Live' : stops'[s].sequence = After(p, s)
  <2>1. DOMAIN p.new = {}
    BY DEF PlanFits
  <2> QED
    BY <1>1, <2>1, CommitWrites
<1>7. Cardinality(Live') = n - 1
  BY <1>1, <1>3, <1>6, FS_RemoveElement
<1>8. \A s \in Live' : stops'[s].sequence =
        IF stops[s].sequence > pos THEN stops[s].sequence - 1 ELSE stops[s].sequence
  BY <1>1, <1>2, <1>6 DEF After
<1>9. \A s \in Live' : stops[s].sequence # pos
  BY <1>1, <1>2, <1>6 DEF Typed, RowsFit
<1> HIDE DEF n
<1>10. \A s \in Live' : stops'[s].sequence \in 1..(n - 1)
  BY <1>3, <1>4, <1>5, <1>6, <1>8, <1>9
<1>11. \A k \in 1..(n - 1) : \E s \in Live' : stops'[s].sequence = k
  <2> SUFFICES ASSUME NEW k \in 1..(n - 1) PROVE \E s \in Live' : stops'[s].sequence = k
    OBVIOUS
  <2>1. CASE k < pos
    <3>1. k \in 1..n
      BY <1>3
    <3>2. PICK s \in Live : stops[s].sequence = k
      BY <3>1, AllTaken DEF n
    <3>3. s \in Live'
      BY <1>2, <1>5, <1>6, <2>1, <3>2
    <3> QED
      BY <1>5, <1>8, <2>1, <3>2, <3>3
  <2>2. CASE k >= pos
    <3>1. k + 1 \in 1..n /\ k + 1 > pos
      BY <1>3, <1>5, <2>2
    <3>2. PICK s \in Live : stops[s].sequence = k + 1
      BY <3>1, AllTaken DEF n
    <3>3. s \in Live'
      BY <1>2, <1>5, <1>6, <3>1, <3>2
    <3> QED
      BY <1>8, <3>1, <3>2, <3>3
  <2> QED
    BY <1>5, <2>1, <2>2
<1>12. {stops'[s].sequence : s \in Live'} = 1..(n - 1)
  BY <1>10, <1>11
<1>13. ASSUME NEW s \in Live', NEW t \in Live', stops[s].sequence < stops[t].sequence
       PROVE  stops'[s].sequence < stops'[t].sequence
  <2>1. stops[s].sequence \in Nat /\ stops[t].sequence \in Nat /\ pos \in Nat
    BY <1>4, <1>5, <1>6
  <2>2. stops[s].sequence # pos /\ stops[t].sequence # pos
    BY <1>9
  <2> QED
    BY <1>8, <1>13, <2>1, <2>2
<1> QED
  BY <1>7, <1>12, <1>13

\* What a commit does to a route without a gap: nothing is swapped, and the plans
\* of the other requests hold on.
LEMMA CommitKeepsGapless ==
  ASSUME RoutingInv, NEW r \in Request, Commit(r), ~raced'
  PROVE  /\ Gapless'
         /\ \A s, t \in Live \cap Live' :
              stops[s].sequence < stops[t].sequence => stops'[s].sequence < stops'[t].sequence
<1> USE DEF RoutingInv
<1>1. PICK p : p = request[r]
  OBVIOUS
<1>2. /\ p # Idle /\ FlushPasses(p) /\ stops' = Written(p)
      /\ route' = IF p.op = "delete" THEN "deleted" ELSE route
      /\ request' = [request EXCEPT ![r] = Idle]
      /\ ~raced /\ ~RacesRemoval(r)
  BY <1>1 DEF Commit
<1>3. PlanFits(p)
  BY <1>1, <1>2 DEF Typed, PlansFit
<1>4. \A q \in Request : request'[q] = IF q = r THEN Idle ELSE request[q]
  BY <1>2 DEF Typed, PlansFit
<1>5. CASE route' = "deleted"
  <2>1. p.op = "delete"
    BY <1>2, <1>5 DEF FlushPasses
  <2>2. Live' = {}
    BY <1>2, <1>3, <2>1, CommitWrites
  <2> QED
    BY <1>5, <2>2 DEF Gapless
<1>6. CASE route' # "deleted"
  <2>1. route # "deleted" /\ p.op \in {"add", "remove", "recalculate"}
    BY <1>2, <1>3, <1>6 DEF PlanFits
  <2>2. {stops[s].sequence : s \in Live} = 1..Cardinality(Live)
    BY <1>2, <2>1 DEF Gapless
  <2>3. PlanHolds(p)
    BY <1>1, <1>2, <2>1 DEF Gapless
  <2>4. ASSUME NEW q \in Request, request'[q] # Idle
        PROVE  /\ q # r /\ request[q] # Idle
               /\ p.op # "remove" /\ request[q].op # "remove"
               /\ PlanFits(request[q]) /\ PlanHolds(request[q])
    BY <1>1, <1>2, <1>4, <2>1, <2>4 DEF RacesRemoval, Gapless, Typed, PlansFit
  <2>5. CASE p.op = "remove"
    <3>1. \A q \in Request : request'[q] = Idle
      BY <2>4, <2>5
    <3>2. RemovesNow(p)
      BY <2>3, <2>5 DEF PlanHolds
    <3> QED
      BY <1>2, <1>3, <2>2, <2>5, <3>1, <3>2, RemoveCloses DEF Gapless
  <2>6. CASE p.op = "recalculate"
    <3>1. \A s \in DOMAIN p.moves : p.moves[s] = stops[s].sequence
      BY <1>2, <2>2, <2>3, <2>6, NobodyMoves DEF PlanHolds, FlushPasses
    <3>2. DOMAIN p.new = {} /\ p.old = {}
      BY <1>3, <2>6 DEF PlanFits
    <3>3. Live' = Live /\ \A s \in Live : stops'[s].sequence = After(p, s)
      BY <1>2, <1>3, <2>6, <3>2, CommitWrites
    <3>4. \A s \in Live : stops'[s].sequence = stops[s].sequence
      BY <3>1, <3>2, <3>3 DEF After
    <3>5. ASSUME NEW q \in Request, request'[q] # Idle PROVE PlanHolds(request[q])'
      <4>1. PICK x : x = request[q]
        OBVIOUS
      <4>2. x = request'[q] /\ PlanHolds(x)
        BY <1>4, <2>4, <3>5, <4>1
      <4>3. PlanHolds(x)'
        BY <3>3, <3>4, <4>2, PlansHold
      <4> QED
        BY <4>2, <4>3
    <3>6. {stops'[s].sequence : s \in Live'} = 1..Cardinality(Live')
      BY <2>2, <3>3, <3>4
    <3> QED
      BY <3>3, <3>4, <3>5, <3>6 DEF Gapless
  <2>7. CASE p.op = "add"
    <3>1. AddsNow(p)
      BY <1>2, <1>3, <2>2, <2>3, <2>7, AddIsCurrent
    <3>2. /\ {stops'[s].sequence : s \in Live'} = 1..Cardinality(Live')
          /\ Cardinality(Live') = Cardinality(Live) + 1
          /\ \A s, t \in Live \cap Live' :
               stops[s].sequence < stops[t].sequence => stops'[s].sequence < stops'[t].sequence
      BY <1>2, <1>3, <2>2, <2>7, <3>1, AddShifts
    <3>3. Cardinality(Live) \in Nat
      BY KeysAreFinite
    <3>4. ASSUME NEW q \in Request, request'[q] # Idle PROVE PlanHolds(request[q])'
      <4>1. PICK x : x = request[q]
        OBVIOUS
      <4>2. x = request'[q] /\ PlanHolds(x) /\ PlanFits(x) /\ x.op # "remove"
        BY <1>4, <2>4, <3>4, <4>1
      <4>3. x.op \in {"add", "recalculate"} => StaysWithin(x)'
        <5>1. CASE StaysWithin(x)
          BY <3>2, <3>3, <5>1 DEF StaysWithin
        <5>2. CASE AddsNow(x) /\ x.op = "add"
          <6>1. PICK id \in StopId :
                  LET pos == x.new[id].sequence
                  IN  /\ DOMAIN x.new = {id}
                      /\ pos <= Cardinality(Live) + 1
                      /\ DOMAIN x.moves = {t \in Live : stops[t].sequence >= pos}
                      /\ \A t \in DOMAIN x.moves : x.moves[t] = stops[t].sequence + 1
            BY <5>2 DEF AddsNow
          <6>2. x.new[id].sequence \in Nat /\ 1 <= x.new[id].sequence
            BY <4>2, <5>2, <6>1, RoutingAssumption DEF PlanFits, StopRow, Position
          <6>3. \A t \in DOMAIN x.moves : x.moves[t] \in 1..(Cardinality(Live) + 1)
            BY <2>2, <3>3, <6>1, AllTaken
          <6>4. \A s \in DOMAIN x.new : x.new[s].sequence \in 1..(Cardinality(Live) + 1)
            BY <3>3, <6>1, <6>2
          <6> QED
            BY <3>2, <6>3, <6>4 DEF StaysWithin
        <5> QED
          BY <4>2, <5>1, <5>2 DEF PlanHolds
      <4>4. PlanHolds(x)'
        BY <4>2, <4>3 DEF PlanHolds
      <4> QED
        BY <4>2, <4>4
    <3> QED
      BY <3>2, <3>4 DEF Gapless
  <2> QED
    BY <2>1, <2>5, <2>6, <2>7
<1> QED
  BY <1>5, <1>6

LEMMA StepHolds == RoutingInv /\ [Next]_vars => RoutingInv'
<1> SUFFICES ASSUME RoutingInv, [Next]_vars PROVE RoutingInv'
  OBVIOUS
<1>1. ASSUME NEW r \in Request, Commit(r) PROVE RoutingInv'
  <2>1. raced' => Gapless'
    BY DEF Gapless
  <2> QED
    BY <1>1, <2>1, CommitKeepsTyped, CommitKeepsGapless DEF RoutingInv
<1>2. ASSUME NEW r \in Request, RequestStep(r) PROVE RoutingInv'
  BY <1>1, <1>2, AddKeeps, RemoveKeeps, RecalculateKeeps, DeleteKeeps, FailKeeps DEF RequestStep
<1>3. CASE UNCHANGED vars
  <2>1. UNCHANGED <<route, stops, recalculations, request, raced>>
    BY <1>3 DEF vars
  <2>2. Used' = Used /\ Live' = Live /\ Recalculating' = Recalculating
    BY <2>1 DEF Used, Live, Recalculating
  <2>3. RowsFit' /\ Logged'
    BY <2>1, <2>2 DEF RoutingInv, Typed, RowsFit, Logged
  <2>4. PlansFit'
    BY <2>1, <2>2 DEF RoutingInv, Typed, PlansFit, PlanFits
  <2>5. \A r \in Request : PlanHolds(request[r])' <=> PlanHolds(request[r])
    BY <2>1, <2>2 DEF PlanHolds, AddsNow, RemovesNow, StaysWithin
  <2>6. Gapless'
    BY <2>1, <2>2, <2>5 DEF RoutingInv, Gapless
  <2> QED
    BY <2>3, <2>4, <2>6 DEF RoutingInv, Typed
<1> QED
  BY <1>2, <1>3, CreateKeeps, StatusKeeps DEF Next

LEMMA Invariance == Spec => []RoutingInv
BY InitHolds, StepHolds, PTL DEF Spec

-----------------------------------------------------------------------------
(* Theorems.                                                                *)

\* For any number of deliveries, stops and requests: the rows, and what the open
\* requests are about to write, keep their types; no sequence goes beyond the
\* number of stops the route was ever given, overlaps or not.
THEOREM TypeCorrect == Spec => []TypeOK
<1>1. RoutingInv => TypeOK
  BY TypesFollow DEF RoutingInv
<1> QED
  BY <1>1, Invariance, PTL

\* For any number of overlapping requests none of which removes a stop while
\* another is open: the numbers of the stops have no gap.
THEOREM NoGap == Spec => []Packed
<1>1. ASSUME RoutingInv PROVE Packed
  <2> SUFFICES ASSUME ~raced PROVE {stops[s].sequence : s \in Live} = 1..Cardinality(Live)
    BY DEF Packed
  <2>1. CASE route = "deleted"
    <3>1. Live = {} /\ Cardinality({}) = 0
      BY <1>1, <2>1, FS_EmptySet DEF RoutingInv, Typed, RowsFit
    <3> QED
      BY <3>1
  <2>2. CASE route # "deleted"
    BY <1>1, <2>2 DEF RoutingInv, Gapless
  <2> QED
    BY <2>1, <2>2
<1> QED
  BY <1>1, Invariance, PTL

\* Under the same condition no request swaps two stops.
THEOREM NoSwap == Spec => OrderKept
<1> DEFINE Kept == \A s, t \in Live \cap Live' :
                     stops[s].sequence < stops[t].sequence => stops'[s].sequence < stops'[t].sequence
<1>1. ASSUME RoutingInv, [Next]_vars
      PROVE  [~raced' => Kept]_vars
  <2> SUFFICES ASSUME Next, ~raced' PROVE Kept
    BY <1>1
  <2>1. ASSUME NEW r \in Request, Commit(r) PROVE Kept
    BY <1>1, <2>1, CommitKeepsGapless
  <2>2. ASSUME UNCHANGED stops PROVE Kept
    BY <2>2
  <2>3. ASSUME NEW r \in Request, RequestStep(r) PROVE Kept
    BY <2>1, <2>2, <2>3 DEF RequestStep, AddStop, RemoveStop, Recalculate, DeleteRoute, Opens, Fail
  <2>4. ASSUME CreateStep PROVE Kept
    <3>1. route = "none"
      BY <2>4 DEF CreateStep, CreateRoute
    <3>2. Live = {}
      BY <1>1, <3>1, LiveIsUsed DEF RoutingInv, Typed, RowsFit
    <3> QED
      BY <3>2
  <2>5. ASSUME NEW id \in StopId, NEW status \in {"pending", "visited"}, UpdateStopStatus(id, status) PROVE Kept
    <3>1. \A s \in Live : stops'[s].sequence = stops[s].sequence
      <4>1. id \in Live /\ stops' = [stops EXCEPT ![id].state = status]
        BY <2>5 DEF UpdateStopStatus
      <4>2. stops[id] \in StopRow /\ DOMAIN stops = StopId
        BY <1>1, <4>1, LiveRows DEF RoutingInv, Typed, RowsFit
      <4> QED
        BY <4>1, <4>2 DEF StopRow, Live
    <3> QED
      BY <3>1
  <2>6. ASSUME StatusStep PROVE Kept
    BY <2>2, <2>5, <2>6 DEF StatusStep, UpdateRouteStatus
  <2> QED
    BY <2>3, <2>4, <2>6 DEF Next
<1> QED
  BY <1>1, Invariance, PTL DEF Spec, OrderKept
=============================================================================
