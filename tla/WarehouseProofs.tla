-------------------------- MODULE WarehouseProofs --------------------------
(***************************************************************************)
(* What is proved of Warehouse, for any building, rows of stock, amounts   *)
(* and requests.  What lies at a place is a sum over its rows, so the      *)
(* theory of finite sums comes first, by induction on finite sets through  *)
(* a least counterexample.                                                 *)
(***************************************************************************)
EXTENDS Warehouse, FiniteSetTheorems, TLAPS

-----------------------------------------------------------------------------
(* The invariant.                                                           *)

ZoneRow == [state : {"live"}, parent : WarehouseId]
LocationRow == [state : {"live"}, parent : ZoneId]
TaskRow == [state : {"live"}, warehouse : WarehouseId, status : TaskStatus]
StockRow == [state : {"live"}, warehouse : WarehouseId, location : LocationId \cup {Floor},
             quantity : 0..MaxQuantity]

Plans == [writes : UNION {[D -> 0..MaxQuantity] : D \in SUBSET StockId},
          new : UNION {[D -> StockRow] : D \in SUBSET StockId},
          entries : UNION {[D -> Int] : D \in SUBSET Place}]

\* The tables, with finitely many locations at a time.
Typed ==
  /\ warehouses \in [WarehouseId -> {Absent, Standing}]
  /\ zones \in [ZoneId -> {Absent} \cup ZoneRow]
  /\ locations \in [LocationId -> {Absent} \cup LocationRow]
  /\ tasks \in [TaskId -> {Absent} \cup TaskRow]
  /\ stock \in [StockId -> {Absent} \cup StockRow]
  /\ ledger \in [Place -> Int]
  /\ request \in [Request -> Plans]
  /\ raced \in BOOLEAN
  /\ doubled \subseteq WarehouseId
  /\ IsFiniteSet(Live(locations))

\* The places whose foreign keys hold.
Present == Live(warehouses) \X (Live(locations) \cup {Floor})

\* What the foreign keys say.
Attached ==
  /\ \A z \in Live(zones) : zones[z].parent \in Live(warehouses)
  /\ \A l \in Live(locations) : locations[l].parent \in Live(zones)
  /\ \A t \in Live(tasks) : tasks[t].warehouse \in Live(warehouses)
  /\ \A s \in Live(stock) : PlaceOf(stock[s]) \in Present
  /\ \A p \in Place : ledger[p] # 0 => p \in Present

Rows(plan) == DOMAIN plan.writes \cup DOMAIN plan.new

\* A request inserts one row at most, which is not there yet, for a place of its
\* movements, and under a key that is nobody else's.
Inserting ==
  \A r \in Request :
    /\ \A s, t \in DOMAIN request[r].new : s = t
    /\ \A s \in DOMAIN request[r].new :
         /\ stock[s] = Absent
         /\ PlaceOf(request[r].new[s]) \in DOMAIN request[r].entries
         /\ \A q \in Request \ {r} : s \notin Rows(request[q])

\* The rows of a table that lie at a place, and how much that is.
Lying(table, p) == {s \in Live(table) : PlaceOf(table[s]) = p}

Weight(table, p) == SumFunction([s \in Lying(table, p) |-> table[s].quantity])

\* Who has inserted the first row of a floor finds it empty, unless somebody has
\* met them there.
FloorIsFree ==
  \A r \in Request : \A s \in DOMAIN request[r].new :
    LET row == request[r].new[s]
    IN  row.location = Floor /\ row.warehouse \notin doubled => Lying(stock, PlaceOf(row)) = {}

AtMostOne(S) == \A x, y \in S : x = y

Single ==
  \A p \in Place : p[2] # Floor \/ p[1] \notin doubled => AtMostOne(Lying(stock, p))

\* The row s of a plan answers for its entry at p: if both are still there, the
\* row lies at p and will be what it is now and the entry.
Answers(plan, s, p, table, places) ==
  IF s \in DOMAIN plan.new
  THEN PlaceOf(plan.new[s]) = p /\ plan.new[s].quantity = plan.entries[p]
  ELSE s \in Live(table) /\ p \in places =>
         PlaceOf(table[s]) = p /\ plan.writes[s] = table[s].quantity + plan.entries[p]

\* Every entry of a plan has one row, and every row one entry.
Reflects(plan, table, places) ==
  \E of \in [DOMAIN plan.entries -> Rows(plan)] :
    /\ \A p, q \in DOMAIN plan.entries : of[p] = of[q] => p = q
    /\ \A s \in Rows(plan) : \E p \in DOMAIN plan.entries : of[p] = s
    /\ \A p \in DOMAIN plan.entries : Answers(plan, of[p], p, table, places)

\* What lies at a place is what its movements say, and so it will when the open
\* requests have committed.
Balanced ==
  ~raced =>
    /\ \A p \in Place : Weight(stock, p) = ledger[p]
    /\ \A r \in Request : Reflects(request[r], stock, Present)

WarehouseInv == Typed /\ Attached /\ Inserting /\ FloorIsFree /\ Single /\ Balanced

-----------------------------------------------------------------------------
(* Finite sets: induction without an operator as a parameter.               *)

LEMMA LeastSubset ==
  ASSUME NEW S, IsFiniteSet(S), NEW P \in SUBSET SUBSET S, P # {}
  PROVE  \E T \in P : \A U \in P : U \subseteq T => U = T
<1>1. IsWellFoundedOn(StrictSubsetOrdering(S), SUBSET S)
  BY FS_StrictSubsetOrderingWellFounded, FS_FiniteSubsetsOfFinite
<1>2. PICK T \in P : \A U \in P : ~(<<U, T>> \in StrictSubsetOrdering(S))
  BY <1>1, WFMin
<1>3. ASSUME NEW U \in P, U \subseteq T, U # T PROVE FALSE
  <2>1. <<U, T>> \in StrictSubsetOrdering(S)
    BY <1>3 DEF StrictSubsetOrdering
  <2> QED
    BY <1>2, <2>1
<1> QED
  BY <1>3

LEMMA Induction ==
  ASSUME NEW S, IsFiniteSet(S), NEW P, {} \in P,
         \A T \in SUBSET S, x \in S : x \notin T /\ T \in P => T \cup {x} \in P
  PROVE  S \in P
<1> SUFFICES ASSUME S \notin P PROVE FALSE
  OBVIOUS
<1> DEFINE Q == {T \in SUBSET S : T \notin P}
<1>1. S \in Q /\ Q \in SUBSET SUBSET S
  OBVIOUS
<1> HIDE DEF Q
<1>2. PICK T \in Q : \A U \in Q : U \subseteq T => U = T
  BY <1>1, LeastSubset
<1> USE DEF Q
<1>3. PICK x \in T : TRUE
  BY <1>2
<1>4. T \ {x} \in P
  BY <1>2, <1>3
<1>5. (T \ {x}) \cup {x} = T
  BY <1>3
<1> QED
  BY <1>2, <1>3, <1>4, <1>5

-----------------------------------------------------------------------------
(* Sums.                                                                    *)

First(T) == CHOOSE x \in T : TRUE

IsFold(g, f, S) ==
  g = [T \in SUBSET S |-> IF T = {} THEN 0 ELSE f[First(T)] + g[T \ {First(T)}]]

LEMMA SumIsChosen ==
  ASSUME NEW f, NEW S
  PROVE  SumFunctionOnSet(f, S) = (CHOOSE g : IsFold(g, f, S))[S]
BY DEF SumFunctionOnSet, FoldFunctionOnSet, MapThenFoldSet, IsFold, First

LEMMA FirstIsIn ==
  ASSUME NEW T, T # {}
  PROVE  First(T) \in T
BY DEF First

\* What is defined for the subsets of up to n elements is defined for all.
LEMMA FoldExists ==
  ASSUME NEW S, IsFiniteSet(S), NEW f
  PROVE  \E g : IsFold(g, f, S)
<1> DEFINE Upto(U) == {T \in SUBSET S : Cardinality(T) <= Cardinality(U)}
           Fits(g, U) == g = [T \in Upto(U) |-> IF T = {} THEN 0 ELSE f[First(T)] + g[T \ {First(T)}]]
           P == {U \in SUBSET S : \E g : Fits(g, U)}
<1>1. \A T \in SUBSET S : IsFiniteSet(T) /\ Cardinality(T) \in Nat /\ Cardinality(T) <= Cardinality(S)
  BY FS_Subset, FS_CardinalityType
<1>2. {} \in P
  <2>1. \A T \in Upto({}) : T = {}
    <3> SUFFICES ASSUME NEW T \in Upto({}) PROVE T = {}
      OBVIOUS
    <3>1. Cardinality(T) = 0
      BY <1>1, FS_EmptySet
    <3> QED
      BY <1>1, <3>1, FS_EmptySet
  <2>2. Fits([T \in Upto({}) |-> 0], {})
    BY <2>1
  <2> QED
    BY <2>2
<1>3. ASSUME NEW U \in SUBSET S, NEW x \in S, x \notin U, U \in P PROVE U \cup {x} \in P
  <2>1. PICK g : Fits(g, U)
    BY <1>3
  <2> DEFINE V == U \cup {x}
             h == [T \in Upto(V) |-> IF T = {} THEN 0 ELSE f[First(T)] + g[T \ {First(T)}]]
  <2>2. V \in SUBSET S /\ Cardinality(V) = Cardinality(U) + 1
    BY <1>1, <1>3, FS_AddElement
  <2>3. \A T \in Upto(V) : T # {} => T \ {First(T)} \in Upto(U) /\ T \ {First(T)} \in Upto(V)
    <3> SUFFICES ASSUME NEW T \in Upto(V), T # {}
                 PROVE  T \ {First(T)} \in Upto(U) /\ T \ {First(T)} \in Upto(V)
      OBVIOUS
    <3>1. T \ {First(T)} \in SUBSET S /\ Cardinality(T \ {First(T)}) = Cardinality(T) - 1
      BY <1>1, FirstIsIn, FS_RemoveElement
    <3>2. Cardinality(T) \in Nat /\ Cardinality(U) \in Nat
      BY <1>1
    <3> QED
      BY <2>2, <3>1, <3>2
  <2>4. \A T \in Upto(U) : g[T] = IF T = {} THEN 0 ELSE f[First(T)] + g[T \ {First(T)}]
    BY <2>1
  <2>5. \A T \in Upto(U) : T \in Upto(V) /\ h[T] = g[T]
    <3>1. \A T \in Upto(U) : T \in Upto(V)
      <4> SUFFICES ASSUME NEW T \in Upto(U) PROVE T \in Upto(V)
        OBVIOUS
      <4>1. Cardinality(T) \in Nat /\ Cardinality(U) \in Nat
        BY <1>1
      <4> QED
        BY <2>2, <4>1
    <3> QED
      BY <2>4, <3>1
  <2>6. \A T \in Upto(V) : h[T] = IF T = {} THEN 0 ELSE f[First(T)] + h[T \ {First(T)}]
    BY <2>3, <2>5
  <2>7. Fits(h, V)
    BY <2>6
  <2> QED
    BY <2>2, <2>7
<1> HIDE DEF P
<1>4. S \in P
  BY <1>2, <1>3, Induction
<1>5. Upto(S) = SUBSET S
  BY <1>1
<1> QED
  BY <1>4, <1>5 DEF P, IsFold

LEMMA FoldSteps ==
  ASSUME NEW S, NEW f, NEW g, IsFold(g, f, S)
  PROVE  /\ g[{}] = 0
         /\ \A T \in SUBSET S : T # {} => g[T] = f[First(T)] + g[T \ {First(T)}]
BY DEF IsFold

\* A fold depends only on the values of what it takes in.
LEMMA FoldsAgree ==
  ASSUME NEW S, NEW R, IsFiniteSet(S), S \subseteq R,
         NEW e, NEW f, \A x \in S : e[x] = f[x],
         NEW g, IsFold(g, e, S), NEW h, IsFold(h, f, R)
  PROVE  \A T \in SUBSET S : g[T] = h[T]
<1> DEFINE P == {T \in SUBSET S : g[T] # h[T]}
<1> SUFFICES ASSUME P # {} PROVE FALSE
  OBVIOUS
<1>0. P \in SUBSET SUBSET S
  OBVIOUS
<1> HIDE DEF P
<1>1. PICK T \in P : \A U \in P : U \subseteq T => U = T
  BY <1>0, LeastSubset
<1> USE DEF P
<1>2. T # {}
  <2>1. g[{}] = 0 /\ h[{}] = 0
    BY FoldSteps
  <2> QED
    BY <2>1
<1>3. First(T) \in T /\ T \ {First(T)} \in SUBSET S
  BY <1>2, FirstIsIn
<1>4. g[T \ {First(T)}] = h[T \ {First(T)}]
  BY <1>1, <1>3
<1>5. T \in SUBSET S /\ T \in SUBSET R
  OBVIOUS
<1>6. g[T] = e[First(T)] + g[T \ {First(T)}]
  <2>1. \A U \in SUBSET S : U # {} => g[U] = e[First(U)] + g[U \ {First(U)}]
    BY FoldSteps
  <2> QED
    BY <1>2, <1>5, <2>1
<1>7. h[T] = f[First(T)] + h[T \ {First(T)}]
  <2>1. \A U \in SUBSET R : U # {} => h[U] = f[First(U)] + h[U \ {First(U)}]
    BY FoldSteps
  <2> QED
    BY <1>2, <1>5, <2>1
<1> QED
  BY <1>3, <1>4, <1>5, <1>6, <1>7

\* Any element may be taken first.
LEMMA AnyFirst ==
  ASSUME NEW S, IsFiniteSet(S), NEW f, \A x \in S : f[x] \in Int, NEW g, IsFold(g, f, S)
  PROVE  \A T \in SUBSET S : g[T] \in Int /\ \A x \in T : g[T] = f[x] + g[T \ {x}]
<1> DEFINE Good(T) == g[T] \in Int /\ \A x \in T : g[T] = f[x] + g[T \ {x}]
           P == {T \in SUBSET S : ~Good(T)}
<1> SUFFICES ASSUME P # {} PROVE FALSE
  OBVIOUS
<1>0. P \in SUBSET SUBSET S
  OBVIOUS
<1> HIDE DEF P
<1>1. PICK T \in P : \A U \in P : U \subseteq T => U = T
  BY <1>0, LeastSubset
<1> USE DEF P
<1>2. T # {}
  <2>1. g[{}] = 0
    BY FoldSteps
  <2> QED
    BY <2>1
<1>3. PICK y \in T : g[T] = f[y] + g[T \ {y}]
  BY <1>2, FirstIsIn DEF IsFold
<1>4. \A x \in T : Good(T \ {x})
  <2>1. \A U \in SUBSET T : U # T => Good(U)
    <3> SUFFICES ASSUME NEW U \in SUBSET T, U # T, ~Good(U) PROVE FALSE
      OBVIOUS
    <3>1. U \in P
      OBVIOUS
    <3> HIDE DEF P, Good
    <3> QED
      BY <1>1, <3>1
  <2> HIDE DEF Good
  <2> QED
    BY <2>1
<1>5. g[T] \in Int
  BY <1>3, <1>4
<1>6. ASSUME NEW x \in T, x # y PROVE g[T] = f[x] + g[T \ {x}]
  <2>1. g[T \ {y}] = f[x] + g[(T \ {y}) \ {x}]
    BY <1>4, <1>3, <1>6
  <2>2. g[T \ {x}] = f[y] + g[(T \ {x}) \ {y}]
    BY <1>4, <1>3, <1>6
  <2>3. (T \ {y}) \ {x} = (T \ {x}) \ {y} /\ (T \ {x}) \ {y} \in SUBSET S
    OBVIOUS
  <2>4. (T \ {x}) \ {y} # T /\ (T \ {x}) \ {y} \subseteq T
    BY <1>3
  <2>5. PICK k \in Int : k = g[(T \ {x}) \ {y}]
    BY <1>1, <2>3, <2>4
  <2>6. PICK a \in Int, b \in Int : a = f[x] /\ b = f[y]
    BY <1>3
  <2>7. g[T \ {y}] = a + k /\ g[T \ {x}] = b + k
    BY <2>1, <2>2, <2>3, <2>5, <2>6
  <2>8. g[T] = b + (a + k) /\ b + (a + k) = a + (b + k)
    BY <1>3, <2>6, <2>7
  <2> QED
    BY <2>6, <2>7, <2>8
<1> QED
  BY <1>3, <1>5, <1>6

LEMMA SumEmpty ==
  ASSUME NEW f
  PROVE  SumFunctionOnSet(f, {}) = 0
<1>1. PICK g : IsFold(g, f, {}) /\ SumFunctionOnSet(f, {}) = g[{}]
  BY FoldExists, SumIsChosen, FS_EmptySet
<1> QED
  BY <1>1, FoldSteps

LEMMA SumTakes ==
  ASSUME NEW S, IsFiniteSet(S), NEW f, \A x \in S : f[x] \in Int, NEW y \in S
  PROVE  /\ SumFunctionOnSet(f, S) = f[y] + SumFunctionOnSet(f, S \ {y})
         /\ SumFunctionOnSet(f, S \ {y}) \in Int
<1>1. IsFiniteSet(S \ {y})
  BY FS_Subset
<1>2. PICK g : IsFold(g, f, S) /\ SumFunctionOnSet(f, S) = g[S]
  BY FoldExists, SumIsChosen
<1>3. PICK h : IsFold(h, f, S \ {y}) /\ SumFunctionOnSet(f, S \ {y}) = h[S \ {y}]
  BY <1>1, FoldExists, SumIsChosen
<1>4. h[S \ {y}] = g[S \ {y}]
  BY <1>1, <1>2, <1>3, FoldsAgree
<1>5. g[S] = f[y] + g[S \ {y}] /\ g[S \ {y}] \in Int
  BY <1>2, AnyFirst
<1> QED
  BY <1>2, <1>3, <1>4, <1>5

LEMMA SumSame ==
  ASSUME NEW S, IsFiniteSet(S), NEW e, NEW f, \A x \in S : e[x] = f[x]
  PROVE  SumFunctionOnSet(e, S) = SumFunctionOnSet(f, S)
<1>1. PICK g : IsFold(g, e, S) /\ SumFunctionOnSet(e, S) = g[S]
  BY FoldExists, SumIsChosen
<1>2. PICK h : IsFold(h, f, S) /\ SumFunctionOnSet(f, S) = h[S]
  BY FoldExists, SumIsChosen
<1>3. \A T \in SUBSET S : g[T] = h[T]
  BY <1>1, <1>2, FoldsAgree
<1> QED
  BY <1>1, <1>2, <1>3

LEMMA SumType ==
  ASSUME NEW S, IsFiniteSet(S), NEW f, \A x \in S : f[x] \in Int
  PROVE  SumFunctionOnSet(f, S) \in Int
<1>1. CASE S = {}
  BY <1>1, SumEmpty
<1>2. CASE S # {}
  <2>1. PICK y \in S : TRUE
    BY <1>2
  <2>2. /\ SumFunctionOnSet(f, S) = f[y] + SumFunctionOnSet(f, S \ {y})
        /\ SumFunctionOnSet(f, S \ {y}) \in Int
    BY SumTakes
  <2> QED
    BY <2>2
<1> QED
  BY <1>1, <1>2

LEMMA SumAdds ==
  ASSUME NEW S, IsFiniteSet(S), NEW f, \A x \in S : f[x] \in Int, NEW y, y \notin S, f[y] \in Int
  PROVE  SumFunctionOnSet(f, S \cup {y}) = SumFunctionOnSet(f, S) + f[y]
<1>1. IsFiniteSet(S \cup {y}) /\ (S \cup {y}) \ {y} = S
  BY FS_AddElement
<1>2. SumFunctionOnSet(f, S \cup {y}) = f[y] + SumFunctionOnSet(f, (S \cup {y}) \ {y})
  BY <1>1, SumTakes
<1>3. SumFunctionOnSet(f, S) \in Int
  BY SumType
<1> QED
  <2>1. SumFunctionOnSet(f, S \cup {y}) = f[y] + SumFunctionOnSet(f, S)
    BY <1>1, <1>2
  <2> QED
    BY <1>3, <2>1

LEMMA SumZero ==
  ASSUME NEW S, IsFiniteSet(S), NEW f, \A x \in S : f[x] = 0
  PROVE  SumFunctionOnSet(f, S) = 0
<1> DEFINE P == {T \in SUBSET S : SumFunctionOnSet(f, T) = 0}
<1>1. {} \in P
  BY SumEmpty
<1>2. ASSUME NEW T \in SUBSET S, NEW x \in S, x \notin T, T \in P PROVE T \cup {x} \in P
  <2>1. IsFiniteSet(T) /\ \A y \in T : f[y] \in Int
    BY FS_Subset
  <2>2. SumFunctionOnSet(f, T \cup {x}) = SumFunctionOnSet(f, T) + f[x]
    BY <1>2, <2>1, SumAdds
  <2> QED
    BY <1>2, <2>2
<1> HIDE DEF P
<1>3. S \in P
  BY <1>1, <1>2, Induction
<1> QED
  BY <1>3 DEF P

LEMMA SumUnion ==
  ASSUME NEW S, NEW R, IsFiniteSet(S), IsFiniteSet(R), S \cap R = {},
         NEW f, \A x \in S \cup R : f[x] \in Int
  PROVE  SumFunctionOnSet(f, S \cup R) = SumFunctionOnSet(f, S) + SumFunctionOnSet(f, R)
<1> DEFINE P == {T \in SUBSET R :
                   SumFunctionOnSet(f, S \cup T) = SumFunctionOnSet(f, S) + SumFunctionOnSet(f, T)}
<1>1. {} \in P
  <2>1. SumFunctionOnSet(f, S) \in Int /\ S \cup {} = S
    BY SumType
  <2> QED
    BY <2>1, SumEmpty
<1>2. ASSUME NEW T \in SUBSET R, NEW x \in R, x \notin T, T \in P PROVE T \cup {x} \in P
  <2>1. IsFiniteSet(T) /\ IsFiniteSet(S \cup T)
    BY FS_Subset, FS_Union
  <2>2. SumFunctionOnSet(f, T \cup {x}) = SumFunctionOnSet(f, T) + f[x]
    BY <1>2, <2>1, SumAdds
  <2>3. SumFunctionOnSet(f, (S \cup T) \cup {x}) = SumFunctionOnSet(f, S \cup T) + f[x]
    BY <1>2, <2>1, SumAdds
  <2>4. SumFunctionOnSet(f, T) \in Int /\ SumFunctionOnSet(f, S) \in Int /\ f[x] \in Int
    BY <2>1, SumType
  <2>5. S \cup (T \cup {x}) = (S \cup T) \cup {x}
    OBVIOUS
  <2>6. SumFunctionOnSet(f, S \cup T) = SumFunctionOnSet(f, S) + SumFunctionOnSet(f, T)
    BY <1>2
  <2>7. SumFunctionOnSet(f, (S \cup T) \cup {x})
          = SumFunctionOnSet(f, S) + SumFunctionOnSet(f, T \cup {x})
    BY <2>2, <2>3, <2>4, <2>6
  <2> QED
    BY <1>2, <2>5, <2>7
<1> HIDE DEF P
<1>3. R \in P
  BY <1>1, <1>2, Induction
<1> QED
  BY <1>3 DEF P

-----------------------------------------------------------------------------
(* Tables.                                                                  *)

LEMMA LiveRows ==
  ASSUME NEW D, NEW R, \A row \in R : row.state = "live",
         NEW table \in [D -> {Absent} \cup R]
  PROVE  /\ Live(table) \subseteq D
         /\ \A id \in Live(table) : table[id] \in R
         /\ \A id \in D : id \notin Live(table) => table[id] = Absent
         /\ \A id \in D : table[id] = Absent => id \notin Live(table)
         /\ \A id \in D : table[id] \in R => id \in Live(table)
BY DEF Live, Absent

LEMMA RowAdded ==
  ASSUME NEW D, NEW R, \A row \in R : row.state = "live",
         NEW table \in [D -> {Absent} \cup R], NEW after \in [D -> {Absent} \cup R],
         NEW x \in D, after[x] \in R, \A id \in D : id # x => after[id] = table[id]
  PROVE  Live(after) = Live(table) \cup {x}
BY DEF Live

LEMMA NoneGone ==
  ASSUME NEW D, NEW R, NEW table \in [D -> R]
  PROVE  Without(table, {}) = table
BY DEF Without

\* The rows of the tables have the state that makes them live.
LEMMA RowsAreLive ==
  /\ \A row \in {Standing} : row.state = "live"
  /\ \A row \in ZoneRow : row.state = "live"
  /\ \A row \in LocationRow : row.state = "live"
  /\ \A row \in TaskRow : row.state = "live"
  /\ \A row \in StockRow : row.state = "live"
BY DEF Standing, ZoneRow, LocationRow, TaskRow, StockRow

LEMMA PresentExists ==
  /\ \A p \in Place : Exists(p) <=> p \in Present
  /\ \A p \in Place : (Exists(p) <=> p \in Present)'
  /\ \A w, l : <<w, l>> \in Present <=> w \in Live(warehouses) /\ l \in Live(locations) \cup {Floor}
  /\ \A w, l : (<<w, l>> \in Present <=> w \in Live(warehouses) /\ l \in Live(locations) \cup {Floor})'
BY DEF Exists, Present, Place

LEMMA TypesFollow == Typed /\ Attached => TypeOK
<1> SUFFICES ASSUME Typed, Attached PROVE TypeOK
  OBVIOUS
<1>1. \A t \in Live(tasks) : tasks[t] \in TaskRow
  BY LiveRows, RowsAreLive DEF Typed
<1>2. \A s \in Live(stock) : stock[s] \in StockRow
  BY LiveRows, RowsAreLive DEF Typed
<1>3. \A t \in Live(tasks) : tasks[t].status \in TaskStatus
  BY <1>1 DEF TaskRow
<1>4. \A s \in Live(stock) : stock[s].quantity \in 0..MaxQuantity
  BY <1>2 DEF StockRow
<1>5. \A s \in Live(stock) : /\ stock[s].warehouse \in Live(warehouses)
                             /\ stock[s].location \in Live(locations) \cup {Floor}
  BY DEF Attached, Present, PlaceOf
<1>6. \A p \in Place : ledger[p] # 0 => p[1] \in Live(warehouses) /\ p[2] \in Live(locations) \cup {Floor}
  BY DEF Attached, Present
<1> QED
  BY <1>3, <1>4, <1>5, <1>6 DEF TypeOK, Typed, Attached

\* What a plan is made of.
LEMMA PlanParts ==
  ASSUME NEW plan \in Plans
  PROVE  /\ plan = Plan(plan.writes, plan.new, plan.entries)
         /\ plan.writes = [s \in DOMAIN plan.writes |-> plan.writes[s]]
         /\ plan.new = [s \in DOMAIN plan.new |-> plan.new[s]]
         /\ plan.entries = [p \in DOMAIN plan.entries |-> plan.entries[p]]
         /\ DOMAIN plan.writes \subseteq StockId
         /\ \A s \in DOMAIN plan.writes : plan.writes[s] \in 0..MaxQuantity
         /\ DOMAIN plan.new \subseteq StockId
         /\ \A s \in DOMAIN plan.new : plan.new[s] \in StockRow
         /\ DOMAIN plan.entries \subseteq Place
         /\ \A p \in DOMAIN plan.entries : plan.entries[p] \in Int
BY DEF Plans, Plan

LEMMA PlanIs ==
  ASSUME NEW W \in SUBSET StockId, NEW writes \in [W -> 0..MaxQuantity],
         NEW N \in SUBSET StockId, NEW new \in [N -> StockRow],
         NEW E \in SUBSET Place, NEW entries \in [E -> Int]
  PROVE  /\ Plan(writes, new, entries) \in Plans
         /\ Plan(writes, new, entries).writes = writes
         /\ Plan(writes, new, entries).new = new
         /\ Plan(writes, new, entries).entries = entries
BY DEF Plans, Plan

LEMMA IdleIs ==
  /\ Idle \in Plans
  /\ DOMAIN Idle.writes = {} /\ DOMAIN Idle.new = {} /\ DOMAIN Idle.entries = {}
<1>1. Nothing \in [{} -> 0..MaxQuantity] /\ Nothing \in [{} -> StockRow] /\ Nothing \in [{} -> Int]
  BY DEF Nothing
<1>2. {} \in SUBSET StockId /\ {} \in SUBSET Place
  OBVIOUS
<1>3. /\ Idle \in Plans /\ Idle.writes = Nothing /\ Idle.new = Nothing /\ Idle.entries = Nothing
  <2>1. PICK none : none = Nothing /\ none \in [{} -> 0..MaxQuantity]
                    /\ none \in [{} -> StockRow] /\ none \in [{} -> Int]
    BY <1>1
  <2>2. Idle = [writes |-> none, new |-> none, entries |-> none]
    BY <2>1 DEF Idle, Plan
  <2> QED
    BY <1>2, <2>1, <2>2 DEF Plans
<1> QED
  BY <1>3 DEF Nothing

LEMMA IdleReflects ==
  ASSUME NEW table, NEW places
  PROVE  Reflects(Idle, table, places)
<1>1. Rows(Idle) = {}
  BY IdleIs DEF Rows
<1>2. [p \in {} |-> p] \in [DOMAIN Idle.entries -> Rows(Idle)]
  BY IdleIs, <1>1
<1> QED
  BY <1>1, <1>2, IdleIs DEF Reflects

-----------------------------------------------------------------------------
(* What lies at a place.                                                    *)

StockTables == [StockId -> {Absent} \cup StockRow]

LEMMA StockRows ==
  ASSUME NEW table \in StockTables
  PROVE  /\ Live(table) \subseteq StockId
         /\ \A s \in Live(table) : table[s] \in StockRow
         /\ \A s \in StockId : s \notin Live(table) => table[s] = Absent
         /\ \A s \in StockId : table[s] = Absent => s \notin Live(table)
         /\ \A s \in StockId : table[s] \in StockRow => s \in Live(table)
         /\ \A s \in Live(table) : /\ table[s].quantity \in Int
                                   /\ PlaceOf(table[s]) \in Place
<1>1. /\ Live(table) \subseteq StockId
      /\ \A s \in Live(table) : table[s] \in StockRow
      /\ \A s \in StockId : s \notin Live(table) => table[s] = Absent
      /\ \A s \in StockId : table[s] = Absent => s \notin Live(table)
      /\ \A s \in StockId : table[s] \in StockRow => s \in Live(table)
  BY LiveRows, RowsAreLive DEF StockTables
<1>2. \A row \in StockRow : row.quantity \in Int /\ PlaceOf(row) \in Place
  BY WarehouseAssumption DEF StockRow, PlaceOf, Place
<1> QED
  BY <1>1, <1>2

LEMMA LyingIsFinite ==
  ASSUME NEW table \in StockTables, NEW p
  PROVE  /\ IsFiniteSet(Lying(table, p))
         /\ Lying(table, p) \subseteq Live(table)
         /\ IsFiniteSet(Live(table))
<1>1. Live(table) \in SUBSET StockId
  BY StockRows
<1>2. IsFiniteSet(Live(table)) /\ Lying(table, p) \in SUBSET Live(table)
  BY <1>1, FS_Subset, WarehouseAssumption DEF Lying
<1> QED
  BY <1>2, FS_Subset

LEMMA WeightSum ==
  ASSUME NEW table \in StockTables, NEW p,
         NEW q, \A s \in Lying(table, p) : q[s] = table[s].quantity
  PROVE  /\ Weight(table, p) = SumFunctionOnSet(q, Lying(table, p))
         /\ Weight(table, p) \in Int
         /\ \A s \in Lying(table, p) : q[s] \in Int
<1> DEFINE S == Lying(table, p)
           e == [s \in S |-> table[s].quantity]
<1>1. IsFiniteSet(S) /\ \A s \in S : q[s] \in Int
  BY LyingIsFinite, StockRows
<1>2. Weight(table, p) = SumFunctionOnSet(e, S)
  BY DEF Weight, SumFunction
<1>3. \A s \in S : e[s] = q[s]
  OBVIOUS
<1> HIDE DEF S, e
<1>4. SumFunctionOnSet(e, S) = SumFunctionOnSet(q, S)
  BY <1>1, <1>3, SumSame
<1>5. SumFunctionOnSet(q, S) \in Int
  BY <1>1, SumType
<1>6. Weight(table, p) = SumFunctionOnSet(q, S) /\ Weight(table, p) \in Int
  BY <1>2, <1>4, <1>5
<1> QED
  BY <1>1, <1>6 DEF S

LEMMA WeightOfNone ==
  ASSUME NEW table, NEW p, Lying(table, p) = {}
  PROVE  Weight(table, p) = 0
<1> DEFINE e == [s \in Lying(table, p) |-> table[s].quantity]
<1>1. Weight(table, p) = SumFunctionOnSet(e, {})
  BY DEF Weight, SumFunction
<1> HIDE DEF e
<1> QED
  BY <1>1, SumEmpty

LEMMA WeightStays ==
  ASSUME NEW table, NEW after, NEW p,
         Lying(after, p) = Lying(table, p),
         \A s \in Lying(table, p) : after[s].quantity = table[s].quantity
  PROVE  Weight(after, p) = Weight(table, p)
<1>1. [s \in Lying(after, p) |-> after[s].quantity] = [s \in Lying(table, p) |-> table[s].quantity]
  OBVIOUS
<1> QED
  BY <1>1 DEF Weight

LEMMA WeightAdds ==
  ASSUME NEW table \in StockTables, NEW after \in StockTables, NEW p, NEW x,
         x \notin Lying(table, p), Lying(after, p) = Lying(table, p) \cup {x},
         \A s \in Lying(table, p) : after[s].quantity = table[s].quantity
  PROVE  Weight(after, p) = Weight(table, p) + after[x].quantity
<1> DEFINE q == [s \in Lying(after, p) |-> after[s].quantity]
<1>1. /\ \A s \in Lying(after, p) : q[s] = after[s].quantity
      /\ \A s \in Lying(table, p) : q[s] = table[s].quantity
      /\ q[x] = after[x].quantity
  OBVIOUS
<1> HIDE DEF q
<1>2. /\ Weight(after, p) = SumFunctionOnSet(q, Lying(after, p))
      /\ \A s \in Lying(after, p) : q[s] \in Int
  BY <1>1, WeightSum
<1>3. /\ Weight(table, p) = SumFunctionOnSet(q, Lying(table, p))
      /\ \A s \in Lying(table, p) : q[s] \in Int
      /\ IsFiniteSet(Lying(table, p))
  BY <1>1, WeightSum, LyingIsFinite
<1>4. SumFunctionOnSet(q, Lying(table, p) \cup {x}) = SumFunctionOnSet(q, Lying(table, p)) + q[x]
  BY <1>2, <1>3, SumAdds
<1> QED
  BY <1>1, <1>2, <1>3, <1>4

LEMMA WeightChanges ==
  ASSUME NEW table \in StockTables, NEW after \in StockTables, NEW p, NEW x \in Lying(table, p),
         Lying(after, p) = Lying(table, p), NEW d \in Int,
         after[x].quantity = table[x].quantity + d,
         \A s \in Lying(table, p) : s # x => after[s].quantity = table[s].quantity
  PROVE  Weight(after, p) = Weight(table, p) + d
<1> DEFINE S == Lying(table, p)
           q == [s \in S |-> table[s].quantity]
           e == [s \in S |-> after[s].quantity]
<1>1. /\ \A s \in Lying(table, p) : q[s] = table[s].quantity
      /\ \A s \in Lying(after, p) : e[s] = after[s].quantity
  OBVIOUS
<1>2. e[x] = q[x] + d /\ \A s \in S \ {x} : e[s] = q[s]
  OBVIOUS
<1> HIDE DEF q, e
<1>3. Weight(after, p) = SumFunctionOnSet(e, Lying(after, p)) /\ \A s \in Lying(after, p) : e[s] \in Int
  BY <1>1, WeightSum
<1>4. Weight(table, p) = SumFunctionOnSet(q, S) /\ \A s \in S : q[s] \in Int
  BY <1>1, WeightSum
<1>5. IsFiniteSet(S) /\ IsFiniteSet(S \ {x}) /\ x \in S /\ \A s \in S : e[s] \in Int
  BY <1>3, LyingIsFinite, FS_Subset
<1> HIDE DEF S
<1>6. SumFunctionOnSet(e, S \ {x}) = SumFunctionOnSet(q, S \ {x})
  BY <1>2, <1>5, SumSame
<1>7. SumFunctionOnSet(e, S) = e[x] + SumFunctionOnSet(e, S \ {x})
  BY <1>5, SumTakes
<1>8. /\ SumFunctionOnSet(q, S) = q[x] + SumFunctionOnSet(q, S \ {x})
      /\ SumFunctionOnSet(q, S \ {x}) \in Int
  BY <1>4, <1>5, SumTakes
<1>9. q[x] \in Int
  BY <1>4, <1>5
<1>10. Weight(after, p) = SumFunctionOnSet(e, S)
  BY <1>3 DEF S
<1> QED
  BY <1>2, <1>4, <1>6, <1>7, <1>8, <1>9, <1>10

\* What lies in several locations is the sum of what lies in each.
LEMMA WeightMoves ==
  ASSUME NEW table \in StockTables, NEW after \in StockTables,
         NEW w \in WarehouseId, NEW ls \in SUBSET LocationId, IsFiniteSet(ls),
         NEW book \in [Place -> Int], \A p \in Place : Weight(table, p) = book[p],
         Lying(after, <<w, Floor>>) = {s \in Live(table) : /\ table[s].warehouse = w
                                                           /\ table[s].location \in ls \cup {Floor}},
         \A s \in Lying(after, <<w, Floor>>) : after[s].quantity = table[s].quantity
  PROVE  Weight(after, <<w, Floor>>)
           = book[<<w, Floor>>] + SumFunction([l \in ls |-> book[<<w, l>>]])
<1> DEFINE In(T) == {s \in Live(table) : table[s].warehouse = w /\ table[s].location \in T}
           q == [s \in Live(table) |-> table[s].quantity]
           b == [l \in ls |-> book[<<w, l>>]]
           P == {T \in SUBSET ls : SumFunctionOnSet(q, In(T \cup {Floor}))
                                     = book[<<w, Floor>>] + SumFunctionOnSet(b, T)}
<1>1. \A l \in ls \cup {Floor} : <<w, l>> \in Place /\ In({l}) = Lying(table, <<w, l>>)
  BY DEF Place, Lying, PlaceOf
<1>2. \A s \in Live(table) : q[s] = table[s].quantity /\ q[s] \in Int
  BY StockRows
<1>3. \A l \in ls \cup {Floor} : SumFunctionOnSet(q, In({l})) = book[<<w, l>>] /\ book[<<w, l>>] \in Int
  <2> SUFFICES ASSUME NEW l \in ls \cup {Floor}
               PROVE  SumFunctionOnSet(q, In({l})) = book[<<w, l>>] /\ book[<<w, l>>] \in Int
    OBVIOUS
  <2>1. \A s \in Lying(table, <<w, l>>) : q[s] = table[s].quantity
    BY <1>2 DEF Lying
  <2> HIDE DEF q, In
  <2>2. Weight(table, <<w, l>>) = SumFunctionOnSet(q, Lying(table, <<w, l>>))
    BY <2>1, WeightSum
  <2> QED
    BY <1>1, <2>2
<1>4. \A T : IsFiniteSet(In(T)) /\ In(T) \subseteq Live(table)
  <2> SUFFICES ASSUME NEW T PROVE IsFiniteSet(In(T)) /\ In(T) \subseteq Live(table)
    OBVIOUS
  <2>1. In(T) \in SUBSET Live(table) /\ IsFiniteSet(Live(table))
    BY LyingIsFinite
  <2> QED
    BY <2>1, FS_Subset
<1>5. \A l \in ls : b[l] = book[<<w, l>>] /\ b[l] \in Int
  BY <1>3
<1>6. \A T, U : In(T \cup U) = In(T) \cup In(U) /\ (T \cap U = {} => In(T) \cap In(U) = {})
  OBVIOUS
<1>7. Weight(after, <<w, Floor>>) = SumFunctionOnSet(q, In(ls \cup {Floor}))
  <2>1. In(ls \cup {Floor}) = Lying(after, <<w, Floor>>)
    OBVIOUS
  <2>2. \A s \in Lying(after, <<w, Floor>>) : q[s] = after[s].quantity
    BY <1>2
  <2> HIDE DEF q, In
  <2>3. Weight(after, <<w, Floor>>) = SumFunctionOnSet(q, Lying(after, <<w, Floor>>))
    BY <2>2, WeightSum
  <2> QED
    BY <2>1, <2>3
<1>8. SumFunction(b) = SumFunctionOnSet(b, ls)
  BY DEF SumFunction
<1> HIDE DEF In, q, b
<1>9. {} \in P
  <2>1. {} \cup {Floor} = {Floor}
    OBVIOUS
  <2>2. PICK k \in Int : k = book[<<w, Floor>>] /\ SumFunctionOnSet(q, In({Floor})) = k
    BY <1>3
  <2>3. SumFunctionOnSet(q, In({} \cup {Floor})) = book[<<w, Floor>>] + SumFunctionOnSet(b, {})
    BY <2>1, <2>2, SumEmpty
  <2> QED
    BY <2>3
<1>10. ASSUME NEW T \in SUBSET ls, NEW l \in ls, l \notin T, T \in P PROVE T \cup {l} \in P
  <2> DEFINE U == T \cup {Floor}
  <2>1. U \cap {l} = {} /\ (T \cup {l}) \cup {Floor} = U \cup {l}
    BY <1>10, WarehouseAssumption
  <2> HIDE DEF U
  <2>2. In(U) \cap In({l}) = {} /\ In(U \cup {l}) = In(U) \cup In({l})
    BY <1>6, <2>1
  <2>3. IsFiniteSet(In(U)) /\ IsFiniteSet(In({l})) /\ \A s \in In(U) \cup In({l}) : q[s] \in Int
    BY <1>2, <1>4
  <2>4. SumFunctionOnSet(q, In(U) \cup In({l}))
          = SumFunctionOnSet(q, In(U)) + SumFunctionOnSet(q, In({l}))
    BY <2>2, <2>3, SumUnion
  <2>5. IsFiniteSet(T) /\ \A k \in T : b[k] \in Int
    BY <1>5, FS_Subset
  <2>6. /\ SumFunctionOnSet(b, T \cup {l}) = SumFunctionOnSet(b, T) + b[l]
        /\ SumFunctionOnSet(b, T) \in Int
    <3>1. l \notin T /\ b[l] \in Int
      BY <1>5, <1>10
    <3>2. SumFunctionOnSet(b, T \cup {l}) = SumFunctionOnSet(b, T) + b[l]
      BY <2>5, <3>1, SumAdds
    <3>3. SumFunctionOnSet(b, T) \in Int
      BY <2>5, SumType
    <3> QED
      BY <3>2, <3>3
  <2>7. SumFunctionOnSet(q, In(U)) = book[<<w, Floor>>] + SumFunctionOnSet(b, T)
    BY <1>10 DEF U
  <2>8. SumFunctionOnSet(q, In(U \cup {l})) = book[<<w, Floor>>] + SumFunctionOnSet(b, T \cup {l})
    <3>1. PICK x \in Int, y \in Int, z \in Int :
            /\ x = book[<<w, Floor>>] /\ y = SumFunctionOnSet(b, T) /\ z = book[<<w, l>>]
            /\ z = b[l] /\ z = SumFunctionOnSet(q, In({l}))
      BY <1>3, <1>5, <2>6
    <3>2. SumFunctionOnSet(q, In(U \cup {l})) = (x + y) + z
      BY <2>2, <2>4, <2>7, <3>1
    <3>3. SumFunctionOnSet(b, T \cup {l}) = y + z
      BY <2>6, <3>1
    <3>4. (x + y) + z = x + (y + z)
      OBVIOUS
    <3> QED
      BY <3>1, <3>2, <3>3, <3>4
  <2> QED
    BY <2>1, <2>8
<1> HIDE DEF P
<1>11. ls \in P
  BY <1>9, <1>10, Induction
<1>12. SumFunctionOnSet(q, In(ls \cup {Floor})) = book[<<w, Floor>>] + SumFunctionOnSet(b, ls)
  BY <1>11 DEF P
<1> QED
  BY <1>7, <1>8, <1>12 DEF b

-----------------------------------------------------------------------------
(* The start, and building up.                                              *)

LEMMA InitHolds == Init => WarehouseInv
<1> SUFFICES ASSUME Init PROVE WarehouseInv
  OBVIOUS
<1>1. /\ Live(warehouses) = {} /\ Live(zones) = {} /\ Live(locations) = {}
      /\ Live(tasks) = {} /\ Live(stock) = {}
  BY DEF Init, Live, Absent
<1>2. request \in [Request -> Plans] /\ \A r \in Request : request[r] = Idle
  BY IdleIs DEF Init
<1>3. Typed
  <2>1. IsFiniteSet(Live(locations))
    BY <1>1, FS_EmptySet
  <2>2. ledger \in [Place -> Int] /\ raced \in BOOLEAN /\ doubled \subseteq WarehouseId
    <3>1. ledger = [p \in Place |-> 0] /\ raced = FALSE /\ doubled = {}
      BY DEF Init
    <3>2. 0 \in Int /\ FALSE \in BOOLEAN
      OBVIOUS
    <3> QED
      BY <3>1, <3>2
  <2>3. /\ warehouses \in [WarehouseId -> {Absent, Standing}]
        /\ zones \in [ZoneId -> {Absent} \cup ZoneRow]
        /\ locations \in [LocationId -> {Absent} \cup LocationRow]
        /\ tasks \in [TaskId -> {Absent} \cup TaskRow]
        /\ stock \in [StockId -> {Absent} \cup StockRow]
    BY DEF Init
  <2> QED
    BY <1>2, <2>1, <2>2, <2>3 DEF Typed
<1>4. Attached
  BY <1>1 DEF Attached, Init
<1>5. Inserting /\ FloorIsFree
  BY <1>2, IdleIs DEF Inserting, FloorIsFree
<1>6. \A p \in Place : Lying(stock, p) = {}
  BY <1>1 DEF Lying
<1>7. Single
  BY <1>6 DEF Single, AtMostOne
<1>8. \A p \in Place : Weight(stock, p) = ledger[p]
  BY <1>6, WeightOfNone DEF Init
<1>9. Balanced
  BY <1>2, <1>8, IdleReflects DEF Balanced
<1> QED
  BY <1>3, <1>4, <1>5, <1>7, <1>9 DEF WarehouseInv

\* A plan answers for its entries as long as its rows and places are as they
\* were, or are gone.
LEMMA ReflectsStays ==
  ASSUME NEW plan, NEW table, NEW after, NEW places, NEW later, Reflects(plan, table, places),
         \A s \in DOMAIN plan.writes, p \in DOMAIN plan.entries :
           s \in Live(after) /\ p \in later =>
             \/ s \in DOMAIN plan.new
             \/ /\ s \in Live(table) /\ p \in places
                /\ PlaceOf(table[s]) = p => after[s] = table[s]
  PROVE  Reflects(plan, after, later)
<1>1. PICK of \in [DOMAIN plan.entries -> Rows(plan)] :
        /\ \A p, q \in DOMAIN plan.entries : of[p] = of[q] => p = q
        /\ \A s \in Rows(plan) : \E p \in DOMAIN plan.entries : of[p] = s
        /\ \A p \in DOMAIN plan.entries : Answers(plan, of[p], p, table, places)
  BY DEF Reflects
<1>2. ASSUME NEW p \in DOMAIN plan.entries PROVE Answers(plan, of[p], p, after, later)
  <2>1. Answers(plan, of[p], p, table, places) /\ of[p] \in Rows(plan)
    BY <1>1
  <2>2. CASE of[p] \in DOMAIN plan.new
    BY <2>1, <2>2 DEF Answers
  <2>3. CASE of[p] \notin DOMAIN plan.new /\ of[p] \in DOMAIN plan.writes
    <3>1. SUFFICES ASSUME of[p] \in Live(after), p \in later
                   PROVE  /\ PlaceOf(after[of[p]]) = p
                          /\ plan.writes[of[p]] = after[of[p]].quantity + plan.entries[p]
      BY <2>3 DEF Answers
    <3>2. /\ of[p] \in Live(table) /\ p \in places
          /\ PlaceOf(table[of[p]]) = p => after[of[p]] = table[of[p]]
      BY <2>3, <3>1
    <3>3. /\ PlaceOf(table[of[p]]) = p
          /\ plan.writes[of[p]] = table[of[p]].quantity + plan.entries[p]
      BY <2>1, <2>3, <3>2 DEF Answers
    <3> QED
      BY <3>2, <3>3
  <2> QED
    BY <2>1, <2>2, <2>3 DEF Rows
<1> QED
  BY <1>1, <1>2 DEF Reflects

\* A step that leaves stock and requests alone, and makes no place appear that a
\* request knows, keeps what is said of them.
LEMMA StockStays ==
  ASSUME WarehouseInv, UNCHANGED <<stock, ledger, request, raced, doubled>>,
         \A r \in Request : \A p \in DOMAIN request[r].entries : p \in Present' => p \in Present
  PROVE  Inserting' /\ FloorIsFree' /\ Single' /\ Balanced'
<1>1. Inserting' /\ FloorIsFree' /\ Single'
  BY DEF WarehouseInv, Inserting, FloorIsFree, Single
<1>2. ASSUME ~raced, NEW r \in Request PROVE Reflects(request[r], stock, Present')
  <2>1. Reflects(request[r], stock, Present)
    BY <1>2 DEF WarehouseInv, Balanced
  <2>2. PICK plan \in Plans : plan = request[r]
    BY DEF WarehouseInv, Typed
  <2>3. \A p \in DOMAIN plan.entries : p \in Present' => p \in Present
    BY <2>2
  <2>4. PICK old, new : old = Present /\ new = Present'
    OBVIOUS
  <2>5. Reflects(plan, stock, new)
    BY <2>1, <2>2, <2>3, <2>4, ReflectsStays
  <2> QED
    BY <2>2, <2>4, <2>5
<1>3. Balanced'
  BY <1>2 DEF WarehouseInv, Balanced
<1> QED
  BY <1>1, <1>3

\* An open request knows the places of its entries.
LEMMA EntriesAreKnown ==
  ASSUME Typed, NEW r \in Request, NEW p \in DOMAIN request[r].entries
  PROVE  p \in KnownPlaces /\ r \in Open /\ p \in Place
<1>1. request[r] # Idle
  BY IdleIs
<1>2. r \in Open
  BY <1>1 DEF Open
<1>3. request[r] \in Plans
  BY DEF Typed
<1> QED
  BY <1>2, <1>3, PlanParts DEF KnownPlaces

LEMMA CreateWarehouseKeeps ==
  ASSUME WarehouseInv, NEW w \in WarehouseId, CreateWarehouse(w)
  PROVE  WarehouseInv'
<1>1. warehouses \in [WarehouseId -> {Absent} \cup {Standing}] /\ Typed /\ Attached
  BY DEF WarehouseInv, Typed
<1>2. /\ warehouses' \in [WarehouseId -> {Absent} \cup {Standing}]
      /\ Live(warehouses') = Live(warehouses) \cup {w}
  <2>1. /\ warehouses' \in [WarehouseId -> {Absent} \cup {Standing}]
        /\ warehouses'[w] \in {Standing}
        /\ \A v \in WarehouseId : v # w => warehouses'[v] = warehouses[v]
    BY <1>1 DEF CreateWarehouse
  <2> QED
    BY <1>1, <2>1 DEF Live, Standing
<1>3. UNCHANGED <<zones, locations, tasks, stock, ledger, request, raced, doubled>>
  BY DEF CreateWarehouse
<1>4. Typed'
  BY <1>1, <1>2, <1>3 DEF Typed
<1>5. Present \subseteq Present'
  BY <1>2, <1>3 DEF Present
<1>6. Attached'
  BY <1>1, <1>2, <1>3, <1>5 DEF Attached
<1>7. \A r \in Request : \A p \in DOMAIN request[r].entries : p \in Present' => p \in Present
  <2> SUFFICES ASSUME NEW r \in Request, NEW p \in DOMAIN request[r].entries, p \in Present'
               PROVE  p \in Present
    OBVIOUS
  <2>1. p[1] # w
    BY <1>1, EntriesAreKnown DEF CreateWarehouse
  <2> QED
    BY <1>2, <1>3, <2>1 DEF Present
<1>8. Inserting' /\ FloorIsFree' /\ Single' /\ Balanced'
  BY <1>3, <1>7, StockStays
<1> QED
  BY <1>4, <1>6, <1>8 DEF WarehouseInv

LEMMA CreateZoneKeeps ==
  ASSUME WarehouseInv, NEW z \in ZoneId, NEW w \in WarehouseId, CreateZone(z, w)
  PROVE  WarehouseInv'
<1>1. zones \in [ZoneId -> {Absent} \cup ZoneRow] /\ Typed /\ Attached
  BY DEF WarehouseInv, Typed
<1>2. /\ zones' \in [ZoneId -> {Absent} \cup ZoneRow]
      /\ Live(zones') = Live(zones) \cup {z}
      /\ zones'[z].parent = w
      /\ \A y \in Live(zones) : y # z => zones'[y] = zones[y]
  <2>1. PICK row \in ZoneRow : row = Child(w) /\ row.parent = w
    <3>1. Child(w) \in ZoneRow /\ Child(w).parent = w
      BY DEF ZoneRow, Child
    <3> QED
      BY <3>1
  <2>2. zones' = [zones EXCEPT ![z] = row]
    BY <2>1 DEF CreateZone
  <2>3. /\ zones' \in [ZoneId -> {Absent} \cup ZoneRow]
        /\ zones'[z] = row
        /\ \A y \in ZoneId : y # z => zones'[y] = zones[y]
    BY <1>1, <2>2
  <2>4. Live(zones') = Live(zones) \cup {z} /\ Live(zones) \subseteq ZoneId
    BY <1>1, <2>3, RowAdded, LiveRows, RowsAreLive
  <2> QED
    BY <2>1, <2>3, <2>4
<1>3. /\ UNCHANGED <<warehouses, locations, tasks, stock, ledger, request, raced, doubled>>
      /\ w \in Live(warehouses)
  BY DEF CreateZone
<1>4. Typed'
  BY <1>1, <1>2, <1>3 DEF Typed
<1>5. Present' = Present
  BY <1>3 DEF Present
<1>6. Attached'
  BY <1>1, <1>2, <1>3, <1>5 DEF Attached
<1>7. Inserting' /\ FloorIsFree' /\ Single' /\ Balanced'
  BY <1>3, <1>5, StockStays
<1> QED
  BY <1>4, <1>6, <1>7 DEF WarehouseInv

LEMMA CreateLocationKeeps ==
  ASSUME WarehouseInv, NEW l \in LocationId, NEW z \in ZoneId, CreateLocation(l, z)
  PROVE  WarehouseInv'
<1>1. locations \in [LocationId -> {Absent} \cup LocationRow] /\ Typed /\ Attached
  BY DEF WarehouseInv, Typed
<1>2. /\ locations' \in [LocationId -> {Absent} \cup LocationRow]
      /\ Live(locations') = Live(locations) \cup {l}
      /\ locations'[l].parent = z
      /\ \A k \in Live(locations) : k # l => locations'[k] = locations[k]
  <2>1. PICK row \in LocationRow : row = Child(z) /\ row.parent = z
    <3>1. Child(z) \in LocationRow /\ Child(z).parent = z
      BY DEF LocationRow, Child
    <3> QED
      BY <3>1
  <2>2. locations' = [locations EXCEPT ![l] = row]
    BY <2>1 DEF CreateLocation
  <2>3. /\ locations' \in [LocationId -> {Absent} \cup LocationRow]
        /\ locations'[l] = row
        /\ \A k \in LocationId : k # l => locations'[k] = locations[k]
    BY <1>1, <2>2
  <2>4. Live(locations') = Live(locations) \cup {l} /\ Live(locations) \subseteq LocationId
    BY <1>1, <2>3, RowAdded, LiveRows, RowsAreLive
  <2> QED
    BY <2>1, <2>3, <2>4
<1>3. /\ UNCHANGED <<warehouses, zones, tasks, stock, ledger, request, raced, doubled>>
      /\ z \in Live(zones)
  BY DEF CreateLocation
<1>4. Typed'
  <2>1. IsFiniteSet(Live(locations'))
    BY <1>1, <1>2, FS_AddElement DEF Typed
  <2> QED
    BY <1>1, <1>2, <1>3, <2>1 DEF Typed
<1>5. Present \subseteq Present'
  BY <1>2, <1>3 DEF Present
<1>6. Attached'
  BY <1>1, <1>2, <1>3, <1>5 DEF Attached
<1>7. \A r \in Request : \A p \in DOMAIN request[r].entries : p \in Present' => p \in Present
  <2> SUFFICES ASSUME NEW r \in Request, NEW p \in DOMAIN request[r].entries, p \in Present'
               PROVE  p \in Present
    OBVIOUS
  <2>1. p[2] # l
    BY <1>1, EntriesAreKnown DEF CreateLocation
  <2> QED
    BY <1>2, <1>3, <2>1 DEF Present
<1>8. Inserting' /\ FloorIsFree' /\ Single' /\ Balanced'
  BY <1>3, <1>7, StockStays
<1> QED
  BY <1>4, <1>6, <1>8 DEF WarehouseInv

LEMMA TaskStepKeeps ==
  ASSUME WarehouseInv, TaskStep
  PROVE  WarehouseInv'
<1>1. tasks \in [TaskId -> {Absent} \cup TaskRow] /\ Typed /\ Attached
  BY DEF WarehouseInv, Typed
<1>2. UNCHANGED <<warehouses, zones, locations, stock, ledger, request, raced, doubled>>
  BY DEF TaskStep, CreateTask, SetTaskStatus
<1>3. /\ tasks' \in [TaskId -> {Absent} \cup TaskRow]
      /\ \A t \in Live(tasks') : tasks'[t].warehouse \in Live(warehouses)
  <2>1. PICK t \in TaskId, row \in TaskRow :
          tasks' = [tasks EXCEPT ![t] = row] /\ row.warehouse \in Live(warehouses)
    <3>1. PICK t \in TaskId : \/ \E w \in WarehouseId : CreateTask(t, w)
                              \/ \E status \in TaskStatus : SetTaskStatus(t, status)
      BY DEF TaskStep
    <3>2. CASE \E w \in WarehouseId : CreateTask(t, w)
      <4>1. PICK w \in WarehouseId : CreateTask(t, w)
        BY <3>2
      <4> DEFINE row == [state |-> "live", warehouse |-> w, status |-> "open"]
      <4>2. row \in TaskRow /\ row.warehouse \in Live(warehouses)
        BY <4>1 DEF CreateTask, TaskRow, TaskStatus
      <4>3. tasks' = [tasks EXCEPT ![t] = row]
        BY <4>1 DEF CreateTask
      <4> QED
        BY <4>2, <4>3
    <3>3. CASE \E status \in TaskStatus : SetTaskStatus(t, status)
      <4>1. PICK status \in TaskStatus : SetTaskStatus(t, status)
        BY <3>3
      <4>2. PICK old \in TaskRow : old = tasks[t] /\ old.warehouse \in Live(warehouses)
        BY <1>1, <4>1, LiveRows, RowsAreLive DEF SetTaskStatus, Attached
      <4>3. [old EXCEPT !.status = status] \in TaskRow
        BY DEF TaskRow
      <4>4. tasks' = [tasks EXCEPT ![t] = [old EXCEPT !.status = status]]
        BY <4>1, <4>2 DEF SetTaskStatus
      <4>5. [old EXCEPT !.status = status].warehouse = old.warehouse
        BY DEF TaskRow
      <4> QED
        BY <4>2, <4>3, <4>4, <4>5
    <3> QED
      BY <3>1, <3>2, <3>3
  <2>2. /\ tasks' \in [TaskId -> {Absent} \cup TaskRow]
        /\ tasks'[t] = row
        /\ \A u \in TaskId : u # t => tasks'[u] = tasks[u]
    BY <1>1, <2>1
  <2>3. Live(tasks') = Live(tasks) \cup {t} /\ Live(tasks) \subseteq TaskId
    BY <1>1, <2>2, RowAdded, LiveRows, RowsAreLive
  <2> QED
    BY <1>1, <2>1, <2>2, <2>3 DEF Attached
<1>4. Typed'
  BY <1>1, <1>2, <1>3 DEF Typed
<1>5. Present' = Present
  BY <1>2 DEF Present
<1>6. Attached'
  BY <1>1, <1>2, <1>3, <1>5 DEF Attached
<1>7. Inserting' /\ FloorIsFree' /\ Single' /\ Balanced'
  BY <1>2, <1>5, StockStays
<1> QED
  BY <1>4, <1>6, <1>7 DEF WarehouseInv

-----------------------------------------------------------------------------
(* Tearing down.                                                            *)

\* What a deletion takes away: warehouses, zones and locations, with what is
\* within them.
Removes(ws, zs, ls) ==
  /\ ws \subseteq Live(warehouses) /\ ls \subseteq Live(locations)
  /\ \A z \in Live(zones) : zones[z].parent \in ws => z \in zs
  /\ \A l \in Live(locations) : locations[l].parent \in zs => l \in ls
  /\ ~Locked(ws, ls)
  /\ warehouses' = Without(warehouses, ws)
  /\ zones' = Without(zones, zs)
  /\ locations' = Without(locations, ls)
  /\ tasks' = Without(tasks, {t \in Live(tasks) : tasks[t].warehouse \in ws})
  /\ Cleared(ws, ls)
  /\ UNCHANGED <<request, raced>>

LEMMA ClearRemoves ==
  ASSUME Typed, Attached, Clear
  PROVE  \E ws, zs, ls : Removes(ws, zs, ls)
<1>1. /\ warehouses \in [WarehouseId -> {Absent, Standing}]
      /\ zones \in [ZoneId -> {Absent} \cup ZoneRow]
      /\ tasks \in [TaskId -> {Absent} \cup TaskRow]
  BY DEF Typed
<1>2. Without(warehouses, {}) = warehouses /\ Without(zones, {}) = zones /\ Without(tasks, {}) = tasks
  BY <1>1, NoneGone
<1>3. {t \in Live(tasks) : tasks[t].warehouse \in {}} = {}
  OBVIOUS
<1>4. CASE \E w \in WarehouseId : DeleteWarehouse(w)
  <2>1. PICK w \in WarehouseId : DeleteWarehouse(w)
    BY <1>4
  <2> DEFINE zs == Within(zones, {w})
             ls == Within(locations, zs)
  <2>2. {t \in Live(tasks) : tasks[t].warehouse \in {w}} = {t \in Live(tasks) : tasks[t].warehouse = w}
    OBVIOUS
  <2>3. Removes({w}, zs, ls)
    BY <2>1, <2>2 DEF DeleteWarehouse, Removes, Within
  <2> QED
    BY <2>3
<1>5. CASE \E z \in ZoneId : DeleteZone(z)
  <2>1. PICK z \in ZoneId : DeleteZone(z)
    BY <1>5
  <2> DEFINE ls == Within(locations, {z})
  <2>2. Removes({}, {z}, ls)
    BY <1>2, <1>3, <2>1 DEF DeleteZone, Removes, Within
  <2> QED
    BY <2>2
<1>6. CASE \E l \in LocationId : DeleteLocation(l)
  <2>1. PICK l \in LocationId : DeleteLocation(l)
    BY <1>6
  <2>2. Removes({}, {}, {l})
    BY <1>2, <1>3, <2>1 DEF DeleteLocation, Removes
  <2> QED
    BY <2>2
<1> QED
  BY <1>4, <1>5, <1>6 DEF Clear

\* The stock of ws is gone, that of ls is on the floor.
LEMMA ClearedRows ==
  ASSUME stock \in StockTables, NEW ws, NEW ls, Cleared(ws, ls)
  PROVE  /\ stock' \in StockTables
         /\ Live(stock') = {s \in Live(stock) : stock[s].warehouse \notin ws}
         /\ \A s \in StockId : stock[s] = Absent => stock'[s] = Absent
         /\ \A s \in Live(stock') :
              /\ stock'[s].warehouse = stock[s].warehouse
              /\ stock'[s].quantity = stock[s].quantity
              /\ stock'[s].location = IF stock[s].location \in ls THEN Floor ELSE stock[s].location
              /\ stock[s].location \notin ls => stock'[s] = stock[s]
<1>1. \A s \in StockId : stock'[s] = IF s \notin Live(stock) THEN stock[s]
                                     ELSE IF stock[s].warehouse \in ws THEN Absent
                                     ELSE OnTheFloor(s, ls)
  BY DEF Cleared
<1>2. ASSUME NEW s \in Live(stock)
      PROVE  /\ OnTheFloor(s, ls) \in StockRow
             /\ OnTheFloor(s, ls).warehouse = stock[s].warehouse
             /\ OnTheFloor(s, ls).quantity = stock[s].quantity
             /\ OnTheFloor(s, ls).location = IF stock[s].location \in ls THEN Floor ELSE stock[s].location
             /\ stock[s].location \notin ls => OnTheFloor(s, ls) = stock[s]
  <2>1. PICK row \in StockRow : row = stock[s]
    BY StockRows
  <2>2. /\ [row EXCEPT !.location = Floor] \in StockRow
        /\ [row EXCEPT !.location = Floor].warehouse = row.warehouse
        /\ [row EXCEPT !.location = Floor].quantity = row.quantity
        /\ [row EXCEPT !.location = Floor].location = Floor
    BY DEF StockRow
  <2>3. OnTheFloor(s, ls) = IF row.location \in ls THEN [row EXCEPT !.location = Floor] ELSE row
    BY <2>1 DEF OnTheFloor
  <2> QED
    BY <2>1, <2>2, <2>3
<1>3. \A s \in StockId : stock'[s] \in {Absent} \cup StockRow
  <2> SUFFICES ASSUME NEW s \in StockId PROVE stock'[s] \in {Absent} \cup StockRow
    OBVIOUS
  <2>1. CASE s \in Live(stock)
    BY <1>1, <1>2, <2>1
  <2>2. CASE s \notin Live(stock)
    BY <1>1, <2>2, StockRows
  <2> QED
    BY <2>1, <2>2
<1>4. stock' \in StockTables
  BY <1>3 DEF Cleared, StockTables
<1>5. Live(stock) \subseteq StockId /\ \A s \in StockId : stock[s] = Absent => s \notin Live(stock)
  BY StockRows
<1>6. \A s \in StockId : s \in Live(stock') <=> s \in Live(stock) /\ stock[s].warehouse \notin ws
  <2> SUFFICES ASSUME NEW s \in StockId
               PROVE  s \in Live(stock') <=> s \in Live(stock) /\ stock[s].warehouse \notin ws
    OBVIOUS
  <2>1. s \in Live(stock') <=> stock'[s] # Absent
    BY <1>4, StockRows
  <2>2. CASE s \in Live(stock) /\ stock[s].warehouse \notin ws
    <3>1. stock'[s] \in StockRow
      BY <1>1, <1>2, <2>2
    <3> QED
      BY <1>4, <2>2, <3>1, StockRows
  <2>3. CASE s \notin Live(stock)
    BY <1>1, <2>1, <2>3, StockRows
  <2>4. CASE s \in Live(stock) /\ stock[s].warehouse \in ws
    BY <1>1, <2>1, <2>4
  <2> QED
    BY <2>2, <2>3, <2>4
<1>7. Live(stock') \subseteq StockId
  BY <1>4, StockRows
<1>8. Live(stock') = {s \in Live(stock) : stock[s].warehouse \notin ws}
  BY <1>5, <1>6, <1>7
<1>9. \A s \in Live(stock') : s \in Live(stock) /\ stock'[s] = OnTheFloor(s, ls)
  BY <1>1, <1>5, <1>8
<1> QED
  BY <1>1, <1>2, <1>4, <1>5, <1>8, <1>9

\* Who lies where, after a deletion.
LEMMA ClearedPlaces ==
  ASSUME stock \in StockTables, NEW ws, NEW ls, Cleared(ws, ls), NEW p \in Place
  PROVE  /\ p[1] \in ws \/ (p[2] \in ls /\ p[2] # Floor) => Lying(stock', p) = {}
         /\ p[1] \notin ws /\ p[2] \notin ls /\ p[2] # Floor => Lying(stock', p) = Lying(stock, p)
         /\ p[1] \notin ws /\ p[2] = Floor =>
              Lying(stock', p) = {s \in Live(stock) : /\ stock[s].warehouse = p[1]
                                                      /\ stock[s].location \in ls \cup {Floor}}
<1>1. /\ Live(stock') = {s \in Live(stock) : stock[s].warehouse \notin ws}
      /\ \A s \in Live(stock') :
           /\ stock'[s].warehouse = stock[s].warehouse
           /\ stock'[s].location = IF stock[s].location \in ls THEN Floor ELSE stock[s].location
  BY ClearedRows
<1>2. PICK w, l : p = <<w, l>>
  BY DEF Place
<1>3. \A s : PlaceOf(stock'[s]) = p <=> stock'[s].warehouse = w /\ stock'[s].location = l
  BY <1>2 DEF PlaceOf
<1>4. \A s : PlaceOf(stock[s]) = p <=> stock[s].warehouse = w /\ stock[s].location = l
  BY <1>2 DEF PlaceOf
<1> QED
  BY <1>1, <1>2, <1>3, <1>4 DEF Lying

\* What is left of the tables.
LEMMA RemovedRows ==
  ASSUME Typed, NEW ws, NEW zs, NEW ls, Removes(ws, zs, ls)
  PROVE  /\ warehouses' \in [WarehouseId -> {Absent, Standing}]
         /\ Live(warehouses') = Live(warehouses) \ ws
         /\ zones' \in [ZoneId -> {Absent} \cup ZoneRow]
         /\ Live(zones') = Live(zones) \ zs
         /\ \A z \in Live(zones) \ zs : zones'[z] = zones[z]
         /\ locations' \in [LocationId -> {Absent} \cup LocationRow]
         /\ Live(locations') = Live(locations) \ ls
         /\ \A l \in Live(locations) \ ls : locations'[l] = locations[l]
         /\ tasks' \in [TaskId -> {Absent} \cup TaskRow]
         /\ \A t \in Live(tasks') : /\ t \in Live(tasks) /\ tasks'[t] = tasks[t]
                                    /\ tasks[t].warehouse \notin ws
<1>1. /\ warehouses' \in [WarehouseId -> {Absent} \cup {Standing}]
      /\ Live(warehouses') = Live(warehouses) \ ws
      /\ \A id \in Live(warehouses) \ ws : warehouses'[id] = warehouses[id]
  <2>1. warehouses \in [WarehouseId -> {Absent} \cup {Standing}] /\ warehouses' = Without(warehouses, ws)
    BY DEF Typed, Removes
  <2>2. /\ warehouses' \in [WarehouseId -> {Absent} \cup {Standing}]
        /\ \A id \in WarehouseId : warehouses'[id] = IF id \in ws THEN Absent ELSE warehouses[id]
    BY <2>1 DEF Without
  <2> QED
    BY <2>1, <2>2 DEF Live, Absent
<1>2. /\ zones' \in [ZoneId -> {Absent} \cup ZoneRow]
      /\ Live(zones') = Live(zones) \ zs
      /\ \A id \in Live(zones) \ zs : zones'[id] = zones[id]
  <2>1. zones \in [ZoneId -> {Absent} \cup ZoneRow] /\ zones' = Without(zones, zs)
    BY DEF Typed, Removes
  <2>2. /\ zones' \in [ZoneId -> {Absent} \cup ZoneRow]
        /\ \A id \in ZoneId : zones'[id] = IF id \in zs THEN Absent ELSE zones[id]
    BY <2>1 DEF Without
  <2> QED
    BY <2>1, <2>2 DEF Live, Absent
<1>3. /\ locations' \in [LocationId -> {Absent} \cup LocationRow]
      /\ Live(locations') = Live(locations) \ ls
      /\ \A id \in Live(locations) \ ls : locations'[id] = locations[id]
  <2>1. locations \in [LocationId -> {Absent} \cup LocationRow] /\ locations' = Without(locations, ls)
    BY DEF Typed, Removes
  <2>2. /\ locations' \in [LocationId -> {Absent} \cup LocationRow]
        /\ \A id \in LocationId : locations'[id] = IF id \in ls THEN Absent ELSE locations[id]
    BY <2>1 DEF Without
  <2> QED
    BY <2>1, <2>2 DEF Live, Absent
<1> DEFINE ts == {t \in Live(tasks) : tasks[t].warehouse \in ws}
<1>4. ts = {t \in Live(tasks) : tasks[t].warehouse \in ws}
  OBVIOUS
<1> HIDE DEF ts
<1>5. /\ tasks' \in [TaskId -> {Absent} \cup TaskRow]
      /\ Live(tasks') = Live(tasks) \ ts
      /\ \A id \in Live(tasks) \ ts : tasks'[id] = tasks[id]
  <2>1. tasks \in [TaskId -> {Absent} \cup TaskRow] /\ tasks' = Without(tasks, ts)
    BY DEF Typed, Removes, ts
  <2>2. /\ tasks' \in [TaskId -> {Absent} \cup TaskRow]
        /\ \A id \in TaskId : tasks'[id] = IF id \in ts THEN Absent ELSE tasks[id]
    BY <2>1 DEF Without
  <2> QED
    BY <2>1, <2>2 DEF Live, Absent
<1>6. \A t \in Live(tasks') : /\ t \in Live(tasks) /\ tasks'[t] = tasks[t]
                             /\ tasks[t].warehouse \notin ws
  BY <1>4, <1>5
<1> QED
  BY <1>1, <1>2, <1>3, <1>5, <1>6

LEMMA RemovalKeepsTyped ==
  ASSUME Typed, Attached, NEW ws, NEW zs, NEW ls, Removes(ws, zs, ls)
  PROVE  /\ Typed'
         /\ Live(warehouses') = Live(warehouses) \ ws
         /\ Live(locations') = Live(locations) \ ls
         /\ stock \in StockTables
         /\ ls \in SUBSET LocationId /\ IsFiniteSet(ls)
<1>1. stock \in StockTables
  BY DEF Typed, StockTables
<1>2. stock' \in [StockId -> {Absent} \cup StockRow]
  BY <1>1, ClearedRows DEF Removes, StockTables
<1>3. /\ warehouses' \in [WarehouseId -> {Absent, Standing}]
      /\ Live(warehouses') = Live(warehouses) \ ws
      /\ zones' \in [ZoneId -> {Absent} \cup ZoneRow]
      /\ locations' \in [LocationId -> {Absent} \cup LocationRow]
      /\ Live(locations') = Live(locations) \ ls
      /\ tasks' \in [TaskId -> {Absent} \cup TaskRow]
  BY RemovedRows
<1>7. Live(locations) \subseteq LocationId /\ Live(warehouses) \subseteq WarehouseId
  BY DEF Typed, Live
<1>8. IsFiniteSet(Live(locations')) /\ IsFiniteSet(ls) /\ ls \in SUBSET LocationId
  <2>1. IsFiniteSet(Live(locations)) /\ ls \in SUBSET Live(locations)
    BY DEF Typed, Removes
  <2>2. Live(locations') \in SUBSET Live(locations)
    BY <1>3
  <2> QED
    BY <1>7, <2>1, <2>2, FS_Subset
<1>9. ledger' \in [Place -> Int]
  <2>1. ASSUME NEW p \in Place, p[2] = Floor
        PROVE  SumFunction([l \in ls |-> ledger[<<p[1], l>>]]) \in Int
    <3> DEFINE b == [l \in ls |-> ledger[<<p[1], l>>]]
    <3>1. \A l \in ls : b[l] \in Int
      BY <1>8 DEF Typed, Place
    <3>2. SumFunction(b) = SumFunctionOnSet(b, ls)
      BY DEF SumFunction
    <3> HIDE DEF b
    <3>3. SumFunction(b) \in Int
      BY <1>8, <3>1, <3>2, SumType
    <3> QED
      BY <3>3 DEF b
  <2>2. ledger' = [p \in Place |->
                     IF p[1] \in ws \/ p[2] \in ls THEN 0
                     ELSE IF p[2] = Floor THEN ledger[p] + SumFunction([l \in ls |-> ledger[<<p[1], l>>]])
                     ELSE ledger[p]]
    BY DEF Removes, Cleared
  <2>3. \A p \in Place : ledger[p] \in Int
    BY DEF Typed
  <2>4. \A p \in Place : ledger'[p] \in Int
    <3> SUFFICES ASSUME NEW p \in Place PROVE ledger'[p] \in Int
      OBVIOUS
    <3>1. CASE p[1] \in ws \/ p[2] \in ls
      BY <2>2, <3>1
    <3>2. CASE ~(p[1] \in ws \/ p[2] \in ls) /\ p[2] = Floor
      <4>1. ledger'[p] = ledger[p] + SumFunction([l \in ls |-> ledger[<<p[1], l>>]])
        BY <2>2, <3>2
      <4>2. SumFunction([l \in ls |-> ledger[<<p[1], l>>]]) \in Int /\ ledger[p] \in Int
        BY <2>1, <2>3, <3>2
      <4> QED
        BY <4>1, <4>2
    <3>3. CASE ~(p[1] \in ws \/ p[2] \in ls) /\ p[2] # Floor
      BY <2>2, <2>3, <3>3
    <3> QED
      BY <3>1, <3>2, <3>3
  <2> QED
    BY <2>2, <2>4
<1>10. doubled' \subseteq WarehouseId
  <2>1. \A s \in Live(stock) : stock[s].warehouse \in WarehouseId
    BY <1>1, StockRows DEF StockRow
  <2> QED
    BY <2>1 DEF Typed, Removes, Cleared
<1>11. Typed'
  BY <1>2, <1>3, <1>8, <1>9, <1>10 DEF Typed, Removes
<1> QED
  BY <1>1, <1>3, <1>8, <1>11

LEMMA RemovalKeepsAttached ==
  ASSUME Typed, Attached, NEW ws, NEW zs, NEW ls, Removes(ws, zs, ls)
  PROVE  Attached'
<1>1. /\ Live(warehouses') = Live(warehouses) \ ws
      /\ Live(locations') = Live(locations) \ ls
      /\ stock \in StockTables
      /\ ls \in SUBSET LocationId /\ IsFiniteSet(ls)
  BY RemovalKeepsTyped
<1>2. \A w, l : <<w, l>> \in Present' <=>
        <<w, l>> \in Present /\ w \notin ws /\ (l \notin ls \/ l = Floor)
  <2>1. Floor \notin Live(locations)
    BY WarehouseAssumption DEF Typed, Live
  <2> QED
    BY <1>1, <2>1 DEF Present
<1>3. /\ Live(zones') = Live(zones) \ zs
      /\ \A z \in Live(zones) \ zs : zones'[z] = zones[z]
      /\ \A l \in Live(locations) \ ls : locations'[l] = locations[l]
      /\ \A t \in Live(tasks') : /\ t \in Live(tasks) /\ tasks'[t] = tasks[t]
                                 /\ tasks[t].warehouse \notin ws
  BY RemovedRows
<1>4. \A z \in Live(zones') : zones'[z].parent \in Live(warehouses')
  BY <1>1, <1>3 DEF Attached, Removes
<1>5. /\ \A l \in Live(locations') : locations'[l].parent \in Live(zones')
      /\ \A t \in Live(tasks') : tasks'[t].warehouse \in Live(warehouses')
  BY <1>1, <1>3 DEF Attached, Removes
<1>6. \A s \in Live(stock') : PlaceOf(stock'[s]) \in Present'
  <2> SUFFICES ASSUME NEW s \in Live(stock') PROVE PlaceOf(stock'[s]) \in Present'
    OBVIOUS
  <2>1. /\ s \in Live(stock) /\ stock[s].warehouse \notin ws
        /\ stock'[s].warehouse = stock[s].warehouse
        /\ stock'[s].location = IF stock[s].location \in ls THEN Floor ELSE stock[s].location
    BY <1>1, ClearedRows DEF Removes
  <2>2. <<stock[s].warehouse, stock[s].location>> \in Present
    BY <2>1 DEF Attached, PlaceOf
  <2>3. <<stock[s].warehouse, Floor>> \in Present
    BY <2>2 DEF Present
  <2>4. <<stock'[s].warehouse, stock'[s].location>> \in Present'
    BY <1>2, <2>1, <2>2, <2>3
  <2> QED
    BY <2>4 DEF PlaceOf
<1>7. ASSUME NEW p \in Place, ledger'[p] # 0 PROVE p \in Present'
  <2>1. PICK w, l : p = <<w, l>>
    BY DEF Place
  <2>2. /\ w \notin ws /\ l \notin ls
        /\ l # Floor => ledger[p] # 0
        /\ l = Floor => ledger[p] # 0 \/ SumFunction([k \in ls |-> ledger[<<w, k>>]]) # 0
    <3>1. ledger'[p] = IF p[1] \in ws \/ p[2] \in ls THEN 0
                       ELSE IF p[2] = Floor THEN ledger[p] + SumFunction([k \in ls |-> ledger[<<p[1], k>>]])
                       ELSE ledger[p]
      BY DEF Removes, Cleared
    <3>2. p[1] = w /\ p[2] = l /\ 0 + 0 = 0
      BY <2>1
    <3> QED
      BY <1>7, <3>1, <3>2
  <2>3. CASE ledger[p] # 0
    BY <1>2, <2>1, <2>2, <2>3 DEF Attached
  <2>4. CASE ledger[p] = 0
    <3> DEFINE b == [k \in ls |-> ledger[<<w, k>>]]
    <3>1. SumFunctionOnSet(b, ls) # 0
      BY <2>2, <2>4 DEF SumFunction
    <3>2. \E k \in ls : b[k] # 0
      <4> HIDE DEF b
      <4> QED
        BY <1>1, <3>1, SumZero
    <3>3. PICK k \in ls : ledger[<<w, k>>] # 0
      BY <3>2
    <3>4. <<w, k>> \in Place /\ l = Floor
      BY <1>1, <2>1, <2>2, <2>4 DEF Place
    <3>5. <<w, k>> \in Present
      BY <3>3, <3>4 DEF Attached
    <3>6. <<w, Floor>> \in Present
      BY <3>5 DEF Present
    <3> QED
      BY <1>2, <2>1, <2>2, <3>4, <3>6
  <2> QED
    BY <2>3, <2>4
<1> QED
  BY <1>4, <1>5, <1>6, <1>7 DEF Attached

\* An open request's new row keeps its warehouse and its location from being
\* deleted.
LEMMA NewRowsLock ==
  ASSUME Typed, NEW ws, NEW ls, ~Locked(ws, ls),
         NEW r \in Request, NEW s \in DOMAIN request[r].new
  PROVE  request[r].new[s].warehouse \notin ws /\ request[r].new[s].location \notin ls
<1>1. r \in Open
  BY IdleIs DEF Open
<1> QED
  BY <1>1 DEF Locked

LEMMA RemovalKeepsSingle ==
  ASSUME Typed, Attached, Inserting, FloorIsFree, Single,
         NEW ws, NEW zs, NEW ls, Removes(ws, zs, ls)
  PROVE  Inserting' /\ FloorIsFree' /\ Single'
<1>1. /\ stock \in StockTables /\ Cleared(ws, ls) /\ ~Locked(ws, ls) /\ request' = request
      /\ ls \in SUBSET LocationId
  BY RemovalKeepsTyped DEF Removes
<1>2. Inserting'
  <2>1. \A r \in Request : \A s \in DOMAIN request[r].new : s \in StockId
    BY PlanParts DEF Typed
  <2>2. \A s \in StockId : stock[s] = Absent => stock'[s] = Absent
    BY <1>1, ClearedRows
  <2> QED
    BY <1>1, <2>1, <2>2 DEF Inserting
<1>3. ASSUME NEW w \in WarehouseId, w \notin ws, w \notin doubled'
      PROVE  w \notin doubled /\ Lying(stock', <<w, Floor>>) = Lying(stock, <<w, Floor>>)
  <2>1. /\ w \notin doubled
        /\ \A s \in Live(stock) : stock[s].location \in ls => stock[s].warehouse # w
    BY <1>1, <1>3 DEF Cleared
  <2>2. <<w, Floor>> \in Place
    BY DEF Place
  <2>3. Lying(stock', <<w, Floor>>) = {s \in Live(stock) : /\ stock[s].warehouse = w
                                                           /\ stock[s].location \in ls \cup {Floor}}
    BY <1>1, <1>3, <2>2, ClearedPlaces
  <2>4. Lying(stock, <<w, Floor>>) = {s \in Live(stock) : /\ stock[s].warehouse = w
                                                          /\ stock[s].location = Floor}
    BY DEF Lying, PlaceOf
  <2> QED
    BY <2>1, <2>3, <2>4
<1>4. FloorIsFree'
  <2> SUFFICES ASSUME NEW r \in Request, NEW s \in DOMAIN request[r].new,
                      request[r].new[s].location = Floor, request[r].new[s].warehouse \notin doubled'
               PROVE  Lying(stock', PlaceOf(request[r].new[s])) = {}
    BY <1>1 DEF FloorIsFree
  <2>1. PICK row \in StockRow : row = request[r].new[s]
    BY PlanParts DEF Typed
  <2>2. row.warehouse \in WarehouseId /\ PlaceOf(row) = <<row.warehouse, Floor>>
    BY <2>1 DEF StockRow, PlaceOf
  <2>3. row.warehouse \notin ws
    BY <1>1, <2>1, NewRowsLock
  <2>4. row.warehouse \notin doubled /\ Lying(stock', PlaceOf(row)) = Lying(stock, PlaceOf(row))
    BY <1>3, <2>1, <2>2, <2>3
  <2>5. Lying(stock, PlaceOf(row)) = {}
    BY <2>1, <2>4 DEF FloorIsFree
  <2> QED
    BY <2>1, <2>4, <2>5
<1>5. Single'
  <2> SUFFICES ASSUME NEW p \in Place, p[2] # Floor \/ p[1] \notin doubled'
               PROVE  AtMostOne(Lying(stock', p))
    BY DEF Single
  <2>1. PICK w \in WarehouseId, l \in LocationId \cup {Floor} : p = <<w, l>>
    BY DEF Place
  <2>2. CASE w \in ws \/ (l \in ls /\ l # Floor)
    <3>1. Lying(stock', p) = {}
      BY <1>1, <2>1, <2>2, ClearedPlaces
    <3> QED
      BY <3>1 DEF AtMostOne
  <2>3. CASE w \notin ws /\ l \notin ls /\ l # Floor
    <3>1. Lying(stock', p) = Lying(stock, p)
      BY <1>1, <2>1, <2>3, ClearedPlaces
    <3> QED
      BY <2>1, <2>3, <3>1 DEF Single
  <2>4. CASE w \notin ws /\ l = Floor
    BY <1>3, <2>1, <2>4 DEF Single
  <2> QED
    BY <2>2, <2>3, <2>4
<1> QED
  BY <1>2, <1>4, <1>5

LEMMA RemovalKeepsBalanced ==
  ASSUME Typed, Attached, Inserting, Balanced, NEW ws, NEW zs, NEW ls, Removes(ws, zs, ls)
  PROVE  Balanced'
<1> SUFFICES ASSUME ~raced
             PROVE  /\ \A p \in Place : Weight(stock', p) = ledger'[p]
                    /\ \A r \in Request : Reflects(request[r], stock', Present')
  BY DEF Balanced, Removes
<1>1. /\ stock \in StockTables /\ stock' \in StockTables /\ Cleared(ws, ls)
      /\ ls \in SUBSET LocationId /\ IsFiniteSet(ls)
      /\ Live(warehouses') = Live(warehouses) \ ws
      /\ Live(locations') = Live(locations) \ ls
      /\ ledger \in [Place -> Int]
  BY RemovalKeepsTyped, ClearedRows DEF Removes, Typed
<1>2. /\ \A s \in Live(stock') :
           /\ s \in Live(stock) /\ stock'[s].quantity = stock[s].quantity
           /\ stock[s].location \notin ls => stock'[s] = stock[s]
  BY <1>1, ClearedRows
<1>3. \A p \in Place : Weight(stock, p) = ledger[p]
  BY DEF Balanced
<1>4. ASSUME NEW p \in Place PROVE Weight(stock', p) = ledger'[p]
  <2>1. PICK w \in WarehouseId, l \in LocationId \cup {Floor} : p = <<w, l>>
    BY DEF Place
  <2>2. ledger'[p] = IF w \in ws \/ l \in ls THEN 0
                     ELSE IF l = Floor THEN ledger[p] + SumFunction([k \in ls |-> ledger[<<w, k>>]])
                     ELSE ledger[p]
    <3>1. ledger'[p] = IF p[1] \in ws \/ p[2] \in ls THEN 0
                       ELSE IF p[2] = Floor THEN ledger[p] + SumFunction([k \in ls |-> ledger[<<p[1], k>>]])
                       ELSE ledger[p]
      BY <1>1 DEF Cleared
    <3>2. p[1] = w /\ p[2] = l
      BY <2>1
    <3> QED
      BY <3>1, <3>2
  <2>3. Floor \notin ls
    BY <1>1, WarehouseAssumption
  <2>4. CASE w \in ws \/ l \in ls
    <3>1. Lying(stock', p) = {}
      BY <1>1, <2>1, <2>3, <2>4, ClearedPlaces
    <3> QED
      BY <2>2, <2>4, <3>1, WeightOfNone
  <2>5. CASE w \notin ws /\ l \notin ls /\ l # Floor
    <3>1. Lying(stock', p) = Lying(stock, p)
      BY <1>1, <2>1, <2>5, ClearedPlaces
    <3>2. \A s \in Lying(stock, p) : stock'[s].quantity = stock[s].quantity
      BY <1>2, <3>1 DEF Lying
    <3> QED
      BY <1>3, <2>2, <2>5, <3>1, <3>2, WeightStays
  <2>6. CASE w \notin ws /\ l = Floor
    <3>1. Lying(stock', <<w, Floor>>) = {s \in Live(stock) : /\ stock[s].warehouse = w
                                                             /\ stock[s].location \in ls \cup {Floor}}
      BY <1>1, <2>1, <2>6, ClearedPlaces
    <3>2. \A s \in Lying(stock', <<w, Floor>>) : stock'[s].quantity = stock[s].quantity
      BY <1>2 DEF Lying
    <3>3. PICK table \in StockTables, after \in StockTables, book \in [Place -> Int] :
            table = stock /\ after = stock' /\ book = ledger
      BY <1>1
    <3>4. Weight(after, <<w, Floor>>) = book[<<w, Floor>>] + SumFunction([k \in ls |-> book[<<w, k>>]])
      BY <1>1, <1>3, <3>1, <3>2, <3>3, WeightMoves
    <3> QED
      BY <2>1, <2>2, <2>3, <2>6, <3>3, <3>4
  <2> QED
    BY <2>4, <2>5, <2>6
<1>5. ASSUME NEW r \in Request PROVE Reflects(request[r], stock', Present')
  <2>1. PICK plan \in Plans : plan = request[r] /\ Reflects(plan, stock, Present)
    BY DEF Typed, Balanced
  <2>2. DOMAIN plan.entries \subseteq Place
    BY PlanParts
  <2>3. ASSUME NEW s \in DOMAIN plan.writes, NEW p \in DOMAIN plan.entries,
               s \in Live(stock'), p \in Present', PlaceOf(stock[s]) = p
        PROVE  stock'[s] = stock[s]
    <3>1. PICK w, l : p = <<w, l>> /\ l \notin ls
      <4>1. Floor \notin ls
        BY <1>1, WarehouseAssumption
      <4> QED
        BY <1>1, <2>3, <4>1 DEF Present
    <3>2. stock[s].location = l
      BY <2>3, <3>1 DEF PlaceOf
    <3> QED
      BY <1>2, <2>3, <3>1, <3>2
  <2>4. \A p \in Present' : p \in Present
    BY <1>1 DEF Present
  <2>5. PICK table, after, places, later :
          table = stock /\ after = stock' /\ places = Present /\ later = Present'
    OBVIOUS
  <2>6. \A s \in DOMAIN plan.writes, p \in DOMAIN plan.entries :
          s \in Live(after) /\ p \in later =>
            /\ s \in Live(table) /\ p \in places
            /\ PlaceOf(table[s]) = p => after[s] = table[s]
    BY <1>2, <2>3, <2>4, <2>5
  <2>7. Reflects(plan, after, later)
    BY <2>1, <2>5, <2>6, ReflectsStays
  <2> QED
    BY <2>1, <2>5, <2>7
<1> QED
  BY <1>4, <1>5

LEMMA ClearKeeps ==
  ASSUME WarehouseInv, Clear
  PROVE  WarehouseInv'
<1>1. Typed /\ Attached /\ Inserting /\ FloorIsFree /\ Single /\ Balanced
  BY DEF WarehouseInv
<1>2. PICK ws, zs, ls : Removes(ws, zs, ls)
  BY <1>1, ClearRemoves
<1>3. Typed' /\ Attached'
  BY <1>1, <1>2, RemovalKeepsTyped, RemovalKeepsAttached
<1>4. Inserting' /\ FloorIsFree' /\ Single'
  BY <1>1, <1>2, RemovalKeepsSingle
<1>5. Balanced'
  BY <1>1, <1>2, RemovalKeepsBalanced
<1> QED
  BY <1>3, <1>4, <1>5 DEF WarehouseInv

-----------------------------------------------------------------------------
(* Requests that read and plan, and requests that fail.                     *)

Begins(r, plan) ==
  /\ plan \in Plans
  /\ DOMAIN plan.writes \subseteq Live(stock)
  /\ DOMAIN plan.new \subseteq FreshKeys
  /\ \A s, t \in DOMAIN plan.new : s = t
  /\ \A s \in DOMAIN plan.new : /\ PlaceOf(plan.new[s]) \in DOMAIN plan.entries
                                /\ Lying(stock, PlaceOf(plan.new[s])) = {}
  /\ Reflects(plan, stock, Present)
  /\ Opens(r, plan)

LEMMA AtIs ==
  ASSUME stock \in StockTables
  PROVE  \A p : /\ At(p) = Lying(stock, p)
                /\ \A s \in At(p) : /\ s \in Live(stock) /\ s \in StockId
                                    /\ PlaceOf(stock[s]) = p
                                    /\ stock[s].quantity \in 0..MaxQuantity
<1>1. \A s \in Live(stock) : s \in StockId /\ stock[s].quantity \in 0..MaxQuantity
  BY StockRows DEF StockRow
<1> QED
  BY <1>1 DEF At, Lying

LEMMA NewRowIs ==
  ASSUME NEW p \in Place, NEW q \in 0..MaxQuantity
  PROVE  NewRow(p, q) \in StockRow /\ PlaceOf(NewRow(p, q)) = p /\ NewRow(p, q).quantity = q
<1>1. PICK w \in WarehouseId, l \in LocationId \cup {Floor} : p = <<w, l>>
  BY DEF Place
<1>2. NewRow(p, q) = [state |-> "live", warehouse |-> w, location |-> l, quantity |-> q]
  BY <1>1 DEF NewRow
<1> QED
  BY <1>1, <1>2 DEF StockRow, PlaceOf

LEMMA ChangeStockBegins ==
  ASSUME Typed, NEW r \in Request, NEW place \in Place, NEW delta \in Int,
         ChangeStock(r, place, delta)
  PROVE  \E plan : Begins(r, plan)
<1>0. stock \in StockTables
  BY DEF Typed, StockTables
<1> DEFINE entries == [p \in {place} |-> delta]
<1>1. entries \in [{place} -> Int] /\ {place} \in SUBSET Place /\ entries[place] = delta
  OBVIOUS
<1>2. Nothing \in [{} -> 0..MaxQuantity] /\ Nothing \in [{} -> StockRow] /\ DOMAIN Nothing = {}
  BY DEF Nothing
<1>3. CASE \E s \in At(place) :
             /\ stock[s].quantity + delta \in 0..MaxQuantity
             /\ Opens(r, Plan([t \in {s} |-> stock[s].quantity + delta], Nothing, entries))
  <2>1. PICK s \in At(place) :
          /\ stock[s].quantity + delta \in 0..MaxQuantity
          /\ Opens(r, Plan([t \in {s} |-> stock[s].quantity + delta], Nothing, entries))
    BY <1>3
  <2>2. s \in Live(stock) /\ s \in StockId /\ PlaceOf(stock[s]) = place
    BY <1>0, AtIs
  <2> DEFINE writes == [t \in {s} |-> stock[s].quantity + delta]
             plan == Plan(writes, Nothing, entries)
  <2>3. writes \in [{s} -> 0..MaxQuantity] /\ {s} \in SUBSET StockId /\ {} \in SUBSET StockId
    BY <2>1, <2>2
  <2>4. writes[s] = stock[s].quantity + entries[place]
    BY <1>1
  <2>5. DOMAIN writes = {s} /\ DOMAIN entries = {place}
    OBVIOUS
  <2> HIDE DEF writes, entries
  <2>6. plan \in Plans /\ plan.writes = writes /\ plan.new = Nothing /\ plan.entries = entries
    BY <1>1, <1>2, <2>3 DEF Plans, Plan
  <2> HIDE DEF plan
  <2>7. Reflects(plan, stock, Present)
    <3> DEFINE of == [p \in {place} |-> s]
    <3>1. Rows(plan) = {s}
      BY <1>2, <2>5, <2>6 DEF Rows
    <3>2. of \in [DOMAIN plan.entries -> Rows(plan)] /\ of[place] = s
      BY <2>5, <2>6, <3>1
    <3>3. Answers(plan, s, place, stock, Present)
      BY <1>2, <2>2, <2>4, <2>6 DEF Answers
    <3> HIDE DEF of
    <3>4. \A p \in DOMAIN plan.entries : p = place
      BY <2>5, <2>6
    <3> QED
      BY <2>5, <2>6, <3>1, <3>2, <3>3, <3>4 DEF Reflects
  <2>8. Begins(r, plan)
    BY <1>2, <2>1, <2>2, <2>5, <2>6, <2>7 DEF Begins, plan, writes, entries
  <2> QED
    BY <2>8
<1>4. CASE /\ At(place) = {}
           /\ delta \in 0..MaxQuantity
           /\ \E s \in FreshKeys : Opens(r, Plan(Nothing, [t \in {s} |-> NewRow(place, delta)], entries))
  <2>1. PICK s \in FreshKeys : Opens(r, Plan(Nothing, [t \in {s} |-> NewRow(place, delta)], entries))
    BY <1>4
  <2> DEFINE new == [t \in {s} |-> NewRow(place, delta)]
             plan == Plan(Nothing, new, entries)
  <2>2. /\ NewRow(place, delta) \in StockRow /\ PlaceOf(NewRow(place, delta)) = place
        /\ NewRow(place, delta).quantity = delta
    BY <1>4, NewRowIs
  <2>3. new \in [{s} -> StockRow] /\ {s} \in SUBSET StockId /\ {} \in SUBSET StockId
    BY <2>2 DEF FreshKeys
  <2>4. new[s] = NewRow(place, delta) /\ DOMAIN new = {s} /\ DOMAIN entries = {place}
    OBVIOUS
  <2> HIDE DEF new, entries
  <2>5. plan \in Plans /\ plan.writes = Nothing /\ plan.new = new /\ plan.entries = entries
    BY <1>1, <1>2, <2>3 DEF Plans, Plan
  <2> HIDE DEF plan
  <2>6. Reflects(plan, stock, Present)
    <3> DEFINE of == [p \in {place} |-> s]
    <3>1. Rows(plan) = {s}
      BY <1>2, <2>4, <2>5 DEF Rows
    <3>2. of \in [DOMAIN plan.entries -> Rows(plan)] /\ of[place] = s
      BY <2>4, <2>5, <3>1
    <3>3. Answers(plan, s, place, stock, Present)
      BY <1>1, <2>2, <2>4, <2>5 DEF Answers
    <3> HIDE DEF of
    <3>4. \A p \in DOMAIN plan.entries : p = place
      BY <2>4, <2>5
    <3> QED
      BY <2>4, <2>5, <3>1, <3>2, <3>3, <3>4 DEF Reflects
  <2>7. Lying(stock, place) = {}
    BY <1>0, <1>4, AtIs
  <2>8. Opens(r, plan)
    BY <2>1 DEF plan, new, entries
  <2>9. Begins(r, plan)
    BY <1>2, <2>2, <2>4, <2>5, <2>6, <2>7, <2>8 DEF Begins
  <2> QED
    BY <2>9
<1> QED
  BY <1>3, <1>4 DEF ChangeStock

LEMMA TransferStockBegins ==
  ASSUME Typed, NEW r \in Request, NEW from \in WarehouseId, NEW to \in WarehouseId, NEW q \in Amount,
         TransferStock(r, from, to, q)
  PROVE  \E plan : Begins(r, plan)
<1>0. stock \in StockTables /\ q \in Nat /\ MaxQuantity \in Nat
  BY WarehouseAssumption DEF Typed, StockTables
<1> DEFINE source == <<from, Floor>>
           target == <<to, Floor>>
           moved == [p \in {source, target} |-> IF p = source THEN -q ELSE q]
<1>1. /\ source \in Place /\ target \in Place /\ source # target
      /\ from # to
  BY DEF TransferStock, Place
<1>2. PICK s \in At(source) :
        /\ stock[s].quantity >= q
        /\ \/ \E t \in At(target) :
                /\ stock[t].quantity + q <= MaxQuantity
                /\ Opens(r, Plan([u \in {s, t} |-> stock[u].quantity + moved[PlaceOf(stock[u])]],
                                 Nothing, moved))
           \/ /\ At(target) = {}
              /\ \E t \in FreshKeys :
                   Opens(r, Plan([u \in {s} |-> stock[s].quantity - q],
                                 [u \in {t} |-> NewRow(target, q)], moved))
  BY DEF TransferStock
<1>3. /\ moved \in [{source, target} -> Int] /\ {source, target} \in SUBSET Place
      /\ moved[source] = -q /\ moved[target] = q /\ DOMAIN moved = {source, target}
  BY <1>0, <1>1
<1> HIDE DEF moved, source, target
<1>4. /\ s \in Live(stock) /\ s \in StockId /\ PlaceOf(stock[s]) = source
      /\ stock[s].quantity \in 0..MaxQuantity
      /\ Lying(stock, target) = At(target)
  BY <1>0, AtIs
<1>5. Nothing \in [{} -> 0..MaxQuantity] /\ Nothing \in [{} -> StockRow] /\ DOMAIN Nothing = {}
  BY DEF Nothing
<1>6. CASE \E t \in At(target) :
             /\ stock[t].quantity + q <= MaxQuantity
             /\ Opens(r, Plan([u \in {s, t} |-> stock[u].quantity + moved[PlaceOf(stock[u])]],
                              Nothing, moved))
  <2>1. PICK t \in At(target) :
          /\ stock[t].quantity + q <= MaxQuantity
          /\ Opens(r, Plan([u \in {s, t} |-> stock[u].quantity + moved[PlaceOf(stock[u])]],
                           Nothing, moved))
    BY <1>6
  <2>2. /\ t \in Live(stock) /\ t \in StockId /\ PlaceOf(stock[t]) = target
        /\ stock[t].quantity \in 0..MaxQuantity
    BY <1>0, AtIs
  <2>3. s # t
    BY <1>1, <1>4, <2>2
  <2> DEFINE writes == [u \in {s, t} |-> stock[u].quantity + moved[PlaceOf(stock[u])]]
             plan == Plan(writes, Nothing, moved)
  <2>4. /\ writes[s] = stock[s].quantity + moved[source]
        /\ writes[t] = stock[t].quantity + moved[target]
        /\ DOMAIN writes = {s, t}
    BY <1>4, <2>2
  <2>5. writes[s] \in 0..MaxQuantity /\ writes[t] \in 0..MaxQuantity
    BY <1>0, <1>2, <1>3, <1>4, <2>1, <2>2, <2>4
  <2>6. writes \in [{s, t} -> 0..MaxQuantity] /\ {s, t} \in SUBSET StockId /\ {} \in SUBSET StockId
    BY <1>4, <2>2, <2>5
  <2> HIDE DEF writes
  <2>7. plan \in Plans /\ plan.writes = writes /\ plan.new = Nothing /\ plan.entries = moved
    BY <1>3, <1>5, <2>6 DEF Plans, Plan
  <2>8. Opens(r, plan)
    BY <2>1 DEF writes
  <2> HIDE DEF plan
  <2>9. Reflects(plan, stock, Present)
    <3> DEFINE of == [p \in {source, target} |-> IF p = source THEN s ELSE t]
    <3>1. Rows(plan) = {s, t}
      BY <1>5, <2>4, <2>7 DEF Rows
    <3>2. of \in [DOMAIN plan.entries -> Rows(plan)] /\ of[source] = s /\ of[target] = t
      BY <1>1, <1>3, <2>7, <3>1
    <3>3. Answers(plan, s, source, stock, Present) /\ Answers(plan, t, target, stock, Present)
      BY <1>4, <1>5, <2>2, <2>4, <2>7 DEF Answers
    <3> HIDE DEF of
    <3>4. \A p \in DOMAIN plan.entries : p = source \/ p = target
      BY <1>3, <2>7
    <3>5. source \in DOMAIN plan.entries /\ target \in DOMAIN plan.entries
      BY <1>3, <2>7
    <3> QED
      BY <2>3, <3>1, <3>2, <3>3, <3>4, <3>5 DEF Reflects
  <2>10. Begins(r, plan)
    BY <1>4, <1>5, <2>2, <2>4, <2>7, <2>8, <2>9 DEF Begins
  <2> QED
    BY <2>10
<1>7. CASE /\ At(target) = {}
           /\ \E t \in FreshKeys :
                Opens(r, Plan([u \in {s} |-> stock[s].quantity - q],
                              [u \in {t} |-> NewRow(target, q)], moved))
  <2>1. PICK t \in FreshKeys : Opens(r, Plan([u \in {s} |-> stock[s].quantity - q],
                                             [u \in {t} |-> NewRow(target, q)], moved))
    BY <1>7
  <2>2. t \in StockId /\ t # s
    BY <1>0, <1>4, StockRows DEF FreshKeys
  <2> DEFINE writes == [u \in {s} |-> stock[s].quantity - q]
             new == [u \in {t} |-> NewRow(target, q)]
             plan == Plan(writes, new, moved)
  <2>3. q \in 0..MaxQuantity /\ stock[s].quantity - q \in 0..MaxQuantity
    BY <1>0, <1>2, <1>4
  <2>4. /\ NewRow(target, q) \in StockRow /\ PlaceOf(NewRow(target, q)) = target
        /\ NewRow(target, q).quantity = q
    BY <1>1, <2>3, NewRowIs
  <2>5. /\ writes \in [{s} -> 0..MaxQuantity] /\ {s} \in SUBSET StockId
        /\ new \in [{t} -> StockRow] /\ {t} \in SUBSET StockId
    BY <1>4, <2>2, <2>3, <2>4
  <2>6. /\ writes[s] = stock[s].quantity + moved[source] /\ DOMAIN writes = {s}
        /\ new[t] = NewRow(target, q) /\ DOMAIN new = {t}
    BY <1>0, <1>3, <1>4
  <2> HIDE DEF writes, new
  <2>7. plan \in Plans /\ plan.writes = writes /\ plan.new = new /\ plan.entries = moved
    BY <1>3, <2>5, PlanIs
  <2>8. Opens(r, plan)
    BY <2>1 DEF writes, new
  <2> HIDE DEF plan
  <2>9. Reflects(plan, stock, Present)
    <3> DEFINE of == [p \in {source, target} |-> IF p = source THEN s ELSE t]
    <3>1. Rows(plan) = {s, t}
      BY <2>6, <2>7 DEF Rows
    <3>2. of \in [DOMAIN plan.entries -> Rows(plan)] /\ of[source] = s /\ of[target] = t
      BY <1>1, <1>3, <2>7, <3>1
    <3>3. Answers(plan, s, source, stock, Present)
      BY <1>4, <2>2, <2>6, <2>7 DEF Answers
    <3>4. Answers(plan, t, target, stock, Present)
      BY <1>3, <2>4, <2>6, <2>7 DEF Answers
    <3> HIDE DEF of
    <3>5. \A p \in DOMAIN plan.entries : p = source \/ p = target
      BY <1>3, <2>7
    <3>6. source \in DOMAIN plan.entries /\ target \in DOMAIN plan.entries
      BY <1>3, <2>7
    <3> QED
      BY <2>2, <3>1, <3>2, <3>3, <3>4, <3>5, <3>6 DEF Reflects
  <2>10. Begins(r, plan)
    BY <1>3, <1>4, <1>7, <2>4, <2>6, <2>7, <2>8, <2>9 DEF Begins
  <2> QED
    BY <2>10
<1> QED
  BY <1>2, <1>6, <1>7

LEMMA BeginsKeeps ==
  ASSUME WarehouseInv, NEW r \in Request, NEW plan, Begins(r, plan)
  PROVE  WarehouseInv'
<1>1. Typed /\ Attached /\ Inserting /\ FloorIsFree /\ Single /\ Balanced
  BY DEF WarehouseInv
<1>2. /\ plan \in Plans /\ request[r] = Idle
      /\ request' = [request EXCEPT ![r] = plan]
      /\ UNCHANGED <<warehouses, zones, locations, tasks, stock, ledger, raced, doubled>>
  BY DEF Begins, Opens, tables
<1>3. /\ request' \in [Request -> Plans] /\ request'[r] = plan
      /\ \A q \in Request \ {r} : request'[q] = request[q]
  BY <1>1, <1>2 DEF Typed
<1>4. Typed'
  BY <1>1, <1>2, <1>3 DEF Typed
<1>5. Present' = Present
  BY <1>2 DEF Present
<1>6. Attached'
  BY <1>1, <1>2, <1>5 DEF Attached
<1>7. stock \in StockTables
  BY <1>1 DEF Typed, StockTables
<1>8. \A q \in Request : Rows(request[q]) \subseteq KnownRows
  <2> SUFFICES ASSUME NEW q \in Request, NEW s \in Rows(request[q]) PROVE s \in KnownRows
    OBVIOUS
  <2>1. q \in Open
    BY IdleIs DEF Open, Rows
  <2> QED
    BY <2>1 DEF KnownRows, Rows
<1>9. \A s \in DOMAIN plan.new : stock[s] = Absent /\ s \notin KnownRows
  BY DEF Begins, FreshKeys
<1>10. \A s \in Rows(plan) : s \in Live(stock) \/ s \notin KnownRows
  BY <1>9 DEF Begins, Rows
<1>11. Inserting'
  <2> SUFFICES ASSUME NEW q \in Request
               PROVE  /\ \A s, t \in DOMAIN request'[q].new : s = t
                      /\ \A s \in DOMAIN request'[q].new :
                           /\ stock[s] = Absent
                           /\ PlaceOf(request'[q].new[s]) \in DOMAIN request'[q].entries
                           /\ \A o \in Request \ {q} : s \notin Rows(request'[o])
    BY <1>2 DEF Inserting
  <2>1. CASE q = r
    <3>1. /\ \A s, t \in DOMAIN plan.new : s = t
          /\ \A s \in DOMAIN plan.new : PlaceOf(plan.new[s]) \in DOMAIN plan.entries
      BY DEF Begins
    <3> QED
      BY <1>3, <1>8, <1>9, <2>1, <3>1
  <2>2. CASE q # r
    <3>1. request'[q] = request[q]
      BY <1>3, <2>2
    <3>2. ASSUME NEW s \in DOMAIN request[q].new PROVE s \notin Rows(plan)
      <4>1. s \in KnownRows
        BY <1>8 DEF Rows
      <4>2. stock[s] = Absent /\ s \in StockId
        BY <1>1, PlanParts DEF Inserting, Typed
      <4> QED
        BY <1>7, <1>10, <4>1, <4>2, StockRows
    <3> QED
      BY <1>1, <1>3, <3>1, <3>2 DEF Inserting
  <2> QED
    BY <2>1, <2>2
<1>12. FloorIsFree'
  <2> SUFFICES ASSUME NEW q \in Request, NEW s \in DOMAIN request'[q].new,
                      request'[q].new[s].location = Floor, request'[q].new[s].warehouse \notin doubled
               PROVE  Lying(stock, PlaceOf(request'[q].new[s])) = {}
    BY <1>2 DEF FloorIsFree
  <2>1. CASE q = r
    BY <1>3, <2>1 DEF Begins
  <2>2. CASE q # r
    BY <1>1, <1>3, <2>2 DEF FloorIsFree
  <2> QED
    BY <2>1, <2>2
<1>13. Single'
  BY <1>1, <1>2 DEF Single
<1>14. Balanced'
  <2> SUFFICES ASSUME ~raced, NEW q \in Request PROVE Reflects(request'[q], stock, Present)
    BY <1>1, <1>2, <1>5 DEF Balanced
  <2>1. CASE q = r
    BY <1>3, <2>1 DEF Begins
  <2>2. CASE q # r
    BY <1>1, <1>3, <2>2 DEF Balanced
  <2> QED
    BY <2>1, <2>2
<1> QED
  BY <1>4, <1>6, <1>11, <1>12, <1>13, <1>14 DEF WarehouseInv

LEMMA FailKeeps ==
  ASSUME WarehouseInv, NEW r \in Request, Fail(r)
  PROVE  WarehouseInv'
<1>1. Typed /\ Attached /\ Inserting /\ FloorIsFree /\ Single /\ Balanced
  BY DEF WarehouseInv
<1>2. /\ request' = [request EXCEPT ![r] = Idle]
      /\ UNCHANGED <<warehouses, zones, locations, tasks, stock, ledger, raced, doubled>>
  BY DEF Fail, tables
<1>3. /\ request' \in [Request -> Plans] /\ request'[r] = Idle
      /\ \A q \in Request \ {r} : request'[q] = request[q]
  BY <1>1, <1>2, IdleIs DEF Typed
<1>4. \A q \in Request : request'[q] = request[q] \/ request'[q] = Idle
  BY <1>3
<1>5. Rows(Idle) = {}
  BY IdleIs DEF Rows
<1>6. Present' = Present
  BY <1>2 DEF Present
<1>7. Typed' /\ Attached' /\ Single'
  BY <1>1, <1>2, <1>3, <1>6 DEF Typed, Attached, Single
<1>8. Inserting'
  BY <1>1, <1>2, <1>4, <1>5, IdleIs DEF Inserting
<1>9. FloorIsFree'
  BY <1>1, <1>2, <1>4, IdleIs DEF FloorIsFree
<1>10. Balanced'
  BY <1>1, <1>2, <1>4, <1>6, IdleReflects DEF Balanced
<1> QED
  BY <1>7, <1>8, <1>9, <1>10 DEF WarehouseInv

-----------------------------------------------------------------------------
(* Requests that commit.                                                    *)

\* What a commit writes.
LEMMA CommitRows ==
  ASSUME Typed, Inserting, NEW r \in Request, Commit(r), NEW plan \in Plans, plan = request[r]
  PROVE  /\ stock \in StockTables /\ stock' \in StockTables
         /\ Live(stock') = Live(stock) \cup DOMAIN plan.new
         /\ \A s \in DOMAIN plan.writes :
              /\ s \in Live(stock) /\ s \notin DOMAIN plan.new
              /\ PlaceOf(stock'[s]) = PlaceOf(stock[s])
              /\ stock'[s].quantity = plan.writes[s]
         /\ \A s \in DOMAIN plan.new :
              s \notin Live(stock) /\ s \in StockId /\ stock'[s] = plan.new[s]
         /\ \A s \in StockId : s \notin Rows(plan) => stock'[s] = stock[s]
<1>1. stock \in StockTables
  BY DEF Typed, StockTables
<1>2. /\ stock' = [s \in StockId |->
                     IF s \in DOMAIN plan.writes THEN [stock[s] EXCEPT !.quantity = plan.writes[s]]
                     ELSE IF s \in DOMAIN plan.new THEN plan.new[s]
                     ELSE stock[s]]
      /\ DOMAIN plan.writes \subseteq Live(stock)
  BY DEF Commit, Passes
<1>3. /\ DOMAIN plan.new \subseteq StockId /\ DOMAIN plan.writes \subseteq StockId
      /\ \A s \in DOMAIN plan.new : plan.new[s] \in StockRow
      /\ \A s \in DOMAIN plan.writes : plan.writes[s] \in 0..MaxQuantity
  BY PlanParts
<1>4. \A s \in DOMAIN plan.new : s \notin Live(stock)
  BY <1>1, <1>3, StockRows DEF Inserting
<1>5. ASSUME NEW s \in DOMAIN plan.writes
      PROVE  /\ stock'[s] \in StockRow
             /\ PlaceOf(stock'[s]) = PlaceOf(stock[s])
             /\ stock'[s].quantity = plan.writes[s]
  <2>1. PICK row \in StockRow : row = stock[s]
    BY <1>1, <1>2, StockRows
  <2>2. PICK n \in 0..MaxQuantity : n = plan.writes[s]
    BY <1>3
  <2>3. stock'[s] = [row EXCEPT !.quantity = n]
    BY <1>2, <1>3, <2>1, <2>2
  <2>4. /\ [row EXCEPT !.quantity = n] \in StockRow
        /\ [row EXCEPT !.quantity = n].quantity = n
        /\ [row EXCEPT !.quantity = n].warehouse = row.warehouse
        /\ [row EXCEPT !.quantity = n].location = row.location
    BY DEF StockRow
  <2> QED
    BY <2>1, <2>2, <2>3, <2>4 DEF PlaceOf
<1>6. \A s \in DOMAIN plan.new : stock'[s] = plan.new[s] /\ s \notin DOMAIN plan.writes
  BY <1>2, <1>3, <1>4
<1>7. \A s \in StockId : s \notin Rows(plan) => stock'[s] = stock[s]
  BY <1>2 DEF Rows
<1>8. stock' \in StockTables
  <2>1. \A s \in StockId : stock'[s] \in {Absent} \cup StockRow
    BY <1>1, <1>3, <1>5, <1>6, <1>7 DEF StockTables, Rows
  <2> QED
    BY <1>2, <2>1 DEF StockTables
<1>9. \A s \in StockId : s \in Live(stock') <=> s \in Live(stock) \/ s \in DOMAIN plan.new
  <2> SUFFICES ASSUME NEW s \in StockId
               PROVE  s \in Live(stock') <=> s \in Live(stock) \/ s \in DOMAIN plan.new
    OBVIOUS
  <2>1. CASE s \in DOMAIN plan.new
    BY <1>3, <1>6, <1>8, <2>1, StockRows
  <2>2. CASE s \in DOMAIN plan.writes
    BY <1>2, <1>5, <1>8, <2>2, StockRows
  <2>3. CASE s \notin Rows(plan)
    <3>1. s \in Live(stock) <=> stock[s] # Absent
      BY <1>1, StockRows
    <3>2. s \in Live(stock') <=> stock'[s] # Absent
      BY <1>8, StockRows
    <3> QED
      BY <1>7, <2>3, <3>1, <3>2 DEF Rows
  <2> QED
    BY <2>1, <2>2, <2>3 DEF Rows
<1>10. Live(stock) \subseteq StockId /\ Live(stock') \subseteq StockId
  BY <1>1, <1>8, StockRows
<1>11. Live(stock') = Live(stock) \cup DOMAIN plan.new
  BY <1>3, <1>9, <1>10
<1> QED
  BY <1>1, <1>2, <1>3, <1>4, <1>5, <1>6, <1>7, <1>8, <1>11

\* Rows stay where they are, and new ones come to where they were meant for.
LEMMA CommitPlaces ==
  ASSUME Typed, Inserting, NEW r \in Request, Commit(r), NEW plan \in Plans, plan = request[r]
  PROVE  \A p : Lying(stock', p)
                  = Lying(stock, p) \cup {s \in DOMAIN plan.new : PlaceOf(plan.new[s]) = p}
<1>1. /\ stock \in StockTables
      /\ Live(stock') = Live(stock) \cup DOMAIN plan.new
      /\ \A s \in DOMAIN plan.new : s \notin Live(stock) /\ stock'[s] = plan.new[s]
  BY CommitRows
<1>2. \A s \in Live(stock) : PlaceOf(stock'[s]) = PlaceOf(stock[s])
  <2> SUFFICES ASSUME NEW s \in Live(stock) PROVE PlaceOf(stock'[s]) = PlaceOf(stock[s])
    OBVIOUS
  <2>1. s \in StockId /\ s \notin DOMAIN plan.new
    BY <1>1, StockRows
  <2>2. CASE s \in DOMAIN plan.writes
    BY <2>2, CommitRows
  <2>3. CASE s \notin DOMAIN plan.writes
    <3>1. stock'[s] = stock[s]
      BY <2>1, <2>3, CommitRows DEF Rows
    <3> QED
      BY <3>1
  <2> QED
    BY <2>2, <2>3
<1> QED
  BY <1>1, <1>2 DEF Lying

\* Of requests that overlap, a commit remembers what it must.
LEMMA CommitRemembers ==
  ASSUME Typed, NEW r \in Request, Commit(r)
  PROVE  /\ doubled \subseteq doubled' /\ doubled' \subseteq WarehouseId
         /\ raced' \in BOOLEAN
         /\ ~raced' => /\ ~raced
                       /\ \A q \in Request \ {r} :
                            DOMAIN request[q].writes \cap DOMAIN request[r].writes = {}
         /\ \A q \in Request \ {r} : \A s \in DOMAIN request[r].new, t \in DOMAIN request[q].new :
              /\ request[r].new[s].location = Floor
              /\ request[q].new[t].location = Floor
              /\ request[r].new[s].warehouse = request[q].new[t].warehouse
              => request[q].new[t].warehouse \in doubled'
<1> DEFINE bare(q) == {request[q].new[s].warehouse :
                         s \in {t \in DOMAIN request[q].new : request[q].new[t].location = Floor}}
           others == Open \ {r}
<1>1. doubled' = doubled \cup (bare(r) \cap UNION {bare(q) : q \in others})
  BY DEF Commit
<1>2. raced' = (raced \/ \E q \in others : DOMAIN request[q].writes \cap DOMAIN request[r].writes # {})
  BY DEF Commit
<1>3. \A q \in Request \ {r} : q \in others \/ request[q] = Idle
  BY DEF Open
<1>4. bare(r) \subseteq WarehouseId
  <2>1. \A s \in DOMAIN request[r].new : request[r].new[s] \in StockRow
    BY PlanParts DEF Typed
  <2> QED
    BY <2>1 DEF StockRow
<1>5. doubled \subseteq doubled' /\ doubled' \subseteq WarehouseId
  <2> HIDE DEF bare
  <2> QED
    BY <1>1, <1>4 DEF Typed
<1>6. raced' \in BOOLEAN
  BY <1>2 DEF Typed
<1>7. ASSUME ~raced'
      PROVE  /\ ~raced
             /\ \A q \in Request \ {r} : DOMAIN request[q].writes \cap DOMAIN request[r].writes = {}
  BY <1>2, <1>3, <1>7, IdleIs
<1>8. ASSUME NEW q \in Request \ {r}, NEW s \in DOMAIN request[r].new, NEW t \in DOMAIN request[q].new,
             request[r].new[s].location = Floor, request[q].new[t].location = Floor,
             request[r].new[s].warehouse = request[q].new[t].warehouse
      PROVE  request[q].new[t].warehouse \in doubled'
  <2>1. q \in others
    BY <1>3, IdleIs
  <2>2. request[q].new[t].warehouse \in bare(q) /\ request[q].new[t].warehouse \in bare(r)
    BY <1>8
  <2> HIDE DEF bare
  <2> QED
    BY <1>1, <2>1, <2>2
<1> QED
  BY <1>5, <1>6, <1>7, <1>8

LEMMA CommitKeepsTyped ==
  ASSUME Typed, Attached, Inserting, NEW r \in Request, Commit(r)
  PROVE  Typed' /\ Attached' /\ Present' = Present
<1>1. PICK plan \in Plans : plan = request[r]
  BY DEF Typed
<1>2. /\ UNCHANGED <<warehouses, zones, locations, tasks>>
      /\ request' = [request EXCEPT ![r] = Idle]
      /\ ledger' = [p \in Place |->
                      IF p \in DOMAIN plan.entries THEN ledger[p] + plan.entries[p] ELSE ledger[p]]
      /\ \A p \in DOMAIN plan.entries : Exists(p)
  BY <1>1 DEF Commit, Passes, tables
<1>3. stock' \in [StockId -> {Absent} \cup StockRow]
  BY <1>1, CommitRows DEF StockTables
<1>4. request' \in [Request -> Plans]
  BY <1>2, IdleIs DEF Typed
<1>5. DOMAIN plan.entries \subseteq Place /\ \A p \in DOMAIN plan.entries : plan.entries[p] \in Int
  BY PlanParts
<1>6. ledger' \in [Place -> Int]
  BY <1>2, <1>5 DEF Typed
<1>7. Typed'
  BY <1>2, <1>3, <1>4, <1>6, CommitRemembers DEF Typed
<1>8. Present' = Present
  BY <1>2 DEF Present
<1>9. \A p \in DOMAIN plan.entries : p \in Present
  BY <1>2, <1>5, PresentExists
<1>10. ASSUME NEW s \in Live(stock') PROVE PlaceOf(stock'[s]) \in Present
  <2>1. s \in Lying(stock', PlaceOf(stock'[s]))
    BY DEF Lying
  <2>2. \/ s \in Lying(stock, PlaceOf(stock'[s]))
        \/ s \in DOMAIN plan.new /\ PlaceOf(plan.new[s]) = PlaceOf(stock'[s])
    BY <1>1, <2>1, CommitPlaces
  <2>3. CASE s \in Lying(stock, PlaceOf(stock'[s]))
    BY <2>3 DEF Attached, Lying
  <2>4. CASE s \in DOMAIN plan.new /\ PlaceOf(plan.new[s]) = PlaceOf(stock'[s])
    BY <1>1, <1>9, <2>4 DEF Inserting
  <2> QED
    BY <2>2, <2>3, <2>4
<1>11. \A p \in Place : ledger'[p] # 0 => p \in Present
  BY <1>2, <1>9 DEF Attached
<1>12. Attached'
  BY <1>2, <1>8, <1>10, <1>11 DEF Attached
<1> QED
  BY <1>7, <1>8, <1>12

LEMMA CommitKeepsSingle ==
  ASSUME Typed, Inserting, FloorIsFree, Single, NEW r \in Request, Commit(r)
  PROVE  Inserting' /\ FloorIsFree' /\ Single'
<1>1. PICK plan \in Plans : plan = request[r]
  BY DEF Typed
<1>2. /\ request'[r] = Idle
      /\ \A q \in Request \ {r} : request'[q] = request[q]
  <2>1. request' = [request EXCEPT ![r] = Idle]
    BY DEF Commit
  <2> QED
    BY <2>1 DEF Typed
<1>3. \A p : Lying(stock', p) = Lying(stock, p) \cup {s \in DOMAIN plan.new : PlaceOf(plan.new[s]) = p}
  BY <1>1, CommitPlaces
<1>4. stock \in StockTables
  BY DEF Typed, StockTables
<1>5. ASSUME NEW q \in Request, NEW s \in DOMAIN request'[q].new
      PROVE  q # r /\ request'[q] = request[q] /\ s \in DOMAIN request[q].new
  <2>1. q # r
    BY <1>2, IdleIs
  <2> QED
    BY <1>2, <2>1
<1>6. Inserting'
  <2>1. ASSUME NEW q \in Request PROVE \A s, t \in DOMAIN request'[q].new : s = t
    BY <1>5, <2>1 DEF Inserting
  <2>2. ASSUME NEW q \in Request, NEW s \in DOMAIN request'[q].new
        PROVE  /\ stock'[s] = Absent
               /\ PlaceOf(request'[q].new[s]) \in DOMAIN request'[q].entries
               /\ \A o \in Request \ {q} : s \notin Rows(request'[o])
    <3>1. q # r /\ request'[q] = request[q] /\ s \in DOMAIN request[q].new
      BY <1>5
    <3>2. /\ stock[s] = Absent
          /\ PlaceOf(request[q].new[s]) \in DOMAIN request[q].entries
          /\ \A o \in Request \ {q} : s \notin Rows(request[o])
      BY <3>1 DEF Inserting
    <3>3. s \in StockId
      BY <3>1, PlanParts DEF Typed
    <3>4. stock'[s] = stock[s]
      BY <1>1, <3>1, <3>2, <3>3, CommitRows
    <3>5. \A o \in Request \ {q} : s \notin Rows(request'[o])
      BY <1>2, <3>2, IdleIs DEF Rows
    <3> QED
      BY <3>1, <3>2, <3>4, <3>5
  <2> QED
    BY <2>1, <2>2 DEF Inserting
<1>7. FloorIsFree'
  <2> SUFFICES ASSUME NEW q \in Request, NEW s \in DOMAIN request'[q].new,
                      request'[q].new[s].location = Floor, request'[q].new[s].warehouse \notin doubled'
               PROVE  Lying(stock', PlaceOf(request'[q].new[s])) = {}
    BY DEF FloorIsFree
  <2>1. q # r /\ request'[q] = request[q] /\ s \in DOMAIN request[q].new
    BY <1>5
  <2>2. PICK row : row = request[q].new[s] /\ row.location = Floor /\ row.warehouse \notin doubled'
    BY <2>1
  <2>3. Lying(stock, PlaceOf(row)) = {}
    BY <2>1, <2>2, CommitRemembers DEF FloorIsFree
  <2>4. ASSUME NEW t \in DOMAIN plan.new, PlaceOf(plan.new[t]) = PlaceOf(row) PROVE FALSE
    <3>1. plan.new[t].location = Floor /\ plan.new[t].warehouse = row.warehouse
      BY <2>2, <2>4 DEF PlaceOf
    <3> QED
      BY <1>1, <2>1, <2>2, <3>1, CommitRemembers
  <2>5. Lying(stock', PlaceOf(row)) = {}
    BY <1>3, <2>3, <2>4
  <2> QED
    BY <2>1, <2>2, <2>5
<1>8. Single'
  <2> SUFFICES ASSUME NEW p \in Place, p[2] # Floor \/ p[1] \notin doubled'
               PROVE  AtMostOne(Lying(stock', p))
    BY DEF Single
  <2> DEFINE added == {s \in DOMAIN plan.new : PlaceOf(plan.new[s]) = p}
  <2>1. AtMostOne(Lying(stock, p))
    BY CommitRemembers DEF Single
  <2>2. AtMostOne(added)
    BY <1>1 DEF Inserting, AtMostOne
  <2>3. added # {} => Lying(stock, p) = {}
    <3> SUFFICES ASSUME NEW s \in DOMAIN plan.new, PlaceOf(plan.new[s]) = p
                 PROVE  Lying(stock, p) = {}
      OBVIOUS
    <3>1. p[1] = plan.new[s].warehouse /\ p[2] = plan.new[s].location
      BY DEF PlaceOf
    <3>2. CASE p[2] # Floor
      <4>1. At(PlaceOf(plan.new[s])) = {}
        BY <1>1, <3>1, <3>2 DEF Commit, Passes
      <4> QED
        BY <1>4, <4>1, AtIs
    <3>3. CASE p[2] = Floor
      <4>1. p[1] \notin doubled
        BY <3>3, CommitRemembers
      <4> QED
        BY <1>1, <3>1, <3>3, <4>1 DEF FloorIsFree
    <3> QED
      BY <3>2, <3>3
  <2> HIDE DEF added
  <2>4. Lying(stock', p) = Lying(stock, p) \cup added
    BY <1>3 DEF added
  <2> QED
    BY <2>1, <2>2, <2>3, <2>4 DEF AtMostOne
<1> QED
  BY <1>6, <1>7, <1>8

\* A commit adds to a place what it adds to its movements.
LEMMA CommitBooks ==
  ASSUME Typed, Inserting, NEW r \in Request, Commit(r), NEW plan \in Plans, plan = request[r],
         Reflects(plan, stock, Present), NEW p \in Place
  PROVE  Weight(stock', p) = IF p \in DOMAIN plan.entries THEN Weight(stock, p) + plan.entries[p]
                             ELSE Weight(stock, p)
<1>1. /\ stock \in StockTables /\ stock' \in StockTables
      /\ \A s \in DOMAIN plan.writes :
           /\ s \in Live(stock) /\ s \notin DOMAIN plan.new
           /\ stock'[s].quantity = plan.writes[s]
      /\ \A s \in DOMAIN plan.new : s \notin Live(stock) /\ stock'[s] = plan.new[s]
      /\ \A s \in StockId : s \notin Rows(plan) => stock'[s] = stock[s]
  BY CommitRows
<1>2. Lying(stock', p) = Lying(stock, p) \cup {s \in DOMAIN plan.new : PlaceOf(plan.new[s]) = p}
  BY CommitPlaces
<1>3. /\ DOMAIN plan.entries \subseteq Place
      /\ \A e \in DOMAIN plan.entries : plan.entries[e] \in Int
  BY PlanParts
<1>4. \A e \in DOMAIN plan.entries : e \in Present
  <2>1. \A e \in DOMAIN plan.entries : Exists(e)
    BY DEF Commit, Passes
  <2> QED
    BY <1>3, <2>1, PresentExists
<1>5. PICK of \in [DOMAIN plan.entries -> Rows(plan)] :
        /\ \A d, e \in DOMAIN plan.entries : of[d] = of[e] => d = e
        /\ \A s \in Rows(plan) : \E e \in DOMAIN plan.entries : of[e] = s
        /\ \A e \in DOMAIN plan.entries : Answers(plan, of[e], e, stock, Present)
  BY DEF Reflects
<1>6. \A e \in DOMAIN plan.entries :
        /\ of[e] \in DOMAIN plan.new => /\ PlaceOf(plan.new[of[e]]) = e
                                        /\ plan.new[of[e]].quantity = plan.entries[e]
        /\ of[e] \in DOMAIN plan.writes => /\ PlaceOf(stock[of[e]]) = e
                                           /\ plan.writes[of[e]] = stock[of[e]].quantity + plan.entries[e]
  BY <1>1, <1>4, <1>5 DEF Answers
<1>7. \A s \in Lying(stock, p) : s \in StockId /\ s \in Live(stock) /\ PlaceOf(stock[s]) = p
  BY <1>1, StockRows DEF Lying
\* Only the row that answers for p is touched at p.
<1>8. /\ \A s \in Lying(stock, p) : s \in Rows(plan) => p \in DOMAIN plan.entries /\ s = of[p]
      /\ \A s \in DOMAIN plan.new : PlaceOf(plan.new[s]) = p => p \in DOMAIN plan.entries /\ s = of[p]
  <2>1. ASSUME NEW s \in Lying(stock, p), s \in Rows(plan)
        PROVE  p \in DOMAIN plan.entries /\ s = of[p]
    <3>1. PICK e \in DOMAIN plan.entries : of[e] = s
      BY <1>5, <2>1
    <3>2. s \in DOMAIN plan.writes
      BY <1>1, <1>7, <2>1 DEF Rows
    <3> QED
      BY <1>6, <1>7, <3>1, <3>2
  <2>2. ASSUME NEW s \in DOMAIN plan.new, PlaceOf(plan.new[s]) = p
        PROVE  p \in DOMAIN plan.entries /\ s = of[p]
    <3>1. PICK e \in DOMAIN plan.entries : of[e] = s
      BY <1>5 DEF Rows
    <3> QED
      BY <1>6, <2>2, <3>1
  <2> QED
    BY <2>1, <2>2
<1>9. CASE p \notin DOMAIN plan.entries
  <2>1. Lying(stock', p) = Lying(stock, p)
    BY <1>2, <1>8, <1>9
  <2>2. \A s \in Lying(stock, p) : stock'[s].quantity = stock[s].quantity
    BY <1>1, <1>7, <1>8, <1>9
  <2> QED
    BY <1>9, <2>1, <2>2, WeightStays
<1>10. CASE p \in DOMAIN plan.entries /\ of[p] \in DOMAIN plan.new
  <2>1. Lying(stock', p) = Lying(stock, p) \cup {of[p]} /\ of[p] \notin Lying(stock, p)
    BY <1>1, <1>2, <1>6, <1>7, <1>8, <1>10
  <2>2. \A s \in Lying(stock, p) : stock'[s].quantity = stock[s].quantity
    BY <1>1, <1>7, <1>8, <2>1
  <2>3. stock'[of[p]].quantity = plan.entries[p]
    BY <1>1, <1>6, <1>10
  <2>4. Weight(stock', p) = Weight(stock, p) + stock'[of[p]].quantity
    BY <1>1, <2>1, <2>2, WeightAdds
  <2> QED
    BY <1>10, <2>3, <2>4
<1>11. CASE p \in DOMAIN plan.entries /\ of[p] \notin DOMAIN plan.new
  <2>1. of[p] \in DOMAIN plan.writes
    BY <1>5, <1>11 DEF Rows
  <2>2. /\ of[p] \in Lying(stock, p)
        /\ stock'[of[p]].quantity = stock[of[p]].quantity + plan.entries[p]
    BY <1>1, <1>6, <1>11, <2>1 DEF Lying
  <2>3. Lying(stock', p) = Lying(stock, p)
    BY <1>2, <1>8, <1>11
  <2>4. \A s \in Lying(stock, p) : s # of[p] => stock'[s].quantity = stock[s].quantity
    BY <1>1, <1>7, <1>8
  <2>5. plan.entries[p] \in Int
    BY <1>3, <1>11
  <2>6. Weight(stock', p) = Weight(stock, p) + plan.entries[p]
    BY <1>1, <2>2, <2>3, <2>4, <2>5, WeightChanges
  <2> QED
    BY <1>11, <2>6
<1> QED
  BY <1>9, <1>10, <1>11

LEMMA CommitKeepsBalanced ==
  ASSUME Typed, Attached, Inserting, Balanced, NEW r \in Request, Commit(r)
  PROVE  Balanced'
<1> SUFFICES ASSUME ~raced'
             PROVE  /\ \A p \in Place : Weight(stock', p) = ledger'[p]
                    /\ \A q \in Request : Reflects(request'[q], stock', Present')
  BY DEF Balanced
<1>1. PICK plan \in Plans : plan = request[r]
  BY DEF Typed
<1>2. /\ ~raced
      /\ \A q \in Request \ {r} : DOMAIN request[q].writes \cap DOMAIN plan.writes = {}
  BY <1>1, CommitRemembers
<1>3. /\ \A p \in Place : Weight(stock, p) = ledger[p]
      /\ \A q \in Request : Reflects(request[q], stock, Present)
  BY <1>2 DEF Balanced
<1>4. ASSUME NEW p \in Place PROVE Weight(stock', p) = ledger'[p]
  <2>1. ledger' = [e \in Place |->
                     IF e \in DOMAIN plan.entries THEN ledger[e] + plan.entries[e] ELSE ledger[e]]
    BY <1>1 DEF Commit
  <2>2. Weight(stock', p) = IF p \in DOMAIN plan.entries THEN Weight(stock, p) + plan.entries[p]
                            ELSE Weight(stock, p)
    BY <1>1, <1>3, CommitBooks
  <2> QED
    BY <1>3, <2>1, <2>2
<1>5. /\ request'[r] = Idle
      /\ \A q \in Request \ {r} : request'[q] = request[q]
  <2>1. request' = [request EXCEPT ![r] = Idle]
    BY DEF Commit
  <2> QED
    BY <2>1 DEF Typed
<1>6. Present' = Present
  BY CommitKeepsTyped
<1>7. ASSUME NEW q \in Request, q # r PROVE Reflects(request[q], stock', Present)
  <2>1. PICK other \in Plans : other = request[q]
    BY DEF Typed
  <2>2. Live(stock') = Live(stock) \cup DOMAIN plan.new
    BY <1>1, CommitRows
  <2>3. \A s \in DOMAIN plan.new : s \notin DOMAIN other.writes
    BY <1>1, <1>7, <2>1 DEF Inserting, Rows
  <2>4. ASSUME NEW s \in DOMAIN other.writes, s \in Live(stock')
        PROVE  s \in Live(stock) /\ stock'[s] = stock[s]
    <3>1. s \notin DOMAIN plan.writes /\ s \notin DOMAIN plan.new
      BY <1>2, <1>7, <2>1, <2>3
    <3>2. s \in StockId
      BY PlanParts
    <3>3. s \notin Rows(plan)
      BY <3>1 DEF Rows
    <3>4. stock'[s] = stock[s]
      BY <1>1, <3>2, <3>3, CommitRows
    <3> QED
      BY <2>2, <2>4, <3>1, <3>4
  <2>5. PICK table, after, places : table = stock /\ after = stock' /\ places = Present
    OBVIOUS
  <2>6. \A s \in DOMAIN other.writes, p \in DOMAIN other.entries :
          s \in Live(after) /\ p \in places =>
            /\ s \in Live(table) /\ p \in places
            /\ PlaceOf(table[s]) = p => after[s] = table[s]
    BY <2>4, <2>5
  <2>7. Reflects(other, table, places)
    BY <1>3, <2>1, <2>5
  <2>8. Reflects(other, after, places)
    BY <2>6, <2>7, ReflectsStays
  <2> QED
    BY <2>1, <2>5, <2>8
<1>8. ASSUME NEW q \in Request PROVE Reflects(request'[q], stock', Present')
  <2>1. CASE q = r
    BY <1>5, <2>1, IdleReflects
  <2>2. CASE q # r
    BY <1>5, <1>6, <1>7, <2>2
  <2> QED
    BY <2>1, <2>2
<1> QED
  BY <1>4, <1>8

LEMMA CommitKeeps ==
  ASSUME WarehouseInv, NEW r \in Request, Commit(r)
  PROVE  WarehouseInv'
<1>1. Typed /\ Attached /\ Inserting /\ FloorIsFree /\ Single /\ Balanced
  BY DEF WarehouseInv
<1>2. Typed' /\ Attached'
  BY <1>1, CommitKeepsTyped
<1>3. Inserting' /\ FloorIsFree' /\ Single'
  BY <1>1, CommitKeepsSingle
<1>4. Balanced'
  BY <1>1, CommitKeepsBalanced
<1> QED
  BY <1>2, <1>3, <1>4 DEF WarehouseInv

-----------------------------------------------------------------------------
(* The theorems.                                                            *)

LEMMA BuildKeeps ==
  ASSUME WarehouseInv, Build
  PROVE  WarehouseInv'
BY CreateWarehouseKeeps, CreateZoneKeeps, CreateLocationKeeps DEF Build

LEMMA StockStepKeeps ==
  ASSUME WarehouseInv, NEW r \in Request, StockStep(r)
  PROVE  WarehouseInv'
<1>1. Typed
  BY DEF WarehouseInv
<1>2. \A q \in Amount : q \in Int /\ -q \in Int
  BY WarehouseAssumption
<1>3. CASE \E p \in Place : ReceiveStock(r, p)
  <2>1. PICK p \in Place, q \in Amount : ChangeStock(r, p, q)
    BY <1>3 DEF ReceiveStock
  <2>2. \E plan : Begins(r, plan)
    BY <1>1, <1>2, <2>1, ChangeStockBegins
  <2> QED
    BY <2>2, BeginsKeeps
<1>4. CASE \E p \in Place : AdjustStock(r, p)
  <2>1. PICK p \in Place, q \in Amount : ChangeStock(r, p, q) \/ ChangeStock(r, p, -q)
    BY <1>4 DEF AdjustStock
  <2>2. PICK delta \in Int : ChangeStock(r, p, delta)
    BY <1>2, <2>1
  <2>3. \E plan : Begins(r, plan)
    BY <1>1, <2>2, ChangeStockBegins
  <2> QED
    BY <2>3, BeginsKeeps
<1>5. CASE \E from, to \in WarehouseId, q \in Amount : TransferStock(r, from, to, q)
  <2>1. \E plan : Begins(r, plan)
    BY <1>1, <1>5, TransferStockBegins
  <2> QED
    BY <2>1, BeginsKeeps
<1> QED
  BY <1>3, <1>4, <1>5, CommitKeeps, FailKeeps DEF StockStep

LEMMA StepHolds == WarehouseInv /\ [Next]_vars => WarehouseInv'
<1> SUFFICES ASSUME WarehouseInv, [Next]_vars PROVE WarehouseInv'
  OBVIOUS
<1>1. CASE Next
  BY <1>1, BuildKeeps, ClearKeeps, TaskStepKeeps, StockStepKeeps DEF Next
<1>2. CASE UNCHANGED vars
  <2>1. UNCHANGED <<warehouses, zones, locations, tasks, stock, ledger, request, raced, doubled>>
    BY <1>2 DEF vars, tables
  <2>2. Present' = Present
    BY <2>1 DEF Present
  <2> QED
    BY <2>1, <2>2 DEF WarehouseInv, Typed, Attached, Inserting, FloorIsFree, Single, Balanced
<1> QED
  BY <1>1, <1>2

LEMMA Invariance == Spec => []WarehouseInv
<1>1. Init => WarehouseInv
  BY InitHolds
<1>2. WarehouseInv /\ [Next]_vars => WarehouseInv'
  BY StepHolds
<1> QED
  BY <1>1, <1>2, PTL DEF Spec

\* No row, and no sum of movements, refers to a warehouse, a zone or a location
\* that is gone: not when it is deleted with all that is in it, and not when a
\* request that has read it before commits afterwards.
THEOREM TypeCorrect == Spec => []TypeOK
<1>1. WarehouseInv => TypeOK
  BY TypesFollow DEF WarehouseInv
<1> QED
  BY <1>1, Invariance, PTL

\* _get_or_create_stock looks for a row and inserts one later, without a lock:
\* a bin gets no second row all the same, and a floor only when first requests
\* for it overlapped or a location with stock was deleted.
THEOREM RowsAreSingle == Spec => []OneRowPerPlace
<1>1. WarehouseInv => OneRowPerPlace
  <2> SUFFICES ASSUME WarehouseInv, NEW p \in Place, p[2] # Floor \/ p[1] \notin doubled
               PROVE  Cardinality(At(p)) <= 1
    BY DEF OneRowPerPlace
  <2>1. stock \in StockTables
    BY DEF WarehouseInv, Typed, StockTables
  <2>2. AtMostOne(At(p)) /\ IsFiniteSet(At(p))
    BY <2>1, AtIs, LyingIsFinite DEF WarehouseInv, Single
  <2>3. CASE At(p) = {}
    BY <2>3, FS_EmptySet
  <2>4. CASE At(p) # {}
    <3>1. PICK s : At(p) = {s}
      BY <2>2, <2>4 DEF AtMostOne
    <3>2. Cardinality({s}) = 1
      BY FS_Singleton
    <3> QED
      BY <3>1, <3>2
  <2> QED
    BY <2>3, <2>4
<1> QED
  BY <1>1, Invariance, PTL

\* The movements of a place explain what lies there, through overlapping receipts,
\* adjustments and transfers and through deletions that move stock to the floor,
\* as long as no request has written a row over another's commit.
THEOREM LedgerIsExact == Spec => []LedgerExplainsPlaces
<1>1. WarehouseInv => LedgerExplainsPlaces
  <2> SUFFICES ASSUME WarehouseInv, ~raced, NEW p \in Place PROVE Held(p) = ledger[p]
    BY DEF LedgerExplainsPlaces
  <2>1. Weight(stock, p) = ledger[p]
    BY DEF WarehouseInv, Balanced
  <2>2. At(p) = Lying(stock, p)
    BY AtIs DEF WarehouseInv, Typed, StockTables
  <2>3. Held(p) = Weight(stock, p)
    BY <2>2 DEF Held, Weight
  <2> QED
    BY <2>1, <2>3
<1> QED
  BY <1>1, Invariance, PTL

=============================================================================
