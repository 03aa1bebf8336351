------------------------ MODULE TradeRunLedgerProofs ------------------------
(***************************************************************************)
(* Proofs about the sums of TradeRun's ledger: the position of a symbol    *)
(* and what the fill rows and the position events of its orders add up to. *)
(*                                                                         *)
(* The first part is about SumFunctionOnSet and SumSet themselves.  They   *)
(* are recursive functions, and induction over their argument is done with *)
(* a smallest counterexample: among the subsets of a finite set, strict    *)
(* inclusion is well-founded.  The second part finds the two invariants:   *)
(* BracketInv, buys only and under every fault, and PositionInv, buys and  *)
(* sells with nothing worse than lost replies.                             *)
(***************************************************************************)
EXTENDS TradeRunProofs, FiniteSetTheorems

-----------------------------------------------------------------------------
(* Sums over finite sets *)

\* The element that SumFunctionOnSet takes out of a set.
Pick(S) == CHOOSE x \in S : TRUE

\* h is the table of the sums of f over the subsets of S, as SumFunctionOnSet
\* defines it.
IsSumTable(h, f, S) ==
  h = [T \in SUBSET S |-> IF T = {} THEN 0 ELSE f[Pick(T)] + h[T \ {Pick(T)}]]

\* Every family of subsets of a finite set that is not empty has a member none of
\* whose other subsets is in the family.
LEMMA SmallestSet ==
  ASSUME NEW S, IsFiniteSet(S), NEW Bad \in SUBSET SUBSET S, Bad # {}
  PROVE  \E T \in Bad : \A U \in SUBSET T : U # T => U \notin Bad
<1> DEFINE R == StrictSubsetOrdering(S)
<1>1. IsWellFoundedOn(R, SUBSET S)
  BY FS_StrictSubsetOrderingWellFounded, FS_FiniteSubsetsOfFinite
<1>2. PICK T \in Bad : \A U \in Bad : ~(<<U, T>> \in R)
  <2> HIDE DEF R
  <2> QED BY <1>1, WFMin, Zenon
<1>3. ASSUME NEW U \in SUBSET T, U # T, U \in Bad PROVE FALSE
  BY <1>2, <1>3 DEF StrictSubsetOrdering
<1> QED
  BY <1>2, <1>3

\* The element a fold takes next.
LEMMA PickIn == ASSUME NEW S, S # {} PROVE Pick(S) \in S
BY DEF Pick

\* The sums of the subsets of two sets agree where both are defined.
LEMMA SumTableUnique ==
  ASSUME NEW f, NEW S1, NEW S2, IsFiniteSet(S1),
         NEW h1, NEW h2, IsSumTable(h1, f, S1), IsSumTable(h2, f, S2),
         NEW V \in SUBSET S1, V \in SUBSET S2
  PROVE  h1[V] = h2[V]
<1> DEFINE Bad == { T \in SUBSET S1 : T \in SUBSET S2 /\ h1[T] # h2[T] }
<1>1. SUFFICES ASSUME Bad # {} PROVE FALSE
  OBVIOUS
<1>2. PICK T \in Bad : \A U \in SUBSET T : U # T => U \notin Bad
  <2>1. Bad \in SUBSET SUBSET S1
    OBVIOUS
  <2> HIDE DEF Bad
  <2> QED BY <1>1, <2>1, SmallestSet
<1>3. T \in SUBSET S1 /\ T \in SUBSET S2 /\ h1[T] # h2[T]
  OBVIOUS
<1> DEFINE W == T \ {Pick(T)}
<1>4. /\ h1[T] = IF T = {} THEN 0 ELSE f[Pick(T)] + h1[W]
      /\ h2[T] = IF T = {} THEN 0 ELSE f[Pick(T)] + h2[W]
  BY <1>3, Zenon DEF IsSumTable
<1>5. T # {} => Pick(T) \in T
  BY PickIn
<1>6. T # {} => h1[W] = h2[W]
  BY <1>2, <1>3, <1>5
<1> QED
  BY <1>3, <1>4, <1>6

\* There is such a table, for every finite set.
LEMMA SumTableExists ==
  ASSUME NEW f, NEW S, IsFiniteSet(S)
  PROVE  \E h : IsSumTable(h, f, S)
<1> DEFINE Bad == { T \in SUBSET S : ~ \E h : IsSumTable(h, f, T) }
<1>1. SUFFICES ASSUME Bad # {} PROVE FALSE
  OBVIOUS
<1>2. PICK T \in Bad : \A U \in SUBSET T : U # T => U \notin Bad
  <2>1. Bad \in SUBSET SUBSET S
    OBVIOUS
  <2> HIDE DEF Bad
  <2> QED BY <1>1, <2>1, SmallestSet
<1> DEFINE G(U) == CHOOSE h : IsSumTable(h, f, U)
           Rest(U) == U \ {Pick(U)}
           H == [U \in SUBSET T |-> IF U = {} THEN 0 ELSE f[Pick(U)] + G(Rest(U))[Rest(U)]]
<1>3. T \in SUBSET S
  OBVIOUS
<1>4. ASSUME NEW U \in SUBSET T, U # T PROVE IsSumTable(G(U), f, U) /\ IsFiniteSet(U)
  <2>1. \E h : IsSumTable(h, f, U)
    BY <1>2, <1>3, <1>4
  <2>2. IsSumTable(G(U), f, U)
    BY <2>1, Zenon
  <2> QED BY <2>2, <1>3, FS_Subset
<1>5. ASSUME NEW W \in SUBSET T, W # T PROVE H[W] = G(W)[W]
  <2>1. IsSumTable(G(W), f, W) /\ IsFiniteSet(W)
    BY <1>4, <1>5
  <2>2. G(W)[W] = IF W = {} THEN 0 ELSE f[Pick(W)] + G(W)[Rest(W)]
    <3> HIDE DEF G
    <3> QED BY <2>1, Zenon DEF IsSumTable
  <2>3. CASE W = {}
    <3> HIDE DEF G
    <3> QED BY <2>2, <2>3
  <2>4. CASE W # {}
    <3>1. Pick(W) \in W
      BY <2>4, PickIn
    <3>2. Rest(W) \in SUBSET T /\ Rest(W) # T /\ Rest(W) \in SUBSET W
      BY <3>1
    <3>3. IsSumTable(G(Rest(W)), f, Rest(W)) /\ IsFiniteSet(Rest(W))
      BY <3>2, <1>4
    <3>4. Rest(W) \in SUBSET Rest(W)
      OBVIOUS
    <3>5. G(W)[Rest(W)] = G(Rest(W))[Rest(W)]
      <4> HIDE DEF G, Rest
      <4> QED BY <2>1, <3>2, <3>3, <3>4, SumTableUnique
    <3> HIDE DEF G
    <3> QED BY <2>2, <2>4, <3>5
  <2> QED BY <2>3, <2>4
<1>6. ASSUME NEW U \in SUBSET T, U # {} PROVE H[U] = f[Pick(U)] + H[Rest(U)]
  <2>1. Pick(U) \in U
    BY <1>6, PickIn
  <2>2. Rest(U) \in SUBSET T /\ Rest(U) # T
    BY <2>1
  <2>3. H[Rest(U)] = G(Rest(U))[Rest(U)]
    BY <2>2, <1>5
  <2> HIDE DEF G, Rest
  <2> QED BY <1>6, <2>3
<1>7. H[{}] = 0
  OBVIOUS
<1>8. IsSumTable(H, f, T)
  <2>1. H = [U \in SUBSET T |-> IF U = {} THEN 0 ELSE f[Pick(U)] + H[Rest(U)]]
    <3>1. \A U \in SUBSET T : H[U] = IF U = {} THEN 0 ELSE f[Pick(U)] + H[Rest(U)]
      <4> HIDE DEF H, Rest
      <4> QED BY <1>6, <1>7
    <3>2. DOMAIN H = SUBSET T /\ H = [U \in DOMAIN H |-> H[U]]
      OBVIOUS
    <3> HIDE DEF H
    <3> QED BY <3>1, <3>2, Zenon
  <2> HIDE DEF H
  <2> QED BY <2>1 DEF IsSumTable
<1> HIDE DEF H
<1> QED BY <1>8

\* SumFunctionOnSet looks the set up in its table.
LEMMA SumIsTable ==
  ASSUME NEW f, NEW S, IsFiniteSet(S)
  PROVE  \E h : IsSumTable(h, f, S) /\ SumFunctionOnSet(f, S) = h[S]
<1> DEFINE it == CHOOSE h : h = [T \in SUBSET S |->
                                   IF T = {} THEN 0 ELSE f[Pick(T)] + h[T \ {Pick(T)}]]
<1>1. SumFunctionOnSet(f, S) = it[S]
  BY DEF SumFunctionOnSet, FoldFunctionOnSet, MapThenFoldSet, Pick
<1>2. IsSumTable(it, f, S)
  <2>1. \E h : IsSumTable(h, f, S)
    BY SumTableExists
  <2> QED BY <2>1, Zenon DEF IsSumTable
<1> HIDE DEF it
<1> QED BY <1>1, <1>2

\* Nothing adds up to zero.
LEMMA SumEmpty == ASSUME NEW f PROVE SumFunctionOnSet(f, {}) = 0
<1>1. PICK h : IsSumTable(h, f, {}) /\ SumFunctionOnSet(f, {}) = h[{}]
  BY SumIsTable, FS_EmptySet, Zenon
<1>2. h[{}] = IF {} = {} THEN 0 ELSE f[Pick({})] + h[{} \ {Pick({})}]
  BY <1>1, Zenon DEF IsSumTable
<1> QED BY <1>1, <1>2

\* The step of the fold, on the element it picks.
LEMMA SumPick ==
  ASSUME NEW f, NEW S, IsFiniteSet(S), S # {}
  PROVE  SumFunctionOnSet(f, S) = f[Pick(S)] + SumFunctionOnSet(f, S \ {Pick(S)})
<1> DEFINE R == S \ {Pick(S)}
<1>1. PICK h : IsSumTable(h, f, S) /\ SumFunctionOnSet(f, S) = h[S]
  BY SumIsTable, Zenon
<1>2. IsFiniteSet(R)
  BY FS_Subset
<1>3. PICK g : IsSumTable(g, f, R) /\ SumFunctionOnSet(f, R) = g[R]
  BY <1>2, SumIsTable, Zenon
<1>4. h[S] = IF S = {} THEN 0 ELSE f[Pick(S)] + h[R]
  BY <1>1, Zenon DEF IsSumTable
<1>5. h[R] = g[R]
  <2>1. R \in SUBSET S /\ R \in SUBSET R
    OBVIOUS
  <2> HIDE DEF R
  <2> QED BY <1>1, <1>3, <2>1, SumTableUnique
<1> QED BY <1>1, <1>3, <1>4, <1>5

\* A sum of integers is an integer.
LEMMA SumType ==
  ASSUME NEW S, IsFiniteSet(S), NEW f, \A x \in S : f[x] \in Int
  PROVE  SumFunctionOnSet(f, S) \in Int
<1> DEFINE Bad == { T \in SUBSET S : SumFunctionOnSet(f, T) \notin Int }
<1>1. SUFFICES ASSUME Bad # {} PROVE FALSE
  OBVIOUS
<1>2. PICK T \in Bad : \A U \in SUBSET T : U # T => U \notin Bad
  <2>1. Bad \in SUBSET SUBSET S
    OBVIOUS
  <2> HIDE DEF Bad
  <2> QED BY <1>1, <2>1, SmallestSet
<1>3. T \in SUBSET S /\ SumFunctionOnSet(f, T) \notin Int /\ IsFiniteSet(T)
  BY FS_Subset
<1>4. CASE T = {}
  BY <1>3, <1>4, SumEmpty
<1>5. CASE T # {}
  <2>1. Pick(T) \in T
    BY <1>5, PickIn
  <2>2. SumFunctionOnSet(f, T \ {Pick(T)}) \in Int
    BY <1>2, <1>3, <2>1
  <2>3. SumFunctionOnSet(f, T) = f[Pick(T)] + SumFunctionOnSet(f, T \ {Pick(T)})
    BY <1>3, <1>5, SumPick
  <2> QED BY <1>3, <2>1, <2>2, <2>3
<1> QED BY <1>4, <1>5

\* The fold may take any element first.
LEMMA SumAdd ==
  ASSUME NEW S, IsFiniteSet(S), NEW f, \A x \in S : f[x] \in Int,
         NEW x \in S
  PROVE  SumFunctionOnSet(f, S) = f[x] + SumFunctionOnSet(f, S \ {x})
<1> DEFINE Sum(T) == SumFunctionOnSet(f, T)
           Bad == { T \in SUBSET S : \E y \in T : Sum(T) # f[y] + Sum(T \ {y}) }
<1>1. SUFFICES ASSUME Bad # {} PROVE FALSE
  OBVIOUS
<1>2. PICK T \in Bad : \A U \in SUBSET T : U # T => U \notin Bad
  <2>1. Bad \in SUBSET SUBSET S
    OBVIOUS
  <2> HIDE DEF Bad
  <2> QED BY <1>1, <2>1, SmallestSet
<1>3. PICK y \in T : Sum(T) # f[y] + Sum(T \ {y})
  OBVIOUS
<1> DEFINE p == Pick(T)
           both == T \ {p, y}
<1>4. T \in SUBSET S /\ IsFiniteSet(T) /\ p \in T
  BY <1>3, FS_Subset, PickIn
<1>5. Sum(T) = f[p] + Sum(T \ {p})
  BY <1>3, <1>4, SumPick
<1>6. p # y
  BY <1>3, <1>5
<1>7. Sum(T \ {p}) = f[y] + Sum(both)
  <2>1. y \in T \ {p} /\ (T \ {p}) \in SUBSET T /\ T \ {p} # T /\ (T \ {p}) \ {y} = both
    BY <1>3, <1>4, <1>6
  <2>2. T \ {p} \notin Bad /\ T \ {p} \in SUBSET S
    BY <1>2, <1>4, <2>1
  <2> HIDE DEF Sum, p, both
  <2> QED BY <2>1, <2>2
<1>8. Sum(T \ {y}) = f[p] + Sum(both)
  <2>1. p \in T \ {y} /\ (T \ {y}) \in SUBSET T /\ T \ {y} # T /\ (T \ {y}) \ {p} = both
    BY <1>3, <1>4, <1>6
  <2>2. T \ {y} \notin Bad /\ T \ {y} \in SUBSET S
    BY <1>2, <1>4, <2>1
  <2> HIDE DEF Sum, p, both
  <2> QED BY <2>1, <2>2
<1>9. f[p] \in Int /\ f[y] \in Int /\ Sum(both) \in Int
  <2>1. IsFiniteSet(both) /\ \A z \in both : f[z] \in Int
    BY <1>4, FS_Subset
  <2> HIDE DEF both
  <2> QED BY <1>3, <1>4, <2>1, SumType
<1> HIDE DEF Sum, p, both
<1> QED BY <1>3, <1>5, <1>7, <1>8, <1>9

\* A sum depends on the function's values on the set only.
LEMMA SumSame ==
  ASSUME NEW S, IsFiniteSet(S), NEW f, NEW g, \A x \in S : f[x] = g[x]
  PROVE  SumFunctionOnSet(f, S) = SumFunctionOnSet(g, S)
<1> DEFINE Bad == { T \in SUBSET S : SumFunctionOnSet(f, T) # SumFunctionOnSet(g, T) }
<1>1. SUFFICES ASSUME Bad # {} PROVE FALSE
  OBVIOUS
<1>2. PICK T \in Bad : \A U \in SUBSET T : U # T => U \notin Bad
  <2>1. Bad \in SUBSET SUBSET S
    OBVIOUS
  <2> HIDE DEF Bad
  <2> QED BY <1>1, <2>1, SmallestSet
<1>3. T \in SUBSET S /\ SumFunctionOnSet(f, T) # SumFunctionOnSet(g, T) /\ IsFiniteSet(T)
  BY FS_Subset
<1>4. CASE T = {}
  BY <1>3, <1>4, SumEmpty
<1>5. CASE T # {}
  <2>1. Pick(T) \in T
    BY <1>5, PickIn
  <2>2. SumFunctionOnSet(f, T \ {Pick(T)}) = SumFunctionOnSet(g, T \ {Pick(T)})
    BY <1>2, <1>3, <2>1
  <2>3. SumFunctionOnSet(f, T) = f[Pick(T)] + SumFunctionOnSet(f, T \ {Pick(T)})
    BY <1>3, <1>5, SumPick
  <2>4. SumFunctionOnSet(g, T) = g[Pick(T)] + SumFunctionOnSet(g, T \ {Pick(T)})
    BY <1>3, <1>5, SumPick
  <2> QED BY <1>3, <2>1, <2>2, <2>3, <2>4
<1> QED BY <1>4, <1>5

\* SumSet adds up the elements themselves.
LEMMA SumSetIsSum ==
  ASSUME NEW S, IsFiniteSet(S)
  PROVE  SumSet(S) = SumFunctionOnSet([q \in S |-> q], S)
<1> DEFINE id == [q \in S |-> q]
           IsIt(h) == h = [T \in SUBSET S |-> IF T = {} THEN 0 ELSE Pick(T) + h[T \ {Pick(T)}]]
           it == CHOOSE h : IsIt(h)
<1>1. SumSet(S) = it[S]
  BY DEF SumSet, FoldSet, MapThenFoldSet, Pick
<1>2. ASSUME NEW h PROVE IsIt(h) <=> IsSumTable(h, id, S)
  <2>1. \A T \in SUBSET S : T # {} => id[Pick(T)] = Pick(T)
    BY PickIn
  <2>2. [T \in SUBSET S |-> IF T = {} THEN 0 ELSE Pick(T) + h[T \ {Pick(T)}]]
        = [T \in SUBSET S |-> IF T = {} THEN 0 ELSE id[Pick(T)] + h[T \ {Pick(T)}]]
    <3> HIDE DEF id
    <3> QED BY <2>1
  <2> HIDE DEF id
  <2> QED BY <2>2, Zenon DEF IsSumTable
<1>3. PICK h : IsSumTable(h, id, S) /\ SumFunctionOnSet(id, S) = h[S]
  <2> HIDE DEF id
  <2> QED BY SumIsTable, Zenon
<1>4. IsIt(it)
  <2> HIDE DEF id, IsIt
  <2> QED BY <1>2, <1>3, Zenon DEF IsIt
<1>5. it[S] = h[S]
  <2>1. IsSumTable(it, id, S)
    <3> HIDE DEF id, IsIt, it
    <3> QED BY <1>2, <1>4
  <2>2. S \in SUBSET S
    OBVIOUS
  <2> HIDE DEF id, it
  <2> QED BY <1>3, <2>1, <2>2, SumTableUnique
<1> HIDE DEF it
<1> QED BY <1>1, <1>3, <1>5

\* The empty set adds up to zero.
LEMMA SumSetEmpty == SumSet({}) = 0
BY SumSetIsSum, SumEmpty, FS_EmptySet

\* A new element adds itself.
LEMMA SumSetAdd ==
  ASSUME NEW S, IsFiniteSet(S), S \subseteq Int, NEW q \in Int, q \notin S
  PROVE  SumSet(S \cup {q}) = q + SumSet(S)
<1> DEFINE T == S \cup {q}
           id == [x \in T |-> x]
<1>1. IsFiniteSet(T) /\ \A x \in T : id[x] \in Int
  BY FS_AddElement
<1>2. SumFunctionOnSet(id, T) = id[q] + SumFunctionOnSet(id, T \ {q})
  <2>1. q \in T
    OBVIOUS
  <2> HIDE DEF T, id
  <2> QED BY <1>1, <2>1, SumAdd
<1>3. T \ {q} = S /\ id[q] = q /\ \A x \in S : id[x] = [y \in S |-> y][x]
  OBVIOUS
<1>4. SumFunctionOnSet(id, S) = SumFunctionOnSet([y \in S |-> y], S)
  <2> HIDE DEF id
  <2> QED BY <1>3, SumSame
<1>5. SumSet(T) = SumFunctionOnSet(id, T)
  <2> HIDE DEF T
  <2> QED BY <1>1, SumSetIsSum
<1>6. SumSet(S) = SumFunctionOnSet([y \in S |-> y], S)
  BY SumSetIsSum
<1> HIDE DEF T, id
<1> QED BY <1>2, <1>3, <1>4, <1>5, <1>6 DEF T
\* A change of one value changes the sum by as much.
LEMMA SumChange ==
  ASSUME NEW S, IsFiniteSet(S), NEW f, NEW g, NEW x \in S,
         \A y \in S : f[y] \in Int /\ g[y] \in Int,
         \A y \in S \ {x} : f[y] = g[y]
  PROVE  SumFunctionOnSet(g, S) = SumFunctionOnSet(f, S) + (g[x] - f[x])
<1> DEFINE R == S \ {x}
<1>1. IsFiniteSet(R)
  BY FS_Subset
<1>2. SumFunctionOnSet(f, S) = f[x] + SumFunctionOnSet(f, R)
  BY SumAdd
<1>3. SumFunctionOnSet(g, S) = g[x] + SumFunctionOnSet(g, R)
  BY SumAdd
<1>4. SumFunctionOnSet(f, R) = SumFunctionOnSet(g, R)
  BY <1>1, SumSame
<1>5. SumFunctionOnSet(f, R) \in Int
  BY <1>1, SumType
<1> HIDE DEF R
<1> QED BY <1>2, <1>3, <1>4, <1>5

\* Zeros may be left out.
LEMMA SumZeros ==
  ASSUME NEW S, IsFiniteSet(S), NEW T \in SUBSET S, NEW f, \A x \in S : f[x] \in Int,
         \A x \in S \ T : f[x] = 0
  PROVE  SumFunctionOnSet(f, S) = SumFunctionOnSet(f, T)
<1> DEFINE Sum(U) == SumFunctionOnSet(f, U)
           Bad == { R \in SUBSET (S \ T) : Sum(T \cup R) # Sum(T) }
<1>1. SUFFICES ASSUME Bad # {} PROVE FALSE
  <2>1. T \cup (S \ T) = S
    OBVIOUS
  <2>2. ASSUME Bad = {} PROVE Sum(T \cup (S \ T)) = Sum(T)
    <3> HIDE DEF Sum
    <3> QED BY <2>2
  <2> HIDE DEF Bad
  <2> QED BY <2>1, <2>2
<1>2. PICK R \in Bad : \A U \in SUBSET R : U # R => U \notin Bad
  <2>1. Bad \in SUBSET SUBSET (S \ T) /\ IsFiniteSet(S \ T)
    BY FS_Subset
  <2> HIDE DEF Bad
  <2> QED BY <1>1, <2>1, SmallestSet
<1>3. R \in SUBSET (S \ T) /\ Sum(T \cup R) # Sum(T)
  OBVIOUS
<1>4. PICK r \in R : TRUE
  <2>1. T \cup {} = T
    OBVIOUS
  <2> QED BY <1>3, <2>1
<1>5. Sum(T \cup (R \ {r})) = Sum(T)
  BY <1>2, <1>3, <1>4
<1> DEFINE both == T \cup R
           less == T \cup (R \ {r})
<1>6. Sum(both) = f[r] + Sum(less)
  <2>1. /\ both \in SUBSET S /\ r \in both /\ both \ {r} = less
        /\ IsFiniteSet(both) /\ \A x \in both : f[x] \in Int
    BY <1>3, <1>4, FS_Subset
  <2> HIDE DEF both, less
  <2> QED BY <2>1, SumAdd
<1>7. f[r] = 0 /\ Sum(T) \in Int
  BY <1>3, <1>4, FS_Subset, SumType
<1> HIDE DEF Sum, both, less
<1> QED BY <1>3, <1>5, <1>6, <1>7 DEF both, less

-----------------------------------------------------------------------------
(* What a step does to the ledger *)

\* The orders on s that the broker took.
PlacedOn(s) == { o \in OrderIds : bstate[o] # "NONE" /\ intent[o].symbol = s }

\* What the rows of an order say of the order, and of the order a run knows.
LedgerRows ==
  /\ IsFiniteSet({ o \in OrderIds : bstate[o] # "NONE" })
  /\ \A o \in OrderIds : /\ bstate[o] # "NONE" => intent[o] \in Intents
                         /\ fills[o] # {} => bstate[o] # "NONE"
                         /\ fills[o] = {} => events[o] = {}
                         /\ booked[o] = SumSet(fills[o])
  /\ pc \in OrderPoints => bstate[cur] # "NONE" /\ intent[cur] = want
  /\ pc \in {"position", "event"} => delta \in fills[cur]

\* A correction enters a fill row that was not there.
EntersFill ==
  /\ pc = "fix" /\ pc' = "position"
  /\ delta' \in (1 .. Qty) \ fills[cur]
  /\ fills' = [fills EXCEPT ![cur] = @ \cup {delta'}]
  /\ booked' = [booked EXCEPT ![cur] = @ + delta']
  /\ UNCHANGED <<cur, want, position, events, intent, bstate, bfilled, btoday>>

\* A step that neither writes the ledger nor places an order, and leaves a
\* correction in progress alone or ends it.
LeavesLedger ==
  /\ UNCHANGED <<fills, booked, position, events, intent>>
  /\ \A o \in OrderIds : bstate'[o] = "NONE" <=> bstate[o] = "NONE"
  /\ pc' \in OrderPoints => pc \in OrderPoints /\ UNCHANGED <<cur, want>>
  /\ pc' \in {"position", "event"} => UNCHANGED <<pc, delta>>

\* Five kinds of step, as far as the ledger is concerned.
LEMMA LedgerEffect ==
  ASSUME TypeInv, [Next]_vars
  PROVE  \/ \E o \in OrderIds : SubmitOrder(o) \/ SubmitReplyLost(o)
         \/ EntersFill
         \/ UpdatePosition
         \/ RecordPositionEvent
         \/ LeavesLedger
<1>1. ASSUME UNCHANGED <<fills, booked, position, events, intent, bstate>>,
             pc' \in OrderPoints => pc \in OrderPoints /\ UNCHANGED <<cur, want>>,
             pc' \notin {"position", "event"}
      PROVE  LeavesLedger
  BY <1>1 DEF LeavesLedger
<1>2. ASSUME NEW v \in Views, CorrectFills(v) PROVE EntersFill \/ LeavesLedger
  <2> DEFINE missing == MissingFill(cur, Snapshot(cur, v).filled)
  <2>1. cur \in OrderIds
    BY <1>2 DEF CorrectFills, TypeInv, RunMemory, OrderPoints
  <2>2. missing \in Int /\ missing <= Qty /\ Qty \in Nat /\ fills[cur] \in SUBSET (1 .. Qty)
    <3>1. Snapshot(cur, v).filled \in 0 .. Qty
      BY SnapshotBounds, ConstantsAssumption DEF TypeInv
    <3>2. booked[cur] \in 0 .. Qty /\ fills[cur] \in SUBSET (1 .. Qty)
      BY <2>1 DEF TypeInv, TypeOK
    <3>3. QED
      BY <3>1, <3>2, ConstantsAssumption DEF MissingFill, ConstantsAssumption
  <2>3. CASE missing <= 0
    <3>1. ~(missing > 0)
      BY <2>2, <2>3
    <3>2. UNCHANGED <<fills, booked, position, events, intent, bstate, cur, want>> /\ pc' = "settle"
      BY <1>2, <3>1 DEF CorrectFills, brokerVars
    <3>3. QED
      BY <1>1, <1>2, <3>2 DEF OrderPoints, CorrectFills
  <2>4. CASE missing > 0 /\ missing \in fills[cur]
    <3>1. /\ fills' = [fills EXCEPT ![cur] = @ \cup {missing}]
          /\ UNCHANGED <<booked, position, events, intent, bstate, cur, want>> /\ pc' = "settle"
      BY <1>2, <2>2, <2>4 DEF CorrectFills, DuplicateFill, brokerVars
    <3>2. fills' = fills
      BY <3>1, <2>4, <2>1 DEF TypeInv, TypeOK
    <3>3. QED
      BY <1>1, <1>2, <3>1, <3>2 DEF OrderPoints, CorrectFills
  <2>5. CASE missing > 0 /\ missing \notin fills[cur]
    <3>1. /\ delta' = missing /\ pc = "fix" /\ pc' = "position"
          /\ fills' = [fills EXCEPT ![cur] = @ \cup {missing}]
          /\ booked' = [booked EXCEPT ![cur] = @ + missing]
          /\ UNCHANGED <<cur, want, position, events, intent, bstate, bfilled, btoday>>
      BY <1>2, <2>2, <2>5 DEF CorrectFills, DuplicateFill, brokerVars
    <3>2. missing \in (1 .. Qty) \ fills[cur]
      BY <2>2, <2>5
    <3> HIDE DEF missing
    <3>3. QED
      BY <3>1, <3>2 DEF EntersFill
  <2>6. QED
    BY <2>2, <2>3, <2>4, <2>5
<1>3. CASE Submission
  <2>1. CASE \/ \E i \in Intents : StartRun(i)
             \/ \E v \in Views : CheckReconciliation(v)
             \/ CheckIntent \/ SubmitRefused \/ RecordOrder
    BY <1>1, <2>1 DEF StartRun, CheckReconciliation, CheckIntent, SubmitRefused, RecordOrder,
      OrderPoints, storeVars, brokerVars
  <2>2. QED
    BY <1>3, <2>1 DEF Submission
<1>4. CASE Booking
  <2>1. CASE (\E v \in Views : Poll(v)) \/ RecordFilled \/ Settle \/ Announce
    BY <1>1, <2>1 DEF Poll, RecordFilled, Settle, Announce, OrderPoints, storeVars, brokerVars
  <2>2. QED
    BY <1>2, <1>4, <2>1 DEF Booking
<1>5. CASE CancelLoop
  <2>1. CASE CancelAccepted \/ CancelReplyLost
    <3>1. cur \in OrderIds
      BY <2>1 DEF CancelAccepted, CancelReplyLost, TypeInv, RunMemory, OrderPoints
    <3>2. \A o \in OrderIds : bstate'[o] = "NONE" <=> bstate[o] = "NONE"
      BY <2>1, <3>1 DEF CancelAccepted, CancelReplyLost, TypeInv, TypeOK
    <3>3. QED
      BY <2>1, <3>2 DEF CancelAccepted, CancelReplyLost, storeVars, LeavesLedger, OrderPoints
  <2>2. CASE \/ RequestCancelLocally \/ CancelGivesUp \/ CancelFails
             \/ SaveCancelOutcome \/ AfterCancelLoop
             \/ \E v \in Views : CancelPoll(v)
    BY <1>1, <2>2 DEF RequestCancelLocally, CancelGivesUp, CancelPoll, CancelFails,
      SaveCancelOutcome, AfterCancelLoop, OrderPoints, storeVars, brokerVars
  <2>3. QED
    BY <1>5, <2>1, <2>2 DEF CancelLoop
<1>6. CASE Closing \/ CallRaises \/ Crash
  BY <1>1, <1>6 DEF Closing, HandleException, FinishRun, CallRaises, Crash, OrderPoints,
    storeVars, brokerVars
<1>7. CASE Broker
  <2>1. \A o \in OrderIds : bstate'[o] = "NONE" <=> bstate[o] = "NONE"
    BY <1>7 DEF Broker, BrokerFills, BrokerCloses, NewDay, TypeInv, TypeOK
  <2>2. QED
    BY <1>7, <2>1 DEF Broker, BrokerFills, BrokerCloses, NewDay, LeavesLedger, procVars, storeVars
<1>8. CASE UNCHANGED vars
  BY <1>8 DEF vars, LeavesLedger
<1>9. QED
  BY <1>3, <1>4, <1>5, <1>6, <1>7, <1>8 DEF Next, Program

\* What the rows of an order say of the order is inductive.
LEMMA LedgerRowsStep ==
  ASSUME ConstantsAssumption, TypeInv, LedgerRows, [Next]_vars
  PROVE  LedgerRows'
<1> DEFINE Placed == { o \in OrderIds : bstate[o] # "NONE" }
<1>1. ASSUME NEW o \in OrderIds, SubmitOrder(o) \/ SubmitReplyLost(o) PROVE LedgerRows'
  <2>1. /\ bstate[o] = "NONE" /\ bstate' = [bstate EXCEPT ![o] = "OPEN"]
        /\ intent' = [intent EXCEPT ![o] = want]
        /\ UNCHANGED <<fills, booked, events, want>>
        /\ pc' \in {"record", "handler"} /\ (pc' = "record" => cur' = o)
    BY <1>1 DEF SubmitOrder, SubmitReplyLost, BrokerTakes
  <2>2. Placed' = Placed \cup {o}
    BY <2>1 DEF TypeInv, TypeOK
  <2>3. IsFiniteSet(Placed')
    <3>1. IsFiniteSet(Placed)
      BY DEF LedgerRows
    <3> HIDE DEF Placed
    <3>2. QED
      BY <2>2, <3>1, FS_AddElement
  <2>4. want \in Intents
    BY <1>1 DEF SubmitOrder, SubmitReplyLost, TypeInv, RunMemory
  <2>5. QED
    BY <2>1, <2>3, <2>4 DEF LedgerRows, TypeInv, TypeOK, OrderPoints
<1>2. CASE EntersFill
  <2>1. cur \in OrderIds /\ bstate[cur] # "NONE" /\ intent[cur] = want /\ cur' = cur
    BY <1>2 DEF EntersFill, TypeInv, RunMemory, OrderPoints, LedgerRows
  <2>2. booked'[cur] = SumSet(fills'[cur])
    <3>1. fills[cur] \in SUBSET (1 .. Qty) /\ delta' \in 1 .. Qty /\ Qty \in Nat
      BY <1>2, <2>1, ConstantsAssumption DEF EntersFill, TypeInv, TypeOK, ConstantsAssumption
    <3>2. IsFiniteSet(fills[cur])
      <4>1. IsFiniteSet(1 .. Qty)
        BY <3>1, FS_Interval
      <4>2. QED
        BY <3>1, <4>1, FS_Subset
    <3>3. SumSet(fills[cur] \cup {delta'}) = delta' + SumSet(fills[cur])
      BY <1>2, <3>1, <3>2, SumSetAdd DEF EntersFill
    <3>4. /\ fills'[cur] = fills[cur] \cup {delta'} /\ booked'[cur] = booked[cur] + delta'
          /\ booked[cur] = SumSet(fills[cur]) /\ booked[cur] \in 0 .. Qty
      BY <1>2, <2>1 DEF EntersFill, TypeInv, TypeOK, LedgerRows
    <3>5. QED
      BY <3>1, <3>3, <3>4
  <2>3. \A o \in OrderIds : o # cur => fills'[o] = fills[o] /\ booked'[o] = booked[o]
    BY <1>2 DEF EntersFill, TypeInv, TypeOK
  <2>4. fills'[cur] # {} /\ delta' \in fills'[cur]
    BY <1>2, <2>1 DEF EntersFill, TypeInv, TypeOK
  <2>5. UNCHANGED <<bstate, events, intent, want>>
    BY <1>2 DEF EntersFill
  <2>6. QED
    BY <2>1, <2>2, <2>3, <2>4, <2>5 DEF LedgerRows
<1>3. CASE UpdatePosition
  BY <1>3 DEF UpdatePosition, LedgerRows, OrderPoints, brokerVars
<1>4. CASE RecordPositionEvent
  <2>1. cur \in OrderIds /\ fills[cur] # {}
    BY <1>4 DEF RecordPositionEvent, TypeInv, RunMemory, OrderPoints, LedgerRows
  <2>2. QED
    BY <1>4, <2>1 DEF RecordPositionEvent, LedgerRows, OrderPoints, TypeInv, TypeOK, brokerVars
<1>5. CASE LeavesLedger
  <2>1. Placed' = Placed
    BY <1>5 DEF LeavesLedger
  <2>2. \A o \in OrderIds : /\ bstate'[o] # "NONE" => intent'[o] \in Intents
                            /\ fills'[o] # {} => bstate'[o] # "NONE"
                            /\ fills'[o] = {} => events'[o] = {}
                            /\ booked'[o] = SumSet(fills'[o])
    BY <1>5 DEF LeavesLedger, LedgerRows
  <2>3. pc' \in OrderPoints => bstate'[cur'] # "NONE" /\ intent'[cur'] = want'
    BY <1>5 DEF LeavesLedger, LedgerRows, TypeInv, RunMemory
  <2>4. pc' \in {"position", "event"} => delta' \in fills'[cur']
    BY <1>5 DEF LeavesLedger, LedgerRows, OrderPoints
  <2>5. QED
    BY <2>1, <2>2, <2>3, <2>4 DEF LedgerRows
<1>6. QED
  BY <1>1, <1>2, <1>3, <1>4, <1>5, LedgerEffect

\* Under every fault, what the model calls booked is what the order's fill rows
\* add up to, local_total of _apply_broker_fill_correction: a correction that
\* repeats a row adds nothing.
THEOREM BookedIsFillSumCorrect ==
  Spec => [](\A o \in OrderIds : booked[o] = SumSet(fills[o]))
<1>1. Init => TypeInv
  BY ConstantsAssumption
  DEF Init, TypeInv, TypeOK, RunMemory, OrderPoints, Points, TryPoints, RunResults, Callers,
      Terminal, OrderStatuses, BrokerStates, ConstantsAssumption
<1>2. Init => LedgerRows
  <2> SUFFICES ASSUME Init PROVE LedgerRows
    OBVIOUS
  <2>1. { o \in OrderIds : bstate[o] # "NONE" } = {}
    BY DEF Init
  <2>2. QED
    BY <2>1, FS_EmptySet, SumSetEmpty DEF Init, LedgerRows, OrderPoints
<1>3. TypeInv /\ LedgerRows /\ [Next]_vars => TypeInv' /\ LedgerRows'
  BY TypeStep, LedgerRowsStep, ConstantsAssumption
<1>4. LedgerRows => \A o \in OrderIds : booked[o] = SumSet(fills[o])
  BY DEF LedgerRows
<1>5. QED
  BY <1>1, <1>2, <1>3, <1>4, PTL DEF Spec

\* The rows of an order add up to a number.
LEMMA TotalsType ==
  ASSUME TypeInv
  PROVE  /\ \A o \in OrderIds : FillTotals[o] \in Int /\ EventTotals[o] \in Int
         /\ FillTotals = [o \in OrderIds |-> SumSet(fills[o])]
         /\ EventTotals = [o \in OrderIds |-> SumSet(events[o])]
         /\ FillTotals' = [o \in OrderIds |-> SumSet(fills'[o])]
         /\ EventTotals' = [o \in OrderIds |-> SumSet(events'[o])]
<1>1. ASSUME NEW S \in SUBSET (1 .. Qty) PROVE IsFiniteSet(S) /\ SumSet(S) \in Int
  <2>1. IsFiniteSet(1 .. Qty)
    BY FS_Interval, ConstantsAssumption DEF ConstantsAssumption
  <2>2. IsFiniteSet(S)
    BY <2>1, FS_Subset
  <2>3. \A q \in S : [x \in S |-> x][q] \in Int
    BY <1>1, ConstantsAssumption DEF ConstantsAssumption
  <2>4. QED
    BY <2>2, <2>3, SumType, SumSetIsSum
<1>2. QED
  BY <1>1 DEF FillTotals, EventTotals, TypeInv, TypeOK

\* Only finitely many orders were ever placed.
LEMMA PlacedOnFinite ==
  ASSUME LedgerRows, NEW s PROVE IsFiniteSet(PlacedOn(s)) /\ PlacedOn(s) \subseteq OrderIds
<1>1. PlacedOn(s) \subseteq { o \in OrderIds : bstate[o] # "NONE" }
  BY DEF PlacedOn
<1>2. QED
  BY <1>1, FS_Subset DEF LedgerRows, PlacedOn

\* The part of a correction that the record after point has still to come.
Pending(s, point) == IF pc = point /\ want.symbol = s THEN delta ELSE 0

\* The bracket, with what the correction in progress has still to write.
BracketInv ==
  \A s \in Symbols :
    /\ SumFunctionOnSet(EventTotals, PlacedOn(s)) + Pending(s, "event") <= position[s]
    /\ position[s] + Pending(s, "position") <= SumFunctionOnSet(FillTotals, PlacedOn(s))

\* The bracket is inductive.
LEMMA BracketStep ==
  ASSUME Sides = {"BUY"}, TypeInv, LedgerRows, BracketInv, [Next]_vars
  PROVE  BracketInv'
<1> SUFFICES ASSUME NEW s \in Symbols
             PROVE  /\ SumFunctionOnSet(EventTotals', PlacedOn(s)') + Pending(s, "event")'
                         <= position'[s]
                    /\ position'[s] + Pending(s, "position")'
                         <= SumFunctionOnSet(FillTotals', PlacedOn(s)')
  BY DEF BracketInv
<1> DEFINE on == PlacedOn(s)
           F == SumFunctionOnSet(FillTotals, on)
           E == SumFunctionOnSet(EventTotals, on)
           F1 == SumFunctionOnSet(FillTotals', on')
           E1 == SumFunctionOnSet(EventTotals', on')
<1>0. /\ E + Pending(s, "event") <= position[s]
      /\ position[s] + Pending(s, "position") <= F
      /\ F \in Int /\ E \in Int /\ position[s] \in Nat
      /\ IsFiniteSet(on) /\ on \subseteq OrderIds
      /\ \A o \in OrderIds : FillTotals[o] \in Int /\ EventTotals[o] \in Int
      /\ FillTotals = [o \in OrderIds |-> SumSet(fills[o])]
      /\ EventTotals = [o \in OrderIds |-> SumSet(events[o])]
      /\ FillTotals' = [o \in OrderIds |-> SumSet(fills'[o])]
      /\ EventTotals' = [o \in OrderIds |-> SumSet(events'[o])]
      /\ delta \in 0 .. Qty /\ Qty \in Nat
  BY TotalsType, PlacedOnFinite, SumType, ConstantsAssumption
  DEF BracketInv, TypeInv, TypeOK, ConstantsAssumption
<1>1. ASSUME NEW o \in OrderIds, SubmitOrder(o) \/ SubmitReplyLost(o)
      PROVE  /\ E1 + Pending(s, "event")' <= position'[s]
             /\ position'[s] + Pending(s, "position")' <= F1
  <2>1. /\ bstate[o] = "NONE" /\ bstate' = [bstate EXCEPT ![o] = "OPEN"]
        /\ intent' = [intent EXCEPT ![o] = want]
        /\ UNCHANGED <<fills, events, position>>
        /\ pc = "submit" /\ pc' \in {"record", "handler"}
    BY <1>1 DEF SubmitOrder, SubmitReplyLost, BrokerTakes
  <2>2. on' \in {on, on \cup {o}}
    BY <2>1 DEF PlacedOn, TypeInv, TypeOK
  <2>3. FillTotals' = FillTotals /\ EventTotals' = EventTotals
    BY <2>1 DEF FillTotals, EventTotals
  <2>4. FillTotals[o] = 0 /\ EventTotals[o] = 0
    BY <2>1, SumSetEmpty DEF FillTotals, EventTotals, LedgerRows
  <2>5. F1 = F /\ E1 = E
    <3>1. IsFiniteSet(on \cup {o}) /\ on \in SUBSET (on \cup {o})
      BY <1>0, FS_AddElement
    <3>2. /\ \A x \in on \cup {o} : FillTotals[x] \in Int /\ EventTotals[x] \in Int
          /\ \A x \in (on \cup {o}) \ on : FillTotals[x] = 0 /\ EventTotals[x] = 0
      BY <1>0, <2>4
    <3> HIDE DEF on
    <3>3. /\ SumFunctionOnSet(FillTotals, on \cup {o}) = F
          /\ SumFunctionOnSet(EventTotals, on \cup {o}) = E
      BY <3>1, <3>2, SumZeros
    <3>4. QED
      BY <2>2, <2>3, <3>3
  <2> HIDE DEF F, E, F1, E1
  <2>6. QED
    BY <1>0, <2>1, <2>5 DEF Pending
<1>2. CASE EntersFill
  <2>1. cur \in OrderIds /\ bstate[cur] # "NONE" /\ intent[cur] = want
    BY <1>2 DEF EntersFill, TypeInv, RunMemory, OrderPoints, LedgerRows
  <2>2. on' = on /\ EventTotals' = EventTotals
    BY <1>2 DEF EntersFill, PlacedOn, EventTotals
  <2>3. \A o \in OrderIds : o # cur => FillTotals'[o] = FillTotals[o]
    BY <1>2 DEF EntersFill, TypeInv, TypeOK, FillTotals
  <2>4. FillTotals'[cur] = delta' + FillTotals[cur] /\ delta' \in Nat
    <3>1. fills[cur] \in SUBSET (1 .. Qty) /\ delta' \in 1 .. Qty /\ delta' \notin fills[cur]
      BY <1>2, <2>1 DEF EntersFill, TypeInv, TypeOK
    <3>2. IsFiniteSet(fills[cur])
      <4>1. IsFiniteSet(1 .. Qty)
        BY <1>0, FS_Interval
      <4>2. QED
        BY <3>1, <4>1, FS_Subset
    <3>3. SumSet(fills[cur] \cup {delta'}) = delta' + SumSet(fills[cur])
      BY <1>0, <3>1, <3>2, SumSetAdd
    <3>4. fills'[cur] = fills[cur] \cup {delta'}
      BY <1>2, <2>1 DEF EntersFill, TypeInv, TypeOK
    <3>5. FillTotals'[cur] = SumSet(fills'[cur]) /\ FillTotals[cur] = SumSet(fills[cur])
      BY <1>0, <2>1
    <3>6. QED
      BY <1>0, <3>1, <3>3, <3>4, <3>5
  <2>5. E1 = E
    BY <2>2
  <2>6. F1 = F + (IF want.symbol = s THEN delta' ELSE 0)
    <3>1. \A o \in OrderIds : FillTotals'[o] \in Int
      BY <1>0, <2>3, <2>4
    <3>2. CASE want.symbol = s
      <4>1. cur \in on
        BY <2>1, <3>2 DEF PlacedOn
      <4>2. F1 = F + (FillTotals'[cur] - FillTotals[cur])
        <5>1. /\ IsFiniteSet(on)
              /\ \A y \in on : FillTotals[y] \in Int /\ FillTotals'[y] \in Int
              /\ \A y \in on \ {cur} : FillTotals[y] = FillTotals'[y]
          BY <1>0, <2>3, <3>1
        <5> HIDE DEF on
        <5>2. SumFunctionOnSet(FillTotals', on)
              = SumFunctionOnSet(FillTotals, on) + (FillTotals'[cur] - FillTotals[cur])
          BY <4>1, <5>1, SumChange
        <5>3. QED
          BY <2>2, <5>2
      <4> HIDE DEF F, F1, on
      <4>3. QED
        BY <1>0, <2>1, <2>4, <3>2, <4>2
    <3>3. CASE want.symbol # s
      <4>1. cur \notin on
        BY <2>1, <3>3 DEF PlacedOn
      <4>2. \A y \in on : FillTotals[y] = FillTotals'[y]
        BY <1>0, <2>3, <4>1
      <4>3. F1 = F
        <5> HIDE DEF on
        <5>1. QED
          BY <1>0, <2>2, <4>2, SumSame
      <4> HIDE DEF F, F1, on
      <4>4. QED
        BY <1>0, <3>3, <4>3
    <3>4. QED
      BY <3>2, <3>3
  <2> HIDE DEF F, E, F1, E1, on
  <2>7. /\ Pending(s, "event") = 0 /\ Pending(s, "event")' = 0 /\ Pending(s, "position") = 0
        /\ Pending(s, "position")' = IF want.symbol = s THEN delta' ELSE 0
        /\ position'[s] = position[s]
    BY <1>2 DEF EntersFill, Pending
  <2>8. QED
    BY <1>0, <2>4, <2>5, <2>6, <2>7 DEF F, E, F1, E1, on
<1>3. CASE UpdatePosition
  <2>1. F1 = F /\ E1 = E
    BY <1>3 DEF UpdatePosition, FillTotals, EventTotals, PlacedOn, brokerVars
  <2> HIDE DEF F, E, F1, E1, on
  <2>2. want \in Intents /\ want.side = "BUY"
    BY <1>3 DEF UpdatePosition, TypeInv, RunMemory, Intents
  <2>3. position'[s] = position[s] + (IF want.symbol = s THEN delta ELSE 0)
    BY <1>0, <1>3, <2>2 DEF UpdatePosition, ApplyFill, TypeInv, TypeOK
  <2>4. /\ Pending(s, "event") = 0 /\ Pending(s, "position")' = 0
        /\ Pending(s, "position") = IF want.symbol = s THEN delta ELSE 0
        /\ Pending(s, "event")' = IF want.symbol = s THEN delta ELSE 0
    BY <1>3 DEF UpdatePosition, Pending
  <2>5. QED
    BY <1>0, <2>1, <2>3, <2>4 DEF F, E, F1, E1, on
<1>4. CASE RecordPositionEvent
  <2>1. cur \in OrderIds /\ bstate[cur] # "NONE" /\ intent[cur] = want
    BY <1>4 DEF RecordPositionEvent, TypeInv, RunMemory, OrderPoints, LedgerRows
  <2>2. on' = on /\ FillTotals' = FillTotals
    BY <1>4 DEF RecordPositionEvent, PlacedOn, FillTotals, brokerVars
  <2>3. \A o \in OrderIds : o # cur => EventTotals'[o] = EventTotals[o]
    BY <1>4 DEF RecordPositionEvent, TypeInv, TypeOK, EventTotals
  <2>4. EventTotals'[cur] \in {EventTotals[cur], delta + EventTotals[cur]}
    <3>1. events[cur] \in SUBSET (1 .. Qty) /\ delta \in 1 .. Qty
      BY <1>0, <1>4, <2>1 DEF RecordPositionEvent, TypeInv, TypeOK, RunMemory
    <3>2. IsFiniteSet(events[cur])
      <4>1. IsFiniteSet(1 .. Qty)
        BY <1>0, FS_Interval
      <4>2. QED
        BY <3>1, <4>1, FS_Subset
    <3>3. delta \notin events[cur] => SumSet(events[cur] \cup {delta}) = delta + SumSet(events[cur])
      BY <1>0, <3>1, <3>2, SumSetAdd
    <3>4. delta \in events[cur] => events[cur] \cup {delta} = events[cur]
      OBVIOUS
    <3>5. events'[cur] = events[cur] \cup {delta}
      BY <1>4, <2>1 DEF RecordPositionEvent, TypeInv, TypeOK
    <3>6. QED
      BY <1>0, <2>1, <3>1, <3>3, <3>4, <3>5
  <2>5. F1 = F
    BY <2>2
  <2>6. E1 <= E + (IF want.symbol = s THEN delta ELSE 0)
    <3>1. \A o \in OrderIds : EventTotals'[o] \in Int
      BY <1>0, <2>3, <2>4
    <3>2. CASE want.symbol = s
      <4>1. cur \in on
        BY <2>1, <3>2 DEF PlacedOn
      <4>2. E1 = E + (EventTotals'[cur] - EventTotals[cur])
        <5>1. /\ IsFiniteSet(on)
              /\ \A y \in on : EventTotals[y] \in Int /\ EventTotals'[y] \in Int
              /\ \A y \in on \ {cur} : EventTotals[y] = EventTotals'[y]
          BY <1>0, <2>3, <3>1
        <5> HIDE DEF on
        <5>2. SumFunctionOnSet(EventTotals', on)
              = SumFunctionOnSet(EventTotals, on) + (EventTotals'[cur] - EventTotals[cur])
          BY <4>1, <5>1, SumChange
        <5>3. QED
          BY <2>2, <5>2
      <4> HIDE DEF E, E1, on
      <4>3. QED
        BY <1>0, <2>1, <2>4, <3>2, <4>2
    <3>3. CASE want.symbol # s
      <4>1. cur \notin on
        BY <2>1, <3>3 DEF PlacedOn
      <4>2. \A y \in on : EventTotals[y] = EventTotals'[y]
        BY <1>0, <2>3, <4>1
      <4>3. E1 = E
        <5> HIDE DEF on
        <5>1. QED
          BY <1>0, <2>2, <4>2, SumSame
      <4> HIDE DEF E, E1, on
      <4>4. QED
        BY <1>0, <3>3, <4>3
    <3>4. QED
      BY <3>2, <3>3
  <2>7. E1 \in Int
    <3>1. \A o \in on : EventTotals'[o] \in Int
      BY <1>0, <2>3, <2>4
    <3> HIDE DEF on
    <3>2. QED
      BY <1>0, <2>2, <3>1, SumType
  <2> HIDE DEF F, E, F1, E1, on
  <2>8. /\ Pending(s, "position") = 0 /\ Pending(s, "position")' = 0 /\ Pending(s, "event")' = 0
        /\ Pending(s, "event") = IF want.symbol = s THEN delta ELSE 0
        /\ position'[s] = position[s]
    BY <1>4 DEF RecordPositionEvent, Pending
  <2>9. QED
    BY <1>0, <2>5, <2>6, <2>7, <2>8 DEF F, E, F1, E1, on
<1>5. CASE LeavesLedger
  <2>1. F1 = F /\ E1 = E /\ position'[s] = position[s]
    BY <1>5 DEF LeavesLedger, FillTotals, EventTotals, PlacedOn
  <2> HIDE DEF F, E, F1, E1, on
  <2>2. /\ Pending(s, "event")' \in {0, Pending(s, "event")}
        /\ Pending(s, "position")' \in {0, Pending(s, "position")}
        /\ Pending(s, "event") \in Nat /\ Pending(s, "position") \in Nat
    BY <1>0, <1>5 DEF LeavesLedger, Pending, OrderPoints
  <2>3. QED
    BY <1>0, <2>1, <2>2 DEF F, E, F1, E1, on
<1>6. QED
  BY <1>1, <1>2, <1>3, <1>4, <1>5, LedgerEffect

\* Buys only, under every fault: crashes, exceptions, lost replies, failed or
\* unreadable views, changes of day and late executions.  What is recorded as
\* events is never ahead of the position, nor the position ahead of the fill rows
\* (_apply_broker_fill_correction writes them in this order).
THEOREM LedgerBracketCorrect ==
  ASSUME Sides = {"BUY"} PROVE Spec => []LedgerBracket
<1> DEFINE Inv == LedgerRows /\ BracketInv
<1>1. Init => TypeInv
  BY ConstantsAssumption
  DEF Init, TypeInv, TypeOK, RunMemory, OrderPoints, Points, TryPoints, RunResults, Callers,
      Terminal, OrderStatuses, BrokerStates, ConstantsAssumption
<1>2. Init => Inv
  <2> SUFFICES ASSUME Init PROVE Inv
    OBVIOUS
  <2>1. \A s : PlacedOn(s) = {} /\ { o \in OrderIds : bstate[o] # "NONE" } = {}
    BY DEF Init, PlacedOn
  <2>2. LedgerRows
    BY <2>1, FS_EmptySet, SumSetEmpty DEF Init, LedgerRows, OrderPoints
  <2>3. BracketInv
    BY <2>1, SumEmpty DEF Init, BracketInv, Pending
  <2>4. QED
    BY <2>2, <2>3
<1>3. TypeInv /\ Inv /\ [Next]_vars => TypeInv' /\ Inv'
  BY TypeStep, LedgerRowsStep, BracketStep, ConstantsAssumption
<1>4. TypeInv /\ Inv => LedgerBracket
  <2> SUFFICES ASSUME TypeInv, Inv, NEW s \in Symbols
               PROVE  /\ SumFunctionOnSet(EventTotals, BookedIds(s)) <= position[s]
                      /\ position[s] <= SumFunctionOnSet(FillTotals, BookedIds(s))
    BY DEF LedgerBracket
  <2>1. BookedIds(s) \in SUBSET PlacedOn(s)
    BY DEF BookedIds, PlacedOn, LedgerRows
  <2>2. \A o \in PlacedOn(s) \ BookedIds(s) : FillTotals[o] = 0 /\ EventTotals[o] = 0
    BY SumSetEmpty DEF BookedIds, PlacedOn, LedgerRows, FillTotals, EventTotals
  <2>3. /\ IsFiniteSet(PlacedOn(s))
        /\ \A o \in PlacedOn(s) : FillTotals[o] \in Int /\ EventTotals[o] \in Int
    BY TotalsType, PlacedOnFinite
  <2>4. /\ SumFunctionOnSet(EventTotals, BookedIds(s)) = SumFunctionOnSet(EventTotals, PlacedOn(s))
        /\ SumFunctionOnSet(FillTotals, BookedIds(s)) = SumFunctionOnSet(FillTotals, PlacedOn(s))
    BY <2>1, <2>2, <2>3, SumZeros
  <2>5. /\ SumFunctionOnSet(EventTotals, PlacedOn(s)) \in Int
        /\ SumFunctionOnSet(FillTotals, PlacedOn(s)) \in Int
        /\ Pending(s, "event") \in Nat /\ Pending(s, "position") \in Nat /\ position[s] \in Nat
    BY <2>3, SumType, ConstantsAssumption DEF Pending, TypeInv, TypeOK, ConstantsAssumption
  <2>6. QED
    BY <2>4, <2>5 DEF BracketInv
<1> HIDE DEF Inv
<1>5. QED
  BY <1>1, <1>2, <1>3, <1>4, PTL DEF Spec

-----------------------------------------------------------------------------
(* The position is the ledger *)

\* With nothing but lost replies, the other orders on the run's symbol are booked
\* and off the book from the reconciliation until the end of the run.
Orderly == faults \subseteq {"lostReply"}

OthersSettled ==
  /\ \A o \in OrderIds : bstate[o] # "NONE" => btoday[o]
  /\ \A o \in OrderIds : o # cur => status[o] \notin LocalOpenStatuses
  /\ pc \in {"price", "submit"} \cup OrderPoints =>
       \A p \in PlacedOn(want.symbol) :
         p # cur => booked[p] = bfilled[p] /\ bstate[p] # "OPEN"

\* What the reconciliation establishes lasts until the end of the run.
LEMMA OthersSettledStep ==
  ASSUME Qty = 1, Orderly, OneShareInv, GateInv, OrderPhase, OthersSettled, [Next]_vars
  PROVE  OthersSettled'
<1> USE DEF OneShareInv
<1>0. /\ cur \in OrderIds \cup {None} /\ None \notin OrderIds
      /\ pc \in OrderPoints => cur \in OrderIds
  BY ConstantsAssumption DEF TypeInv, TypeOK, RunMemory, ConstantsAssumption
<1>1. ASSUME UNCHANGED <<intent, want, cur, btoday>>,
             \A o \in OrderIds : /\ bstate'[o] = "NONE" <=> bstate[o] = "NONE"
                                 /\ bstate'[o] = "OPEN" => bstate[o] = "OPEN",
             \A o \in OrderIds : o # cur => status'[o] = status[o] /\ booked'[o] = booked[o]
                                             /\ bfilled'[o] = bfilled[o],
             pc' \in {"price", "submit"} \cup OrderPoints =>
               pc \in {"price", "submit"} \cup OrderPoints
      PROVE  OthersSettled'
  BY <1>1 DEF OthersSettled, PlacedOn
<1>2. ASSUME NEW v \in Views, CheckReconciliation(v) PROVE OthersSettled'
  <2>1. UNCHANGED <<cur, want, status, intent, booked, bstate, bfilled, btoday>>
    BY <1>2 DEF CheckReconciliation, storeVars, brokerVars
  <2>2. CASE pc' = "finish"
    BY <2>1, <2>2 DEF OthersSettled, OrderPoints
  <2>3. CASE pc' # "finish"
    <3>1. ~Verdict(want.symbol, v).block_new_orders /\ cur = None /\ pc = "recon"
      BY <1>2, <2>3 DEF CheckReconciliation, OrderPhase
    <3>2. CompleteViews
      BY DEF Orderly, CompleteViews
    <3>3. ASSUME NEW p \in PlacedOn(want.symbol)
          PROVE  booked[p] = bfilled[p] /\ bstate[p] # "OPEN"
      <4>1. p \in TodayOf(want.symbol) /\ p \in OrderIds /\ intent[p].symbol = want.symbol
        BY <3>3 DEF PlacedOn, TodayOf, OthersSettled
      <4>2. booked[p] = bfilled[p]
        BY <3>1, <3>2, <4>1, ReconciliationSeesFills
      <4>3. status[p] \notin LocalOpenStatuses
        BY <1>0, <3>1, <4>1 DEF OthersSettled
      <4>4. QED
        BY <3>1, <3>2, <4>1, <4>2, <4>3, ReconciliationSeesLiveOrders DEF GateInv
    <3>4. QED
      BY <2>1, <3>3 DEF OthersSettled, PlacedOn
  <2>4. QED
    BY <2>2, <2>3
<1>3. ASSUME NEW o \in OrderIds, SubmitOrder(o) PROVE OthersSettled'
  <2>1. /\ pc = "submit" /\ cur = None /\ cur' = o
        /\ bstate' = [bstate EXCEPT ![o] = "OPEN"] /\ btoday' = [btoday EXCEPT ![o] = TRUE]
        /\ intent' = [intent EXCEPT ![o] = want]
        /\ UNCHANGED <<want, status, booked, bfilled>>
    BY <1>3 DEF SubmitOrder, BrokerTakes, OrderPhase
  <2>2. QED
    BY <1>0, <2>1 DEF OthersSettled, PlacedOn, TypeInv, TypeOK
<1>4. ASSUME NEW o \in OrderIds, SubmitReplyLost(o) PROVE OthersSettled'
  <2>1. /\ pc' = "handler" /\ UNCHANGED <<cur, status>>
        /\ bstate' = [bstate EXCEPT ![o] = "OPEN"] /\ btoday' = [btoday EXCEPT ![o] = TRUE]
    BY <1>4 DEF SubmitReplyLost, BrokerTakes
  <2>2. QED
    BY <2>1 DEF OthersSettled, OrderPoints, TypeInv, TypeOK
<1>5. CASE Submission
  <2>1. CASE CheckIntent
    BY <1>1, <2>1 DEF CheckIntent, storeVars, brokerVars
  <2>2. CASE SubmitRefused
    BY <1>1, <2>2 DEF SubmitRefused, OrderPoints, storeVars, brokerVars
  <2>3. CASE RecordOrder
    <3>1. \A o \in OrderIds : o # cur => status'[o] = status[o]
      BY <2>3 DEF RecordOrder, TypeInv, TypeOK
    <3>2. UNCHANGED <<intent, want, cur, btoday, bstate, booked, bfilled>> /\ pc \in OrderPoints
      BY <2>3 DEF RecordOrder, OrderPoints, brokerVars
    <3>3. QED
      BY <1>1, <3>1, <3>2
  <2>4. ASSUME NEW i \in Intents, StartRun(i) PROVE OthersSettled'
    BY <2>4 DEF StartRun, OthersSettled, OrderPoints, brokerVars
  <2>5. QED
    BY <1>2, <1>3, <1>4, <1>5, <2>1, <2>2, <2>3, <2>4 DEF Submission
<1>6. CASE Booking
  <2>1. ASSUME NEW v \in Views, CorrectFills(v) PROVE OthersSettled'
    <3>1. \A o \in OrderIds : o # cur => booked'[o] = booked[o]
      BY <2>1 DEF CorrectFills, TypeInv, TypeOK
    <3>2. UNCHANGED <<intent, want, cur, btoday, bstate, status, bfilled>> /\ pc \in OrderPoints
      BY <2>1 DEF CorrectFills, OrderPoints, brokerVars
    <3>3. QED
      BY <1>1, <3>1, <3>2
  <2>2. CASE \/ \E v \in Views : Poll(v)
             \/ RecordFilled \/ UpdatePosition \/ RecordPositionEvent \/ Settle \/ Announce
    <3>1. \A o \in OrderIds : o # cur => status'[o] = status[o]
      BY <2>2 DEF Poll, RecordFilled, UpdatePosition, RecordPositionEvent, Settle, Announce,
        UpdateStatus, storeVars, TypeInv, TypeOK
    <3>2. UNCHANGED <<intent, want, cur, btoday, bstate, booked, bfilled>> /\ pc \in OrderPoints
      BY <2>2 DEF Poll, RecordFilled, UpdatePosition, RecordPositionEvent, Settle, Announce,
        OrderPoints, storeVars, brokerVars
    <3>3. QED
      BY <1>1, <3>1, <3>2
  <2>3. QED
    BY <1>6, <2>1, <2>2 DEF Booking
<1>7. CASE CancelLoop
  <2>1. \A o \in OrderIds : o # cur => status'[o] = status[o] /\ bstate'[o] = bstate[o]
    BY <1>7 DEF CancelLoop, RequestCancelLocally, CancelGivesUp, CancelPoll, CancelAccepted,
      CancelFails, CancelReplyLost, SaveCancelOutcome, AfterCancelLoop, UpdateStatus, storeVars,
      brokerVars, TypeInv, TypeOK
  <2>2. /\ bstate'[cur] = "NONE" <=> bstate[cur] = "NONE"
        /\ bstate'[cur] = "OPEN" => bstate[cur] = "OPEN"
    BY <1>7, <1>0 DEF CancelLoop, RequestCancelLocally, CancelGivesUp, CancelPoll, CancelAccepted,
      CancelFails, CancelReplyLost, SaveCancelOutcome, AfterCancelLoop, brokerVars, TypeInv,
      TypeOK, OrderPoints
  <2>3. UNCHANGED <<intent, want, cur, btoday, booked, bfilled>> /\ pc \in OrderPoints
    BY <1>7 DEF CancelLoop, RequestCancelLocally, CancelGivesUp, CancelPoll, CancelAccepted,
      CancelFails, CancelReplyLost, SaveCancelOutcome, AfterCancelLoop, OrderPoints, storeVars,
      brokerVars
  <2>4. QED
    BY <1>1, <2>1, <2>2, <2>3
<1>8. CASE HandleException
  <2>1. \A o \in OrderIds : o # cur => status'[o] = status[o]
    BY <1>8 DEF HandleException, UpdateStatus, TypeInv, TypeOK
  <2>2. UNCHANGED <<intent, want, cur, btoday, bstate, booked, bfilled>> /\ pc' = "finish"
    BY <1>8 DEF HandleException, brokerVars
  <2>3. QED
    BY <1>1, <2>1, <2>2 DEF OrderPoints
<1>9. CASE FinishRun
  <2>1. cur # None => status[cur] \notin LocalOpenStatuses
    BY <1>9 DEF FinishRun, OrderPhase, LocalOpenStatuses
  <2>2. UNCHANGED <<status, bstate, btoday>> /\ pc' = "idle"
    BY <1>9 DEF FinishRun, brokerVars
  <2>3. QED
    BY <1>0, <2>1, <2>2 DEF OthersSettled, OrderPoints
<1>10. ASSUME NEW o \in OrderIds, NEW q \in 1 .. Qty, BrokerFills(o, q) PROVE OthersSettled'
  <2>1. /\ bstate[o] = "OPEN" /\ bstate'[o] \in {"OPEN", "FILLED"}
        /\ UNCHANGED <<pc, cur, want, status, intent, booked, btoday>>
    BY <1>10 DEF BrokerFills, procVars, storeVars, Orderly, TypeInv, TypeOK
  <2>2. \A p \in OrderIds : p # o => bfilled'[p] = bfilled[p] /\ bstate'[p] = bstate[p]
    BY <1>10 DEF BrokerFills, TypeInv, TypeOK
  <2>3. QED
    BY <2>1, <2>2 DEF OthersSettled, PlacedOn
<1>11. ASSUME NEW o \in OrderIds, NEW final \in {"CANCELLED", "REJECTED", "FAILED"},
              BrokerCloses(o, final)
       PROVE  OthersSettled'
  <2>1. \A p \in OrderIds : /\ bstate'[p] = "NONE" <=> bstate[p] = "NONE"
                            /\ bstate'[p] = "OPEN" => bstate[p] = "OPEN"
    BY <1>11 DEF BrokerCloses, TypeInv, TypeOK
  <2>2. QED
    BY <1>1, <1>11, <2>1 DEF BrokerCloses, procVars, storeVars
<1>12. CASE CallRaises \/ Crash \/ NewDay
  BY <1>12 DEF CallRaises, Crash, NewDay, Orderly
<1>13. CASE UNCHANGED vars
  BY <1>1, <1>13 DEF vars
<1>14. QED
  BY <1>5, <1>6, <1>7, <1>8, <1>9, <1>10, <1>11, <1>12, <1>13 DEF Next, Program, Closing, Broker

\* The shares bought less the shares sold on s, f being the shares of each order.
SidesOn(s, side) ==
  { o \in OrderIds : bstate[o] # "NONE" /\ intent[o].symbol = s /\ intent[o].side = side }

Net(f, s) ==
  SumFunctionOnSet(f, SidesOn(s, "BUY")) - SumFunctionOnSet(f, SidesOn(s, "SELL"))

\* The orders of one side are finitely many.
LEMMA SidesOnFinite ==
  ASSUME LedgerRows, NEW s, NEW side
  PROVE  IsFiniteSet(SidesOn(s, side)) /\ SidesOn(s, side) \subseteq OrderIds
<1>1. SidesOn(s, side) \subseteq { o \in OrderIds : bstate[o] # "NONE" }
  BY DEF SidesOn
<1>2. QED
  BY <1>1, FS_Subset DEF LedgerRows, SidesOn

\* A net of integers is an integer.
LEMMA NetType ==
  ASSUME LedgerRows, NEW s, NEW f, \A o \in OrderIds : f[o] \in Int
  PROVE  Net(f, s) \in Int
<1>1. ASSUME NEW side PROVE SumFunctionOnSet(f, SidesOn(s, side)) \in Int
  BY SidesOnFinite, SumType
<1>2. QED
  BY <1>1 DEF Net

\* The net depends on the orders of the symbol only.
LEMMA NetSame ==
  ASSUME LedgerRows, NEW s, NEW f, NEW g, \A o \in PlacedOn(s) : f[o] = g[o]
  PROVE  Net(f, s) = Net(g, s)
<1>1. ASSUME NEW side
      PROVE  SumFunctionOnSet(f, SidesOn(s, side)) = SumFunctionOnSet(g, SidesOn(s, side))
  <2>1. \A o \in SidesOn(s, side) : f[o] = g[o]
    BY DEF SidesOn, PlacedOn
  <2>2. QED
    BY <2>1, SidesOnFinite, SumSame
<1>2. QED
  BY <1>1 DEF Net

\* A change at one order of the symbol.
LEMMA NetChange ==
  ASSUME LedgerRows, NEW s, NEW f, NEW g, NEW x \in PlacedOn(s),
         intent[x].side \in {"BUY", "SELL"},
         \A o \in OrderIds : f[o] \in Int /\ g[o] \in Int,
         \A o \in OrderIds \ {x} : f[o] = g[o]
  PROVE  Net(g, s) = Net(f, s) + (IF intent[x].side = "BUY" THEN g[x] - f[x] ELSE f[x] - g[x])
<1> DEFINE Part(h, side) == SumFunctionOnSet(h, SidesOn(s, side))
<1>1. ASSUME NEW side
      PROVE  /\ Part(f, side) \in Int
             /\ intent[x].side = side => Part(g, side) = Part(f, side) + (g[x] - f[x])
             /\ intent[x].side # side => Part(g, side) = Part(f, side)
  <2>1. /\ IsFiniteSet(SidesOn(s, side))
        /\ \A o \in SidesOn(s, side) : f[o] \in Int /\ g[o] \in Int
        /\ \A o \in SidesOn(s, side) \ {x} : f[o] = g[o]
    BY SidesOnFinite
  <2>2. Part(f, side) \in Int
    BY <2>1, SumType
  <2>3. ASSUME intent[x].side = side PROVE Part(g, side) = Part(f, side) + (g[x] - f[x])
    <3>1. x \in SidesOn(s, side)
      BY <2>3 DEF SidesOn, PlacedOn
    <3>2. QED
      BY ONLY <2>1, <3>1, SumChange
  <2>4. ASSUME intent[x].side # side PROVE Part(g, side) = Part(f, side)
    <3>1. \A o \in SidesOn(s, side) : f[o] = g[o]
      BY <2>1, <2>4 DEF SidesOn
    <3>2. QED
      BY <2>1, <3>1, SumSame
  <2>5. QED
    BY <2>2, <2>3, <2>4
<1>2. Net(f, s) = Part(f, "BUY") - Part(f, "SELL") /\ Net(g, s) = Part(g, "BUY") - Part(g, "SELL")
  BY DEF Net
<1>3. x \in OrderIds /\ f[x] \in Int /\ g[x] \in Int
  BY DEF PlacedOn
<1> HIDE DEF Part
<1>4. QED
  BY <1>1, <1>2, <1>3

\* An order that goes out with no share on it changes no sum.
LEMMA NetPlaced ==
  ASSUME TypeInv, LedgerRows, NEW s, NEW o \in OrderIds, bstate[o] = "NONE",
         bstate' = [bstate EXCEPT ![o] = "OPEN"], intent' = [intent EXCEPT ![o] = want],
         NEW f, \A x \in OrderIds : f[x] \in Int, f[o] = 0
  PROVE  SumFunctionOnSet(f, SidesOn(s, "BUY")') - SumFunctionOnSet(f, SidesOn(s, "SELL")')
           = Net(f, s)
<1>1. ASSUME NEW side
      PROVE  SumFunctionOnSet(f, SidesOn(s, side)') = SumFunctionOnSet(f, SidesOn(s, side))
  <2> DEFINE T == SidesOn(s, side)
  <2>1. T' \in {T, T \cup {o}}
    BY DEF SidesOn, TypeInv, TypeOK
  <2>2. /\ IsFiniteSet(T \cup {o}) /\ T \in SUBSET (T \cup {o})
        /\ \A x \in T \cup {o} : f[x] \in Int
        /\ \A x \in (T \cup {o}) \ T : f[x] = 0
    BY SidesOnFinite, FS_AddElement
  <2> HIDE DEF T
  <2>3. SumFunctionOnSet(f, T \cup {o}) = SumFunctionOnSet(f, T)
    BY ONLY <2>2, SumZeros
  <2>4. QED
    BY <2>1, <2>3 DEF T
<1>2. QED
  BY <1>1 DEF Net

\* The account is never short.
NotShort == \A s \in Symbols : Net(bfilled, s) >= 0

\* No step makes the account short: the broker refuses to execute such a SELL.
LEMMA NotShortStep ==
  ASSUME TypeInv, ExecutedPlaced, LedgerRows, NotShort, [Next]_vars
  PROVE  NotShort'
<1> SUFFICES ASSUME NEW s \in Symbols
             PROVE  SumFunctionOnSet(bfilled', SidesOn(s, "BUY")')
                      - SumFunctionOnSet(bfilled', SidesOn(s, "SELL")') >= 0
  BY DEF NotShort, Net
<1>0. /\ Net(bfilled, s) >= 0 /\ Net(bfilled, s) \in Int
      /\ \A o \in OrderIds : bfilled[o] \in Int
  BY NetType, ConstantsAssumption DEF NotShort, TypeInv, TypeOK, ConstantsAssumption
<1>1. ASSUME NEW o \in OrderIds, SubmitOrder(o) \/ SubmitReplyLost(o)
      PROVE  SumFunctionOnSet(bfilled', SidesOn(s, "BUY")')
               - SumFunctionOnSet(bfilled', SidesOn(s, "SELL")') >= 0
  <2>1. /\ bstate[o] = "NONE" /\ bstate' = [bstate EXCEPT ![o] = "OPEN"]
        /\ intent' = [intent EXCEPT ![o] = want] /\ bfilled' = bfilled
    BY <1>1 DEF SubmitOrder, SubmitReplyLost, BrokerTakes
  <2>2. bfilled[o] = 0
    BY <2>1 DEF ExecutedPlaced
  <2>3. SumFunctionOnSet(bfilled, SidesOn(s, "BUY")')
          - SumFunctionOnSet(bfilled, SidesOn(s, "SELL")') = Net(bfilled, s)
    BY <1>0, <2>1, <2>2, NetPlaced
  <2>4. QED
    BY <1>0, <2>1, <2>3
<1>2. ASSUME bfilled' = bfilled, \A side : SidesOn(s, side)' = SidesOn(s, side)
      PROVE  SumFunctionOnSet(bfilled', SidesOn(s, "BUY")')
               - SumFunctionOnSet(bfilled', SidesOn(s, "SELL")') >= 0
  BY <1>0, <1>2 DEF Net
<1>3. ASSUME LeavesLedger PROVE \A side : SidesOn(s, side)' = SidesOn(s, side)
  BY <1>3 DEF LeavesLedger, SidesOn
<1>4. CASE EntersFill \/ UpdatePosition \/ RecordPositionEvent
  <2>1. UNCHANGED <<bfilled, bstate, intent>>
    BY <1>4 DEF EntersFill, UpdatePosition, RecordPositionEvent, brokerVars
  <2>2. QED
    BY <1>2, <2>1 DEF SidesOn
<1>5. ASSUME LeavesLedger, NEW o \in OrderIds, NEW q \in 1 .. Qty, BrokerFills(o, q)
      PROVE  SumFunctionOnSet(bfilled', SidesOn(s, "BUY")')
               - SumFunctionOnSet(bfilled', SidesOn(s, "SELL")') >= 0
  <2>1. bstate[o] # "NONE" /\ intent[o] \in Intents
    BY <1>5 DEF BrokerFills, LedgerRows
  <2>2. /\ bfilled'[o] = bfilled[o] + q /\ q \in Nat
        /\ \A x \in OrderIds : bfilled'[x] \in Int
        /\ \A x \in OrderIds \ {o} : bfilled[x] = bfilled'[x]
    BY <1>0, <1>5, ConstantsAssumption DEF BrokerFills, TypeInv, TypeOK, ConstantsAssumption
  <2>3. intent[o].side = "SELL" => q <= Net(bfilled, intent[o].symbol)
    BY <1>5 DEF BrokerFills, Held, Net, SidesOn
  <2>4. intent[o].side \in {"BUY", "SELL"}
    BY <2>1, ConstantsAssumption DEF Intents, ConstantsAssumption
  <2>5. Net(bfilled', s) >= 0
    <3>1. CASE intent[o].symbol = s
      <4>1. o \in PlacedOn(s)
        BY <2>1, <3>1 DEF PlacedOn
      <4>2. Net(bfilled', s) = Net(bfilled, s)
              + (IF intent[o].side = "BUY" THEN bfilled'[o] - bfilled[o]
                 ELSE bfilled[o] - bfilled'[o])
        BY <1>0, <2>2, <2>4, <4>1, NetChange
      <4>3. QED
        BY <1>0, <2>2, <2>3, <2>4, <3>1, <4>2
    <3>2. CASE intent[o].symbol # s
      <4>1. \A x \in PlacedOn(s) : bfilled[x] = bfilled'[x]
        BY <2>2, <3>2 DEF PlacedOn
      <4>2. Net(bfilled, s) = Net(bfilled', s)
        BY <4>1, NetSame
      <4>3. QED
        BY <1>0, <4>2
    <3>3. QED
      BY <3>1, <3>2
  <2>6. QED
    BY <1>3, <1>5, <2>5 DEF Net
<1>6. ASSUME LeavesLedger, ~ \E o \in OrderIds, q \in 1 .. Qty : BrokerFills(o, q)
      PROVE  bfilled' = bfilled \/ (\E o \in OrderIds : SubmitOrder(o) \/ SubmitReplyLost(o))
  <2>1. CASE Submission
    BY <2>1 DEF Submission, StartRun, CheckReconciliation, CheckIntent, SubmitRefused, RecordOrder,
      brokerVars
  <2>2. CASE Booking
    BY <2>2 DEF Booking, Poll, RecordFilled, CorrectFills, UpdatePosition, RecordPositionEvent,
      Settle, Announce, brokerVars
  <2>3. CASE CancelLoop
    BY <2>3 DEF CancelLoop, RequestCancelLocally, CancelGivesUp, CancelPoll, CancelAccepted,
      CancelFails, CancelReplyLost, SaveCancelOutcome, AfterCancelLoop, brokerVars
  <2>4. CASE Closing \/ CallRaises \/ Crash \/ UNCHANGED vars
    BY <2>4 DEF Closing, HandleException, FinishRun, CallRaises, Crash, brokerVars, vars
  <2>5. CASE Broker
    BY <1>6, <2>5 DEF Broker, BrokerCloses, NewDay
  <2>6. QED
    BY <2>1, <2>2, <2>3, <2>4, <2>5 DEF Next, Program
<1>7. QED
  BY <1>1, <1>2, <1>3, <1>4, <1>5, <1>6, LedgerEffect

\* The position is the net of what is booked, but for a correction that has
\* entered its fill row and not yet moved the position.
Outstanding(s) ==
  IF pc = "position" /\ want.symbol = s
  THEN IF want.side = "BUY" THEN delta ELSE -delta
  ELSE 0

PositionInv == \A s \in Symbols : position[s] + Outstanding(s) = Net(booked, s)

\* A SELL about to be taken off the position never meets the floor.
LEMMA PositionCovers ==
  ASSUME Qty = 1, OneShareInv, LedgerRows, NotShort, OthersSettled, pc = "position"
  PROVE  want.symbol \in Symbols /\ Net(booked, want.symbol) >= 0
<1>1. cur \in OrderIds /\ want \in Intents /\ delta \in fills[cur]
  BY DEF OneShareInv, TypeInv, RunMemory, OrderPoints, LedgerRows
<1>2. booked[cur] = bfilled[cur]
  BY <1>1 DEF OneShareInv, SharesMatch, NoOverBooking, TypeInv, TypeOK
<1>3. \A o \in PlacedOn(want.symbol) : booked[o] = bfilled[o]
  BY <1>2 DEF OthersSettled, OrderPoints
<1>4. Net(booked, want.symbol) = Net(bfilled, want.symbol)
  BY <1>3, NetSame
<1>5. QED
  BY <1>1, <1>4 DEF NotShort, Intents

\* With nothing but lost replies the position follows what is booked.
LEMMA PositionStep ==
  ASSUME Qty = 1, Orderly, OneShareInv, LedgerRows, NotShort, OthersSettled, PositionInv,
         [Next]_vars
  PROVE  PositionInv'
<1> USE DEF OneShareInv
<1> SUFFICES ASSUME NEW s \in Symbols
             PROVE  position'[s] + Outstanding(s)'
                      = SumFunctionOnSet(booked', SidesOn(s, "BUY")')
                        - SumFunctionOnSet(booked', SidesOn(s, "SELL")')
  BY DEF PositionInv, Net
<1>0. /\ position[s] + Outstanding(s) = Net(booked, s) /\ position[s] \in Nat
      /\ Net(booked, s) \in Int /\ delta \in 0 .. 1
      /\ \A o \in OrderIds : booked[o] \in Int
  BY NetType DEF PositionInv, TypeInv, TypeOK
<1>1. ASSUME NEW o \in OrderIds, SubmitOrder(o) \/ SubmitReplyLost(o)
      PROVE  position'[s] + Outstanding(s)'
               = SumFunctionOnSet(booked', SidesOn(s, "BUY")')
                 - SumFunctionOnSet(booked', SidesOn(s, "SELL")')
  <2>1. /\ bstate[o] = "NONE" /\ bstate' = [bstate EXCEPT ![o] = "OPEN"]
        /\ intent' = [intent EXCEPT ![o] = want]
        /\ booked' = booked /\ position' = position
        /\ pc = "submit" /\ pc' \in {"record", "handler"}
    BY <1>1 DEF SubmitOrder, SubmitReplyLost, BrokerTakes
  <2>2. booked[o] = 0
    BY <2>1 DEF LedgerRows, SharesMatch
  <2>3. SumFunctionOnSet(booked, SidesOn(s, "BUY")')
          - SumFunctionOnSet(booked, SidesOn(s, "SELL")') = Net(booked, s)
    BY <1>0, <2>1, <2>2, NetPlaced
  <2>4. Outstanding(s) = 0 /\ Outstanding(s)' = 0
    BY <2>1 DEF Outstanding
  <2>5. QED
    BY <1>0, <2>1, <2>3, <2>4
<1>2. ASSUME \A side : SidesOn(s, side)' = SidesOn(s, side),
             position'[s] + Outstanding(s)' = Net(booked', s)
      PROVE  position'[s] + Outstanding(s)'
               = SumFunctionOnSet(booked', SidesOn(s, "BUY")')
                 - SumFunctionOnSet(booked', SidesOn(s, "SELL")')
  BY <1>2 DEF Net
<1>3. CASE EntersFill
  <2>1. /\ cur \in OrderIds /\ bstate[cur] # "NONE" /\ intent[cur] = want /\ want \in Intents
        /\ want' = want /\ position' = position /\ delta' \in Nat
    BY <1>3 DEF EntersFill, TypeInv, RunMemory, OrderPoints, LedgerRows
  <2>2. \A side : SidesOn(s, side)' = SidesOn(s, side)
    BY <1>3 DEF EntersFill, SidesOn
  <2>3. /\ booked'[cur] = booked[cur] + delta'
        /\ \A o \in OrderIds : booked'[o] \in Int
        /\ \A o \in OrderIds \ {cur} : booked[o] = booked'[o]
    BY <1>0, <1>3, <2>1 DEF EntersFill, TypeInv, TypeOK
  <2>4. intent[cur].side \in {"BUY", "SELL"}
    BY <2>1, ConstantsAssumption DEF Intents, ConstantsAssumption
  <2>5. Outstanding(s) = 0
    BY <1>3 DEF EntersFill, Outstanding
  <2>6. Outstanding(s)' = IF want.symbol = s
                          THEN IF want.side = "BUY" THEN delta' ELSE -(delta') ELSE 0
    BY <1>3, <2>1 DEF EntersFill, Outstanding
  <2>7. position'[s] + Outstanding(s)' = Net(booked', s)
    <3>1. CASE want.symbol = s
      <4>1. cur \in PlacedOn(s)
        BY <2>1, <3>1 DEF PlacedOn
      <4>2. Net(booked', s) = Net(booked, s)
              + (IF intent[cur].side = "BUY" THEN booked'[cur] - booked[cur]
                 ELSE booked[cur] - booked'[cur])
        BY <1>0, <2>3, <2>4, <4>1, NetChange
      <4>3. QED
        BY <1>0, <2>1, <2>3, <2>4, <2>5, <2>6, <3>1, <4>2
    <3>2. CASE want.symbol # s
      <4>1. \A o \in PlacedOn(s) : booked[o] = booked'[o]
        BY <2>1, <2>3, <3>2 DEF PlacedOn
      <4>2. Net(booked, s) = Net(booked', s)
        BY <4>1, NetSame
      <4>3. QED
        BY <1>0, <2>1, <2>5, <2>6, <3>2, <4>2
    <3>3. QED
      BY <3>1, <3>2
  <2>8. QED
    BY <1>2, <2>2, <2>7
<1>4. CASE UpdatePosition
  <2>1. /\ pc = "position" /\ pc' = "event" /\ booked' = booked
        /\ want \in Intents /\ want.side \in {"BUY", "SELL"}
        /\ position' = [position EXCEPT ![want.symbol] = ApplyFill(@, want.side, delta)]
    BY <1>4, ConstantsAssumption
    DEF UpdatePosition, TypeInv, RunMemory, Intents, ConstantsAssumption
  <2>2. \A side : SidesOn(s, side)' = SidesOn(s, side)
    BY <1>4 DEF UpdatePosition, SidesOn, brokerVars
  <2>3. Outstanding(s)' = 0
    BY <2>1 DEF Outstanding
  <2>4. CASE want.symbol = s
    <3>1. Net(booked, s) >= 0
      BY <2>1, <2>4, PositionCovers
    <3>2. Outstanding(s) = IF want.side = "BUY" THEN delta ELSE -delta
      BY <2>1, <2>4 DEF Outstanding
    <3>3. position'[s] = ApplyFill(position[s], want.side, delta)
      BY <2>1, <2>4 DEF TypeInv, TypeOK
    <3>4. position'[s] = position[s] + Outstanding(s)
      BY <1>0, <2>1, <3>1, <3>2, <3>3 DEF ApplyFill
    <3>5. QED
      BY <1>0, <1>2, <2>1, <2>2, <2>3, <3>4
  <2>5. CASE want.symbol # s
    <3>1. Outstanding(s) = 0 /\ position'[s] = position[s]
      BY <2>1, <2>5 DEF Outstanding, TypeInv, TypeOK
    <3>2. QED
      BY <1>0, <1>2, <2>1, <2>2, <2>3, <3>1
  <2>6. QED
    BY <2>4, <2>5
<1>5. CASE RecordPositionEvent
  <2>1. /\ UNCHANGED <<booked, position>> /\ pc = "event" /\ pc' = "settle"
        /\ \A side : SidesOn(s, side)' = SidesOn(s, side)
    BY <1>5 DEF RecordPositionEvent, SidesOn, brokerVars
  <2>2. Outstanding(s) = 0 /\ Outstanding(s)' = 0
    BY <2>1 DEF Outstanding
  <2>3. QED
    BY <1>0, <1>2, <2>1, <2>2
<1>6. CASE LeavesLedger
  <2>1. UNCHANGED <<booked, position>> /\ \A side : SidesOn(s, side)' = SidesOn(s, side)
    BY <1>6 DEF LeavesLedger, SidesOn
  <2>2. CASE pc = "position"
    <3>1. ~(CallRaises \/ Crash)
      BY DEF Orderly, CallRaises, Crash
    <3>2. UpdatePosition \/ UNCHANGED <<pc, want, delta>>
      BY <2>2, <3>1 DEF Next, Program, Submission, StartRun, CheckReconciliation, CheckIntent,
        SubmitOrder, SubmitReplyLost, SubmitRefused, RecordOrder, Booking, Poll, RecordFilled,
        CorrectFills, RecordPositionEvent, Settle, Announce, CancelLoop, RequestCancelLocally,
        CancelGivesUp, CancelPoll, CancelAccepted, CancelFails, CancelReplyLost,
        SaveCancelOutcome, AfterCancelLoop, Closing, HandleException, FinishRun, Broker,
        BrokerFills, BrokerCloses, NewDay, procVars, vars
    <3>3. CASE UpdatePosition
      BY <1>4, <3>3
    <3>4. CASE UNCHANGED <<pc, want, delta>>
      <4>1. Outstanding(s)' = Outstanding(s)
        BY <3>4 DEF Outstanding
      <4>2. QED
        BY <1>0, <1>2, <2>1, <4>1
    <3>5. QED
      BY <3>2, <3>3, <3>4
  <2>3. CASE pc # "position"
    <3>1. Outstanding(s) = 0 /\ Outstanding(s)' = 0
      BY <1>6, <2>3 DEF LeavesLedger, Outstanding
    <3>2. QED
      BY <1>0, <1>2, <2>1, <3>1
  <2>4. QED
    BY <2>2, <2>3
<1>7. QED
  BY <1>1, <1>3, <1>4, <1>5, <1>6, LedgerEffect

\* One share per order, buys and sells, with nothing worse than lost replies:
\* outside the two writes of a correction the position of a symbol is exactly
\* what its fill rows add up to; the floor of apply_fill_to_position is never met.
THEOREM PositionIsLedgerCorrect ==
  ASSUME Qty = 1 PROVE Spec => []PositionIsLedger
<1> DEFINE Inv == LedgerRows /\ ExecutedPlaced /\ NotShort
           Calm == Orderly => GateInv /\ OthersSettled /\ PositionInv
<1>1. Init => Inv /\ Calm
  <2> SUFFICES ASSUME Init PROVE Inv /\ Calm
    OBVIOUS
  <2>1. /\ \A s, side : SidesOn(s, side) = {}
        /\ { o \in OrderIds : bstate[o] # "NONE" } = {}
    BY DEF Init, SidesOn
  <2>2. LedgerRows
    BY <2>1, FS_EmptySet, SumSetEmpty DEF Init, LedgerRows, OrderPoints
  <2>3. \A f, s : Net(f, s) = 0
    BY <2>1, SumEmpty DEF Net
  <2>4. ExecutedPlaced /\ NotShort /\ PositionInv
    BY <2>3 DEF Init, ExecutedPlaced, NotShort, PositionInv, Outstanding
  <2>5. GateInv /\ OthersSettled
    BY DEF Init, GateInv, LiveOrderVisible, GatePassed, MarketIntentUnique, OthersSettled,
      LocalOpenStatuses, OrderPoints
  <2>6. QED
    BY <2>2, <2>4, <2>5
<1>2. OneShareInv /\ PhaseInv /\ Inv /\ Calm /\ [Next]_vars => Inv' /\ Calm'
  <2> SUFFICES ASSUME OneShareInv, PhaseInv, Inv, Calm, [Next]_vars PROVE Inv' /\ Calm'
    OBVIOUS
  <2>1. Inv'
    BY LedgerRowsStep, LedgerStep, NotShortStep, ConstantsAssumption DEF OneShareInv
  <2>2. Orderly' = Orderly
    BY FaultsFixed DEF Orderly
  <2>3. Orderly => CompleteViews /\ OrderPhase
    BY DEF Orderly, CompleteViews, PhaseInv, NothingRaises
  <2>4. Orderly => GateInv' /\ OthersSettled' /\ PositionInv'
    BY <2>3, GateStep, OthersSettledStep, PositionStep DEF OneShareInv
  <2>5. QED
    BY <2>1, <2>2, <2>4
<1>3. OneShareInv /\ Inv /\ Calm => PositionIsLedger
  <2> SUFFICES ASSUME OneShareInv, Inv, PositionInv, NEW s \in Symbols, pc # "position"
               PROVE  position[s] = LedgerOf(s)
    BY DEF PositionIsLedger, Undisturbed, Orderly, FaultKinds
  <2> DEFINE Entered(side) ==
               { o \in OrderIds : fills[o] # {} /\ intent[o].symbol = s /\ intent[o].side = side }
  <2>1. FillTotals = booked
    BY DEF FillTotals, LedgerRows, OneShareInv, TypeInv, TypeOK
  <2>2. ASSUME NEW side
        PROVE  SumFunctionOnSet(booked, Entered(side)) = SumFunctionOnSet(booked, SidesOn(s, side))
    <3>1. /\ IsFiniteSet(SidesOn(s, side)) /\ Entered(side) \in SUBSET SidesOn(s, side)
          /\ \A o \in SidesOn(s, side) : booked[o] \in Int
          /\ \A o \in SidesOn(s, side) \ Entered(side) : booked[o] = 0
      <4>1. IsFiniteSet(SidesOn(s, side)) /\ SidesOn(s, side) \subseteq OrderIds
        BY SidesOnFinite
      <4>2. Entered(side) \subseteq SidesOn(s, side)
        BY DEF SidesOn, LedgerRows
      <4>3. \A o \in OrderIds : booked[o] \in Int /\ (fills[o] = {} => booked[o] = 0)
        BY ConstantsAssumption DEF OneShareInv, SharesMatch, TypeInv, TypeOK, ConstantsAssumption
      <4>4. \A o \in SidesOn(s, side) \ Entered(side) : fills[o] = {} /\ o \in OrderIds
        BY DEF SidesOn
      <4>5. QED
        BY <4>1, <4>2, <4>3, <4>4
    <3> HIDE DEF Entered
    <3>2. QED
      BY ONLY <3>1, SumZeros
  <2>3. LedgerOf(s) = Net(booked, s)
    BY <2>1, <2>2 DEF LedgerOf, Net
  <2>4. position[s] = Net(booked, s)
    BY DEF PositionInv, Outstanding, OneShareInv, TypeInv, TypeOK
  <2>5. QED
    BY <2>3, <2>4
<1> HIDE DEF Inv, Calm
<1>4. QED
  BY <1>1, <1>2, <1>3, OneShareInvariant, PhaseInvariant, PTL DEF Spec

=============================================================================
