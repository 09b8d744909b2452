--------------------------- MODULE SignatureProofs ---------------------------
(***************************************************************************)
(* Proofs about SignatureCheck.  Expressions, headers and presented texts  *)
(* are read by recursive functions over a depth or a length; what is true  *)
(* of all of them is shown by a least counterexample.                      *)
(***************************************************************************)
EXTENDS SignatureCheck, SequenceTheorems, FiniteSetTheorems, WellFoundedInduction, TLAPS

\* A set of numbers that is not empty has a least one.
LEMMA LeastOf ==
    ASSUME NEW T \in SUBSET Nat, T # {}
    PROVE  \E n \in T : \A m \in T : n <= m
  <1> DEFINE Below == {1 .. n : n \in T}
  <1>1. Below \subseteq FiniteSubsetsOf(Nat) /\ Below # {}
    <2>1. \A n \in T : 1 .. n \in SUBSET Nat /\ IsFiniteSet(1 .. n)
      BY FS_Interval
    <2>2. QED
      BY <2>1 DEF FiniteSubsetsOf
  <1>2. PICK low \in Below : \A b \in Below : <<b, low>> \notin StrictSubsetOrdering(Nat)
    <2> HIDE DEF Below
    <2>1. QED
      BY <1>1, FS_StrictSubsetOrderingWellFounded, WFMin
  <1>3. PICK n \in T : low = 1 .. n
    BY <1>2
  <1>4. ASSUME NEW m \in T PROVE n <= m
    <2>1. <<1 .. m, 1 .. n>> \notin StrictSubsetOrdering(Nat)
      BY <1>2, <1>3
    <2>2. ~(1 .. m \subseteq 1 .. n) \/ 1 .. m = 1 .. n
      BY <2>1 DEF StrictSubsetOrdering
    <2>3. m < n => n \notin 1 .. m /\ n \in 1 .. n /\ 1 .. m \subseteq 1 .. n
      OBVIOUS
    <2>4. QED
      BY <2>2, <2>3
  <1>5. QED
    BY <1>4

\* What holds of nothing, and of each number after one it holds of.
LEMMA Upward ==
    ASSUME NEW N \in Nat, NEW T, 0 \in T, \A n \in 0 .. N : n \in T /\ n # N => n + 1 \in T
    PROVE  \A n \in 0 .. N : n \in T
  <1> DEFINE Missing == {n \in Nat : n <= N /\ n \notin T}
  <1>1. SUFFICES ASSUME Missing # {} PROVE FALSE
    OBVIOUS
  <1>2. PICK n \in Missing : \A m \in Missing : n <= m
    BY <1>1, LeastOf
  <1>3. n # 0 /\ n - 1 \in 0 .. N /\ n - 1 # N /\ ~(n <= n - 1)
    BY <1>2
  <1>4. n - 1 \in T
    BY <1>2, <1>3
  <1>5. (n - 1) + 1 \in T
    BY <1>3, <1>4
  <1>6. QED
    BY <1>2, <1>5

(* A sequence of steps, each from where the one before led.                *)
Leads(f, N, S, base, step) == f \in [0 .. N -> S] /\ f[0] = base /\ \A n \in 1 .. N : f[n] = step[<<n, f[n - 1]>>]
LEMMA Recursion ==
    ASSUME NEW N \in Nat, NEW S, NEW base \in S, NEW step \in [(1 .. N) \X S -> S]
    PROVE  \E f : Leads(f, N, S, base, step)
  <1> DEFINE T == {k \in Nat : \E f : Leads(f, k, S, base, step)}
  <1>1. 0 \in T
    <2>1. Leads([n \in 0 .. 0 |-> base], 0, S, base, step)
      BY DEF Leads
    <2>2. QED
      BY <2>1
  <1>2. ASSUME NEW k \in 0 .. N, k \in T, k # N PROVE k + 1 \in T
    <2>1. PICK g : Leads(g, k, S, base, step)
      BY <1>2
    <2> DEFINE f == [n \in 0 .. k + 1 |-> IF n = k + 1 THEN step[<<k + 1, g[k]>>] ELSE g[n]]
    <2>2. k \in 0 .. k /\ k + 1 \in 1 .. N /\ 0 \in 0 .. k + 1 /\ 0 # k + 1
      BY <1>2
    <2>3. step[<<k + 1, g[k]>>] \in S
      BY <2>1, <2>2 DEF Leads
    <2>4. f \in [0 .. k + 1 -> S]
      <3>1. \A n \in 0 .. k + 1 : n # k + 1 => n \in 0 .. k
        BY <1>2
      <3>2. QED
        BY <2>1, <2>3, <3>1 DEF Leads
    <2>5. f[0] = base
      BY <2>1, <2>2 DEF Leads
    <2>6. ASSUME NEW n \in 1 .. k + 1 PROVE f[n] = step[<<n, f[n - 1]>>]
      <3>1. n \in 0 .. k + 1 /\ n - 1 \in 0 .. k + 1 /\ n - 1 # k + 1 /\ f[n - 1] = g[n - 1]
        BY <1>2
      <3>2. CASE n = k + 1
        BY <1>2, <3>1, <3>2
      <3>3. CASE n # k + 1
        <4>1. n \in 1 .. k /\ f[n] = g[n]
          BY <1>2, <3>3
        <4>2. QED
          BY <2>1, <3>1, <4>1 DEF Leads
      <3>4. QED
        BY <3>2, <3>3
    <2> HIDE DEF f
    <2>7. Leads(f, k + 1, S, base, step)
      BY <2>4, <2>5, <2>6 DEF Leads
    <2>8. QED
      BY <1>2, <2>7
  <1> HIDE DEF T
  <1>3. N \in T
    <2>1. N \in 0 .. N
      OBVIOUS
    <2>2. QED
      BY <1>1, <1>2, <2>1, Upward
  <1>4. QED
    BY <1>3 DEF T

(* JoinBy, from the left.                                                  *)
Joins(up, parts, separator, T) ==
    /\ up \in [0 .. Len(parts) -> Seq(T)]
    /\ up[0] = <<>> /\ (Len(parts) # 0 => up[1] = parts[1])
    /\ \A n \in 2 .. Len(parts) : up[n] = up[n - 1] \o separator \o parts[n]
    /\ JoinBy(parts, separator) = up[Len(parts)]
IsJoin(f, parts, separator) ==
    f = [n \in 0 .. Len(parts) |-> IF n = 0 THEN <<>>
                                   ELSE IF n = 1 THEN parts[1] ELSE f[n - 1] \o separator \o parts[n]]
LEMMA JoinIs ==
    ASSUME NEW T, NEW parts \in Seq(Seq(T)), NEW separator \in Seq(T)
    PROVE  \E up : Joins(up, parts, separator, T)
  <1> DEFINE N == Len(parts)
             Joined(n, x) == IF n = 1 THEN parts[1] ELSE x \o separator \o parts[n]
             step == [p \in (1 .. N) \X Seq(T) |-> Joined(p[1], p[2])]
             empty == <<>>
  <1>1. N \in Nat /\ \A n \in 1 .. N : parts[n] \in Seq(T)
    OBVIOUS
  <1>2. \A n \in 1 .. N : \A x \in Seq(T) : Joined(n, x) \in Seq(T) /\ step[<<n, x>>] = Joined(n, x)
    BY <1>1
  <1>3. step \in [(1 .. N) \X Seq(T) -> Seq(T)] /\ empty \in Seq(T)
    BY <1>2
  <1> HIDE DEF step, empty
  <1>4. PICK g : Leads(g, N, Seq(T), empty, step)
    <2> HIDE DEF N
    <2>1. QED
      BY <1>1, <1>3, Recursion
  <1>5. \A n \in 1 .. N : n - 1 \in 0 .. N
    BY <1>1
  <1>6. \A n \in 1 .. N : g[n] = Joined(n, g[n - 1])
    BY <1>2, <1>4, <1>5 DEF Leads
  <1>7. IsJoin(g, parts, separator)
    <2>1. \A n \in 0 .. N : n = 0 \/ n \in 1 .. N
      BY <1>1
    <2>2. g = [n \in 0 .. N |-> g[n]]
      BY <1>4 DEF Leads
    <2>3. \A n \in 0 .. N : g[n] = IF n = 0 THEN <<>>
                                   ELSE IF n = 1 THEN parts[1] ELSE g[n - 1] \o separator \o parts[n]
      BY <1>4, <1>6, <2>1 DEF empty, Leads
    <2>4. QED
      BY <2>2, <2>3 DEF IsJoin
  <1> DEFINE Def(f) == IsJoin(f, parts, separator)
             at == CHOOSE f : Def(f)
  <1>8. Def(at)
    <2>1. Def(g)
      BY <1>7
    <2> HIDE DEF Def
    <2>2. QED
      BY <2>1
  <1>9. JoinBy(parts, separator) = at[N]
    BY DEF JoinBy, IsJoin
  <1> HIDE DEF at
  <1>10. at = [n \in 0 .. N |-> IF n = 0 THEN <<>>
                                ELSE IF n = 1 THEN parts[1] ELSE at[n - 1] \o separator \o parts[n]]
    BY <1>8 DEF IsJoin
  <1> HIDE DEF Def
  <1>11. at[0] = empty /\ \A n \in 1 .. N : at[n] = Joined(n, at[n - 1])
    <2>1. 0 \in 0 .. N /\ \A n \in 1 .. N : n \in 0 .. N /\ n # 0
      BY <1>1
    <2>2. QED
      BY <1>10, <2>1 DEF empty
  <1>12. at \in [0 .. N -> Seq(T)]
    <2> DEFINE Typed == {n \in 0 .. N : at[n] \in Seq(T)}
    <2>1. 0 \in Typed
      BY <1>1, <1>3, <1>11
    <2>2. \A n \in 0 .. N : n \in Typed /\ n # N => n + 1 \in Typed
      <3>1. \A n \in 0 .. N : n # N => n + 1 \in 1 .. N /\ n + 1 \in 0 .. N /\ (n + 1) - 1 = n
        BY <1>1
      <3> HIDE DEF N, Joined
      <3>2. ASSUME NEW n \in 0 .. N, at[n] \in Seq(T), n # N PROVE at[n + 1] \in Seq(T)
        <4>1. n + 1 \in 1 .. N /\ at[n + 1] = Joined(n + 1, at[(n + 1) - 1])
          BY <1>11, <3>1, <3>2
        <4>2. QED
          BY <1>2, <3>1, <3>2, <4>1
      <3>3. QED
        BY <3>1, <3>2
    <2>3. \A n \in 0 .. N : n \in Typed
      <3> HIDE DEF Typed
      <3>1. QED
        BY <1>1, <2>1, <2>2, Upward
    <2>4. DOMAIN at = 0 .. N /\ at = [n \in DOMAIN at |-> at[n]]
      BY <1>10
    <2>5. QED
      BY <2>3, <2>4
  <1>13. N # 0 => at[1] = parts[1]
    <2>1. N # 0 => 1 \in 1 .. N
      BY <1>1
    <2>2. QED
      BY <1>11, <2>1
  <1>14. \A n \in 2 .. N : at[n] = at[n - 1] \o separator \o parts[n]
    <2>1. \A n \in 2 .. N : n \in 1 .. N /\ n # 1
      BY <1>1
    <2>2. QED
      BY <1>11, <2>1
  <1>15. QED
    BY <1>9, <1>11, <1>12, <1>13, <1>14 DEF Joins, empty

(* The expressions of each depth: leaves, and calls on what is less deep.   *)
IsExpressions(f, k) ==
    f = [n \in 0 .. k |-> IF n = 0 THEN LeafExpressions ELSE LeafExpressions \cup CallsOn(f[n - 1])]
LEMMA ExpressionsExist == \E f : IsExpressions(f, MaxDepth)
  <1> DEFINE T == {k \in Nat : \E f : IsExpressions(f, k)}
  <1>1. 0 \in T
    <2>1. IsExpressions([n \in 0 .. 0 |-> LeafExpressions], 0)
      BY DEF IsExpressions
    <2>2. QED
      BY <2>1
  <1>2. ASSUME NEW k \in Nat, k \in T PROVE k + 1 \in T
    <2>1. PICK g : IsExpressions(g, k)
      BY <1>2
    <2> DEFINE f == [n \in 0 .. k + 1 |-> IF n = k + 1 THEN LeafExpressions \cup CallsOn(g[k]) ELSE g[n]]
    <2>2. ASSUME NEW n \in 0 .. k + 1
          PROVE  f[n] = IF n = 0 THEN LeafExpressions ELSE LeafExpressions \cup CallsOn(f[n - 1])
      <3>1. CASE n = k + 1
        <4>1. n - 1 = k /\ k \in 0 .. k + 1 /\ k # k + 1
          BY <3>1
        <4>2. f[n - 1] = g[k]
          BY <4>1
        <4>3. QED
          BY <3>1, <4>2
      <3>2. CASE n # k + 1
        <4>1. n \in 0 .. k
          BY <3>2
        <4>2. f[n] = g[n]
          BY <3>2
        <4>3. n # 0 => n - 1 \in 0 .. k + 1 /\ n - 1 # k + 1 /\ f[n - 1] = g[n - 1]
          BY <4>1
        <4>4. g[n] = IF n = 0 THEN LeafExpressions ELSE LeafExpressions \cup CallsOn(g[n - 1])
          BY <4>1, <2>1 DEF IsExpressions
        <4>5. QED
          BY <4>2, <4>3, <4>4
      <3>3. QED
        BY <3>1, <3>2
    <2>3. f = [n \in 0 .. k + 1 |-> f[n]]
      OBVIOUS
    <2> HIDE DEF f
    <2>4. IsExpressions(f, k + 1)
      BY <2>2, <2>3 DEF IsExpressions
    <2>5. QED
      BY <2>4
  <1> HIDE DEF T
  <1>3. MaxDepth \in T
    <2>1. MaxDepth \in 0 .. MaxDepth
      BY DepthAssumption
    <2>2. QED
      BY <1>1, <1>2, <2>1, Upward, DepthAssumption
  <1>4. QED
    BY <1>3 DEF T

LEMMA ExpressionsAre ==
    /\ ExpressionsTo[0] = LeafExpressions
    /\ \A n \in 1 .. MaxDepth : ExpressionsTo[n] = LeafExpressions \cup CallsOn(ExpressionsTo[n - 1])
  <1>1. ExpressionsTo = CHOOSE f : IsExpressions(f, MaxDepth)
    BY DEF ExpressionsTo, IsExpressions
  <1>2. IsExpressions(ExpressionsTo, MaxDepth)
    BY <1>1, ExpressionsExist
  <1>3. ASSUME NEW n \in 0 .. MaxDepth
        PROVE  ExpressionsTo[n] = IF n = 0 THEN LeafExpressions
                                  ELSE LeafExpressions \cup CallsOn(ExpressionsTo[n - 1])
    BY <1>2 DEF IsExpressions
  <1>4. 0 \in 0 .. MaxDepth /\ \A n \in 1 .. MaxDepth : n \in 0 .. MaxDepth /\ n # 0
    BY DepthAssumption
  <1>5. QED
    BY <1>3, <1>4

(* What a leaf is worth does not depend on what is inside: nothing is.      *)
LEMMA LeavesHoldNothing ==
    ASSUME NEW x \in LeafExpressions, NEW r, NEW key, NEW a, NEW b
    PROVE  /\ Worth(x, r, key, a) = Worth(x, r, key, b)
           /\ NeededBy(x, a) = NeededBy(x, b)
  <1>1. CASE x.kind = "literal"
    BY <1>1 DEF Worth, NeededBy
  <1>2. CASE x.kind = "path"
    BY <1>2 DEF Worth, NeededBy
  <1>3. x.kind \in {"literal", "path"}
    BY DEF LeafExpressions
  <1>4. QED
    BY <1>1, <1>2, <1>3

(* A function that evaluates the expressions of each depth.                *)
IsEvaluator(f, k, r, key) == f = [n \in 0 .. k |-> [x \in ExpressionsTo[n] |-> Worth(x, r, key, f[n - 1])]]
LEMMA EvaluatorExists ==
    ASSUME NEW r, NEW key
    PROVE  \E f : IsEvaluator(f, MaxDepth, r, key)
  <1> DEFINE T == {k \in Nat : \E f : IsEvaluator(f, k, r, key)}
  <1>1. ASSUME NEW f, NEW g
        PROVE  [x \in ExpressionsTo[0] |-> Worth(x, r, key, f)] = [x \in ExpressionsTo[0] |-> Worth(x, r, key, g)]
    BY ExpressionsAre, LeavesHoldNothing
  <1>2. 0 \in T
    <2> DEFINE f == [n \in 0 .. 0 |-> [x \in ExpressionsTo[0] |-> Worth(x, r, key, 0)]]
    <2>1. f[0] = [x \in ExpressionsTo[0] |-> Worth(x, r, key, 0)] /\ f = [n \in 0 .. 0 |-> f[0]]
      OBVIOUS
    <2> HIDE DEF f
    <2>2. f[0] = [x \in ExpressionsTo[0] |-> Worth(x, r, key, f[0 - 1])]
      BY <1>1, <2>1
    <2>3. IsEvaluator(f, 0, r, key)
      BY <2>1, <2>2 DEF IsEvaluator
    <2>4. QED
      BY <2>3
  <1>3. ASSUME NEW k \in Nat, k \in T PROVE k + 1 \in T
    <2>1. PICK g : IsEvaluator(g, k, r, key)
      BY <1>3
    <2> DEFINE f == [n \in 0 .. k + 1 |-> IF n = k + 1 THEN [x \in ExpressionsTo[k + 1] |-> Worth(x, r, key, g[k])] ELSE g[n]]
    <2>2. ASSUME NEW n \in 0 .. k + 1 PROVE f[n] = [x \in ExpressionsTo[n] |-> Worth(x, r, key, f[n - 1])]
      <3>1. CASE n = k + 1
        <4>1. n - 1 = k /\ k \in 0 .. k + 1 /\ k # k + 1
          BY <3>1
        <4>2. f[n - 1] = g[k]
          BY <4>1
        <4>3. QED
          BY <3>1, <4>2
      <3>2. CASE n # k + 1
        <4>1. f[n] = g[n] /\ n \in 0 .. k
          BY <3>2
        <4>2. g[n] = [x \in ExpressionsTo[n] |-> Worth(x, r, key, g[n - 1])]
          BY <4>1, <2>1 DEF IsEvaluator
        <4>3. n # 0 => f[n - 1] = g[n - 1]
          BY <4>1
        <4> HIDE DEF f
        <4>4. CASE n = 0
          BY <4>1, <4>2, <4>4, <1>1
        <4>5. CASE n # 0
          BY <4>1, <4>2, <4>3, <4>5
        <4>6. QED
          BY <4>4, <4>5
      <3>3. QED
        BY <3>1, <3>2
    <2>3. f = [n \in 0 .. k + 1 |-> f[n]]
      OBVIOUS
    <2> HIDE DEF f
    <2>4. IsEvaluator(f, k + 1, r, key)
      BY <2>2, <2>3 DEF IsEvaluator
    <2>5. QED
      BY <2>4
  <1> HIDE DEF T
  <1>4. MaxDepth \in T
    <2>1. MaxDepth \in 0 .. MaxDepth
      BY DepthAssumption
    <2>2. QED
      BY <1>2, <1>3, <2>1, Upward, DepthAssumption
  <1>5. QED
    BY <1>4 DEF T

(* A function that gives what the expressions of each depth need.          *)
IsNeeds(f, k) == f = [n \in 0 .. k |-> [x \in ExpressionsTo[n] |-> NeededBy(x, f[n - 1])]]
LEMMA NeedsExists == \E f : IsNeeds(f, MaxDepth)
  <1> DEFINE T == {k \in Nat : \E f : IsNeeds(f, k)}
  <1>1. ASSUME NEW f, NEW g
        PROVE  [x \in ExpressionsTo[0] |-> NeededBy(x, f)] = [x \in ExpressionsTo[0] |-> NeededBy(x, g)]
    BY ExpressionsAre, LeavesHoldNothing
  <1>2. 0 \in T
    <2> DEFINE f == [n \in 0 .. 0 |-> [x \in ExpressionsTo[0] |-> NeededBy(x, 0)]]
    <2>1. f[0] = [x \in ExpressionsTo[0] |-> NeededBy(x, 0)] /\ f = [n \in 0 .. 0 |-> f[0]]
      OBVIOUS
    <2> HIDE DEF f
    <2>2. f[0] = [x \in ExpressionsTo[0] |-> NeededBy(x, f[0 - 1])]
      BY <1>1, <2>1
    <2>3. IsNeeds(f, 0)
      BY <2>1, <2>2 DEF IsNeeds
    <2>4. QED
      BY <2>3
  <1>3. ASSUME NEW k \in Nat, k \in T PROVE k + 1 \in T
    <2>1. PICK g : IsNeeds(g, k)
      BY <1>3
    <2> DEFINE f == [n \in 0 .. k + 1 |-> IF n = k + 1 THEN [x \in ExpressionsTo[k + 1] |-> NeededBy(x, g[k])] ELSE g[n]]
    <2>2. ASSUME NEW n \in 0 .. k + 1 PROVE f[n] = [x \in ExpressionsTo[n] |-> NeededBy(x, f[n - 1])]
      <3>1. CASE n = k + 1
        <4>1. n - 1 = k /\ k \in 0 .. k + 1 /\ k # k + 1
          BY <3>1
        <4>2. f[n - 1] = g[k]
          BY <4>1
        <4>3. QED
          BY <3>1, <4>2
      <3>2. CASE n # k + 1
        <4>1. f[n] = g[n] /\ n \in 0 .. k
          BY <3>2
        <4>2. g[n] = [x \in ExpressionsTo[n] |-> NeededBy(x, g[n - 1])]
          BY <4>1, <2>1 DEF IsNeeds
        <4>3. n # 0 => f[n - 1] = g[n - 1]
          BY <4>1
        <4> HIDE DEF f
        <4>4. CASE n = 0
          BY <4>1, <4>2, <4>4, <1>1
        <4>5. CASE n # 0
          BY <4>1, <4>2, <4>3, <4>5
        <4>6. QED
          BY <4>4, <4>5
      <3>3. QED
        BY <3>1, <3>2
    <2>3. f = [n \in 0 .. k + 1 |-> f[n]]
      OBVIOUS
    <2> HIDE DEF f
    <2>4. IsNeeds(f, k + 1)
      BY <2>2, <2>3 DEF IsNeeds
    <2>5. QED
      BY <2>4
  <1> HIDE DEF T
  <1>4. MaxDepth \in T
    <2>1. MaxDepth \in 0 .. MaxDepth
      BY DepthAssumption
    <2>2. QED
      BY <1>2, <1>3, <2>1, Upward, DepthAssumption
  <1>5. QED
    BY <1>4 DEF T

(* Evaluate and Needed are these functions at the greatest depth.          *)
Evaluates(at, r, key) ==
    /\ \A n \in 0 .. MaxDepth : \A x \in ExpressionsTo[n] : at[n][x] = Worth(x, r, key, at[n - 1])
    /\ \A e : Evaluate(e, r, key) = at[MaxDepth][e]
LEMMA EvaluatorIs ==
    ASSUME NEW r, NEW key
    PROVE  \E at : Evaluates(at, r, key)
  <1> DEFINE Def(f) == IsEvaluator(f, MaxDepth, r, key)
             at == CHOOSE f : Def(f)
  <1>1. Def(at)
    <2>1. \E f : Def(f)
      BY EvaluatorExists
    <2> HIDE DEF Def
    <2>2. QED
      BY <2>1
  <1>2. \A e : Evaluate(e, r, key) = at[MaxDepth][e]
    BY DEF Evaluate, IsEvaluator
  <1> HIDE DEF at
  <1>3. \A n \in 0 .. MaxDepth : at[n] = [x \in ExpressionsTo[n] |-> Worth(x, r, key, at[n - 1])]
    BY <1>1 DEF IsEvaluator
  <1>4. \A n \in 0 .. MaxDepth : \A x \in ExpressionsTo[n] : at[n][x] = Worth(x, r, key, at[n - 1])
    BY <1>3
  <1> HIDE DEF Def
  <1>5. QED
    BY <1>2, <1>4 DEF Evaluates

Needs(at) ==
    /\ \A n \in 0 .. MaxDepth : \A x \in ExpressionsTo[n] : at[n][x] = NeededBy(x, at[n - 1])
    /\ \A e : Needed(e) = at[MaxDepth][e]
LEMMA NeedsAre == \E at : Needs(at)
  <1> DEFINE Def(f) == IsNeeds(f, MaxDepth)
             at == CHOOSE f : Def(f)
  <1>1. Def(at)
    <2>1. \E f : Def(f)
      BY NeedsExists
    <2> HIDE DEF Def
    <2>2. QED
      BY <2>1
  <1>2. \A e : Needed(e) = at[MaxDepth][e]
    BY DEF Needed, IsNeeds
  <1> HIDE DEF at
  <1>3. \A n \in 0 .. MaxDepth : at[n] = [x \in ExpressionsTo[n] |-> NeededBy(x, at[n - 1])]
    BY <1>1 DEF IsNeeds
  <1>4. \A n \in 0 .. MaxDepth : \A x \in ExpressionsTo[n] : at[n][x] = NeededBy(x, at[n - 1])
    BY <1>3
  <1> HIDE DEF Def
  <1>5. QED
    BY <1>2, <1>4 DEF Needs

----------------------------------------------------------------------------
(* What is absent is not signed.                                           *)

(* Of several results one that is not fails them all.                      *)
LEMMA GatheredAreGood ==
    ASSUME NEW n \in Nat, NEW results, DOMAIN results = 1 .. n, Gathered(results).ok
    PROVE  /\ \A i \in 1 .. n : results[i].ok
           /\ Gathered(results) = Ok([i \in 1 .. n |-> results[i].value])
  <1>1. SUFFICES \A i \in 1 .. n : results[i].ok
    BY DEF Gathered
  <1> DEFINE Bad == {i \in Nat : i \in 1 .. n /\ ~results[i].ok}
  <1>2. SUFFICES ASSUME Bad # {} PROVE FALSE
    BY <1>1
  <1>3. PICK i \in Bad : \A j \in Bad : i <= j
    BY <1>2, LeastOf
  <1>4. \A j \in 1 .. i - 1 : results[j].ok
    BY <1>3
  <1>5. i \in DOMAIN results /\ ~results[i].ok
    BY <1>3
  <1> DEFINE first == CHOOSE k \in DOMAIN results : ~results[k].ok /\ \A j \in 1 .. k - 1 : results[j].ok
  <1>6. first \in DOMAIN results /\ ~results[first].ok
    BY <1>4, <1>5
  <1>7. Gathered(results) = results[first]
    BY <1>5 DEF Gathered
  <1> HIDE DEF first
  <1>8. QED
    BY <1>6, <1>7

(* No function but json_encode takes a value that is absent.               *)
LEMMA AbsentIsNoArgument ==
    ASSUME NEW f, f # "json_encode", NEW order
    PROVE  ~Apply(f, Null, order).ok
  <1>1. Null.type = "null" /\ ~IntoBytes(Null).ok /\ ~IntoText(Null).ok
    <2>1. Null.type = "null"
      BY DEF Null, Value
    <2>2. IntoBytes(Null) = Error("missing")
      BY <2>1 DEF IntoBytes, Scalar
    <2>3. ~IntoBytes(Null).ok
      BY <2>2 DEF Error
    <2>4. QED
      BY <2>1, <2>3 DEF IntoText
  <1>2. ~PairsOf(Null, IntoText(Null)).ok
    BY <1>1 DEF PairsOf
  <1>3. ~Serialized(f, PairsOf(Null, IntoText(Null))).ok
    BY <1>2 DEF Serialized
  <1>4. ~WithBytes(f, IntoBytes(Null)).ok /\ ~WithText(f, IntoText(Null)).ok
    BY <1>1 DEF WithBytes, WithText
  <1>5. CASE f \in {"sort", "sort_keys", "form_encode"}
    <2>1. Apply(f, Null, order) = Error("type")
      BY <1>1, <1>5 DEF Apply, BytesFunctions
    <2>2. QED
      BY <2>1 DEF Error
  <1>6. CASE f = "canonicalize_query"
    <2>1. Apply(f, Null, order) = Serialized(f, PairsOf(Null, IntoText(Null)))
      BY <1>1, <1>6 DEF Apply, BytesFunctions
    <2>2. QED
      BY <2>1, <1>3
  <1>7. CASE f \in BytesFunctions
    <2>1. Apply(f, Null, order) = WithBytes(f, IntoBytes(Null))
      BY <1>1, <1>7 DEF Apply, BytesFunctions
    <2>2. QED
      BY <2>1, <1>4
  <1>8. CASE f \notin BytesFunctions \cup {"sort", "sort_keys", "form_encode", "canonicalize_query"}
    <2>1. Apply(f, Null, order) = WithText(f, IntoText(Null))
      BY <1>1, <1>8 DEF Apply
    <2>2. QED
      BY <2>1, <1>4
  <1>9. QED
    BY <1>5, <1>6, <1>7, <1>8

LEMMA AbsentIsNoPart ==
    ASSUME NEW n \in Nat, NEW values, DOMAIN values = 1 .. n, NEW separator, NEW flatten,
           NEW i \in 1 .. n, values[i] = Null
    PROVE  ~Concatenate(values, separator, flatten).ok
  <1> DEFINE one == <<Null>>
             results == [j \in DOMAIN one |-> IntoBytes(one[j])]
             parts == [j \in DOMAIN values |-> PartsOf(values[j], flatten)]
  <1>1. Null.type = "null" /\ ~IntoBytes(Null).ok
    <2>1. Null.type = "null"
      BY DEF Null, Value
    <2>2. QED
      BY <2>1 DEF IntoBytes, Scalar, Error
  <1>2. PartsOf(Null, flatten) = Gathered(results)
    BY <1>1 DEF PartsOf, Flattened
  <1>3. 1 \in Nat /\ 1 \in 1 .. 1 /\ DOMAIN results = 1 .. 1 /\ results[1] = IntoBytes(Null)
    OBVIOUS
  <1>4. ~PartsOf(Null, flatten).ok
    <2> HIDE DEF results
    <2>1. QED
      BY <1>1, <1>2, <1>3, GatheredAreGood
  <1>5. DOMAIN parts = 1 .. n /\ parts[i] = PartsOf(Null, flatten)
    OBVIOUS
  <1>6. ~Gathered(parts).ok
    <2> HIDE DEF parts
    <2>1. QED
      BY <1>4, <1>5, GatheredAreGood
  <1>7. QED
    BY <1>6 DEF Concatenate, Concatenated

(* A call that is worth something has arguments that are.                  *)
LEMMA ArgumentsAreGiven ==
    ASSUME NEW e, e.kind = "call", e.function # "json_encode",
           NEW n \in Nat, DOMAIN e.arguments = 1 .. n, 1 <= n,
           e.function \in Variadic \/ n = 1,
           NEW r, NEW key, NEW inside, Worth(e, r, key, inside).ok
    PROVE  \A i \in 1 .. n : Given(inside[e.arguments[i]])
  <1> DEFINE results == [i \in DOMAIN e.arguments |-> inside[e.arguments[i]]]
  <1>1. Worth(e, r, key, inside) = CallWith(e, Gathered(results))
    BY DEF Worth
  <1>2. Gathered(results).ok
    BY <1>1 DEF CallWith
  <1>3. /\ \A i \in 1 .. n : results[i].ok
        /\ Gathered(results) = Ok([i \in 1 .. n |-> results[i].value])
    <2>1. DOMAIN results = 1 .. n
      OBVIOUS
    <2> HIDE DEF results
    <2>2. QED
      BY <1>2, <2>1, GatheredAreGood
  <1> DEFINE values == [i \in 1 .. n |-> results[i].value]
  <1>4. Gathered(results).value = values
    BY <1>3 DEF Ok
  <1>5. SUFFICES ASSUME NEW i \in 1 .. n, values[i] = Null PROVE FALSE
    BY <1>3 DEF Given
  <1>6. DOMAIN values = 1 .. n
    OBVIOUS
  <1> HIDE DEF results, values
  <1>7. CASE e.function \in Variadic
    <2>1. PICK separator, flatten : CallWith(e, Gathered(results)) = Concatenate(values, separator, flatten)
      BY <1>2, <1>4, <1>7 DEF CallWith, Variadic
    <2>2. QED
      BY <1>1, <1>5, <1>6, <2>1, AbsentIsNoPart
  <1>8. CASE e.function \notin Variadic
    <2>1. CallWith(e, Gathered(results)) = Apply(e.function, values[1], e.order)
      BY <1>2, <1>4, <1>8 DEF CallWith, Variadic
    <2>2. i = 1
      BY <1>8
    <2>3. QED
      BY <1>1, <1>5, <2>1, <2>2, AbsentIsNoArgument
  <1>9. QED
    BY <1>7, <1>8

\* What an expression needs is given wherever it has a value.
LEMMA NeededIsGiven ==
    ASSUME NEW e \in ExpressionsTo[MaxDepth], NEW r, NEW key,
           Given(Evaluate(e, r, key))
    PROVE  \A p \in Needed(e) : Given(EvaluatePath(p, r, key))
  <1>1. PICK at : Evaluates(at, r, key)
    BY EvaluatorIs
  <1>2. PICK need : Needs(need)
    BY NeedsAre
  <1> DEFINE Holds(n, x) == Given(at[n][x]) => \A p \in need[n][x] : Given(EvaluatePath(p, r, key))
             Wrong == {n \in Nat : n <= MaxDepth /\ \E x \in ExpressionsTo[n] : ~Holds(n, x)}
  <1>3. SUFFICES Wrong = {}
    <2>1. MaxDepth \in Nat /\ MaxDepth <= MaxDepth
      BY DepthAssumption
    <2>2. Holds(MaxDepth, e)
      BY <1>3, <2>1
    <2>3. QED
      BY <1>1, <1>2, <2>2 DEF Evaluates, Needs
  <1>4. SUFFICES ASSUME Wrong # {} PROVE FALSE
    OBVIOUS
  <1>5. PICK n \in Wrong : \A m \in Wrong : n <= m
    BY <1>4, LeastOf
  <1>6. PICK x \in ExpressionsTo[n] : ~Holds(n, x)
    BY <1>5
  <1>7. n \in 0 .. MaxDepth
    BY <1>5, DepthAssumption
  <1>8. at[n][x] = Worth(x, r, key, at[n - 1]) /\ need[n][x] = NeededBy(x, need[n - 1])
    BY <1>1, <1>2, <1>6, <1>7 DEF Evaluates, Needs
  <1>9. CASE x.kind = "literal"
    BY <1>6, <1>8, <1>9 DEF NeededBy
  <1>10. CASE x.kind = "path"
    BY <1>6, <1>8, <1>10 DEF NeededBy, Worth
  <1>11. CASE x.kind \notin {"literal", "path"}
    <2>1. x \notin LeafExpressions
      BY <1>11 DEF LeafExpressions
    <2>2. n # 0 /\ x \in CallsOn(ExpressionsTo[n - 1])
      BY <1>6, <1>7, <2>1, ExpressionsAre
    <2>3. /\ x.kind = "call" /\ x.arguments \in Seq(ExpressionsTo[n - 1])
          /\ Len(x.arguments) >= 1
          /\ x.function \in Variadic \/ Len(x.arguments) = 1
      BY <2>2 DEF CallsOn, ValidCall
    <2>4. x.function # "json_encode"
      BY <1>6, <1>8, <2>3 DEF NeededBy
    <2>5. \A i \in 1 .. Len(x.arguments) : Given(at[n - 1][x.arguments[i]])
      <3>1. Worth(x, r, key, at[n - 1]).ok
        BY <1>6, <1>8 DEF Given
      <3>2. Len(x.arguments) \in Nat /\ DOMAIN x.arguments = 1 .. Len(x.arguments) /\ 1 <= Len(x.arguments)
        BY <2>3
      <3>3. QED
        BY <2>3, <2>4, <3>1, <3>2, ArgumentsAreGiven
    <2>6. \A i \in 1 .. Len(x.arguments) : Holds(n - 1, x.arguments[i])
      <3>1. n - 1 \in Nat /\ n - 1 <= MaxDepth /\ n - 1 \notin Wrong
        <4>1. n - 1 \in Nat /\ n - 1 <= MaxDepth /\ ~(n <= n - 1)
          BY <1>7, <2>2, DepthAssumption
        <4> HIDE DEF Wrong
        <4>2. QED
          BY <4>1, <1>5
      <3>2. \A i \in 1 .. Len(x.arguments) : x.arguments[i] \in ExpressionsTo[n - 1]
        BY <2>3
      <3>3. QED
        BY <3>1, <3>2
    <2>7. ASSUME NEW p \in need[n][x] PROVE Given(EvaluatePath(p, r, key))
      <3>1. need[n][x] = UNION {need[n - 1][x.arguments[i]] : i \in DOMAIN x.arguments}
        BY <1>8, <2>3, <2>4 DEF NeededBy
      <3>2. PICK i \in 1 .. Len(x.arguments) : p \in need[n - 1][x.arguments[i]]
        BY <3>1, <2>3
      <3>3. QED
        BY <2>5, <2>6, <3>2
    <2>8. QED
      BY <1>6, <2>7
  <1>12. QED
    BY <1>9, <1>10, <1>11

----------------------------------------------------------------------------
(* A case is judged once, and what was said stays.                         *)

CheckInv == IsCase(case) /\ outcome \in {[verified |-> FALSE, why |-> "none"], Verdict(case)}

\* The outcome is the verdict on the case, or there is none yet.
THEOREM CheckInvariance == CheckSpec => []CheckInv
  <1>1. IsCase(case) /\ CheckInit(case) => CheckInv
    BY DEF CheckInit, CheckInv
  <1>2. CheckInv /\ [CheckNext]_checkVars => CheckInv'
    BY DEF CheckInv, CheckNext, Verify, checkVars
  <1>3. QED
    BY <1>1, <1>2, PTL DEF CheckSpec

\* Who is verified had a payload in bytes, a presented signature and a key.
LEMMA VerifiedHas ==
    ASSUME CheckInv, outcome.verified
    PROVE  LET payload == SignedPayload(Payload(case))
               presented == Presented(Evaluate(case.config.signature, case.request, case.key), case)
           IN  /\ payload.ok /\ presented.verified
               /\ \E k \in KeyFor(case) :
                      Signed(case.config.algorithm, k, payload.value) \in presented.found
  <1>1. outcome = Verdict(case)
    BY DEF CheckInv
  <1>2. QED
    BY <1>1 DEF Verdict, Judge, Rejected

\* AbsentIsNeverSigned: what a verified request's payload needs was there
\* (evaluate in eval.rs, Value::into_bytes in value.rs).
THEOREM AbsentNeverSigned == CheckSpec => []AbsentIsNeverSigned
  <1>1. CheckInv => AbsentIsNeverSigned
    <2>1. SUFFICES ASSUME CheckInv, outcome.verified
                   PROVE  \A p \in Needed(case.config.payload) : Given(EvaluatePath(p, case.request, case.key))
      BY DEF AbsentIsNeverSigned
    <2>2. SignedPayload(Payload(case)).ok
      BY <2>1, VerifiedHas
    <2>3. Payload(case).ok /\ IntoBytes(Payload(case).value).ok
      BY <2>2 DEF SignedPayload
    <2>4. Payload(case).value # Null
      BY <2>3 DEF IntoBytes, Null, Value, Scalar, Error
    <2>5. case.config.payload \in ExpressionsTo[MaxDepth]
      BY <2>1 DEF CheckInv, IsCase
    <2>6. QED
      BY <2>3, <2>4, <2>5, NeededIsGiven DEF Payload, Given
  <1>2. QED
    BY <1>1, CheckInvariance, PTL

\* The first half of VerifiesExactlyTheSigned: what is verified carries the
\* signature of the payload as evaluated, with the key the hook holds.
LEMMA OnlyTheSignedVerifies ==
    ASSUME CheckInv PROVE VerifiedWasSigned
  <1>1. SUFFICES ASSUME outcome.verified
                 PROVE  /\ Payload(case).value.chars = case.provider.payload
                        /\ case.config.algorithm # "digest" =>
                              case.provider.k \in case.key.secret \cup case.key.public
    BY DEF VerifiedWasSigned
  <1> DEFINE algorithm == case.config.algorithm
             payload == SignedPayload(Payload(case))
             presented == Presented(Evaluate(case.config.signature, case.request, case.key), case)
  <1>2. PICK k \in KeyFor(case) : Signed(algorithm, k, payload.value) \in presented.found
    BY <1>1, VerifiedHas
  <1>3. payload.ok /\ presented.verified
    BY <1>1, VerifiedHas
  <1>4. presented.found \subseteq {Genuine(case), Another}
    <2> DEFINE value == Evaluate(case.config.signature, case.request, case.key)
               bytes == IF case.config.encoding = "raw" THEN IntoBytes(value.value) ELSE IntoText(value.value)
               pieces == IF case.config.encoding = "raw" THEN <<bytes.value>> ELSE Candidates(bytes.value)
    <2>1. presented = Found(bytes, case)
      BY <1>3 DEF Presented, Rejected
    <2>2. \A piece, encoding : DecodeCandidate(piece, encoding, Genuine(case)) \subseteq {Genuine(case), Another}
      BY DEF DecodeCandidate
    <2> HIDE DEF bytes, presented
    <2>3. presented.found =
            UNION {DecodeCandidate(pieces[i], case.config.encoding, Genuine(case)) : i \in DOMAIN pieces}
      BY <1>3, <2>1 DEF Found, Rejected
    <2>4. QED
      BY <2>2, <2>3
  <1>5. Signed(algorithm, k, payload.value) # Another
    BY DEF Signed, Another
  <1>6. Signed(algorithm, k, payload.value) = Genuine(case)
    BY <1>2, <1>4, <1>5
  <1>7. payload.value = case.provider.payload
    BY <1>6 DEF Signed, Genuine
  <1>8. payload.value = Payload(case).value.chars
    BY <1>3 DEF SignedPayload, IntoBytes, Ok, Error
  <1>9. algorithm # "digest" => k = case.provider.k
    BY <1>6 DEF Signed, Genuine
  <1>10. k \in case.key.secret \cup case.key.public
    BY <1>2 DEF KeyFor
  <1>11. QED
    BY <1>7, <1>8, <1>9, <1>10
----------------------------------------------------------------------------
(* What the provider sends verifies.                                       *)

Headers == Seq(Characters) \X Seq(Characters)
Scannings == [done : Seq(Seq(Characters)), open : Seq(Characters)]
Unscanned == [done |-> <<>>, open |-> <<>>]

LEMMA ScannedTyped ==
    ASSUME NEW scan \in Scannings, NEW c \in Characters
    PROVE  Closed(scan) \in Seq(Seq(Characters)) /\ Scanned(scan, c) \in Scannings
  <1>1. scan.done \in Seq(Seq(Characters)) /\ scan.open \in Seq(Characters)
    BY DEF Scannings
  <1>2. Closed(scan) \in Seq(Seq(Characters))
    BY <1>1, AppendProperties DEF Closed
  <1>3. CASE c \in {" ", ","}
    <2>1. <<>> \in Seq(Characters)
      OBVIOUS
    <2>2. QED
      BY <1>2, <1>3, <2>1 DEF Scanned, Scannings
  <1>4. CASE c \notin {" ", ","}
    <2>1. Scanned(scan, c) = [scan EXCEPT !.open = Append(@, c)] /\ Append(scan.open, c) \in Seq(Characters)
      BY <1>1, <1>4, AppendProperties DEF Scanned
    <2>2. Scanned(scan, c) = [done |-> scan.done, open |-> Append(scan.open, c)]
      BY <2>1 DEF Scannings
    <2>3. \A done \in Seq(Seq(Characters)), open \in Seq(Characters) : [done |-> done, open |-> open] \in Scannings
      BY DEF Scannings
    <2>4. Scanned(scan, c) \in Scannings
      BY <1>1, <2>1, <2>2, <2>3
    <2>5. QED
      BY <1>2, <2>4
  <1>5. QED
    BY <1>2, <1>3, <1>4

(* Names: of each header, once.                                            *)
Named1(up, headers) ==
    /\ up \in [0 .. Len(headers) -> Seq(Seq(Characters))]
    /\ up[0] = <<>>
    /\ \A n \in 1 .. Len(headers) : up[n] = WithName(up[n - 1], headers[n][1])
    /\ Names(headers) = up[Len(headers)]
IsNames(f, headers) == f = [n \in 0 .. Len(headers) |-> IF n = 0 THEN <<>> ELSE WithName(f[n - 1], headers[n][1])]
LEMMA NamesAre ==
    ASSUME NEW headers \in Seq(Headers)
    PROVE  \E up : Named1(up, headers)
  <1> DEFINE N == Len(headers)
             S == Seq(Seq(Characters))
             Next1(n, x) == WithName(x, headers[n][1])
             step == [p \in (1 .. N) \X S |-> Next1(p[1], p[2])]
             first == <<>>
  <1>1. N \in Nat /\ DOMAIN headers = 1 .. N
    OBVIOUS
  <1>2. ASSUME NEW n \in 1 .. N, NEW x \in S PROVE Next1(n, x) \in S
    <2>1. headers[n] \in Headers
      BY <1>1
    <2>2. x \in Seq(Seq(Characters)) /\ headers[n][1] \in Seq(Characters)
      BY <2>1 DEF Headers
    <2>3. QED
      BY <2>2, AppendProperties DEF WithName
  <1>2a. first \in S
    BY DEF Unscanned, Scannings
  <1> HIDE DEF Next1, first, S
  <1>2b. \A n \in 1 .. N : \A x \in S : step[<<n, x>>] = Next1(n, x)
    OBVIOUS
  <1>3. step \in [(1 .. N) \X S -> S] /\ first \in S
    BY <1>2, <1>2a
  <1> HIDE DEF step, first
  <1>4. PICK g : Leads(g, N, S, first, step)
    <2> HIDE DEF N
    <2>1. QED
      BY <1>1, <1>3, Recursion
  <1>5. \A n \in 1 .. N : n - 1 \in 0 .. N /\ n \in 0 .. N /\ n # 0
    BY <1>1
  <1>6. \A n \in 1 .. N : g[n] = Next1(n, g[n - 1])
    BY <1>2b, <1>4, <1>5 DEF Leads
  <1>7. IsNames(g, headers)
    <2>1. \A n \in 0 .. N : n = 0 \/ n \in 1 .. N
      BY <1>1
    <2>2. g = [n \in 0 .. N |-> g[n]]
      BY <1>4 DEF Leads
    <2>3. \A n \in 0 .. N : g[n] = IF n = 0 THEN <<>> ELSE WithName(g[n - 1], headers[n][1])
      BY <1>4, <1>6, <2>1 DEF first, Leads, Next1
    <2>4. QED
      BY <2>2, <2>3 DEF IsNames
  <1> DEFINE Def(f) == IsNames(f, headers)
             at == CHOOSE f : Def(f)
  <1>8. Def(at)
    <2>1. Def(g)
      BY <1>7
    <2> HIDE DEF Def
    <2>2. QED
      BY <2>1
  <1>9. Names(headers) = at[Len(headers)]
    BY DEF Names, IsNames
  <1> HIDE DEF at
  <1>10. at = [n \in 0 .. N |-> IF n = 0 THEN <<>> ELSE WithName(at[n - 1], headers[n][1])]
    BY <1>8 DEF IsNames
  <1> HIDE DEF Def
  <1>11. at[0] = first /\ \A n \in 1 .. N : at[n] = Next1(n, at[n - 1])
    <2>1. 0 \in 0 .. N
      BY <1>1
    <2>2. QED
      BY <1>5, <1>10, <2>1 DEF first, Next1
  <1>12. at \in [0 .. N -> S]
    <2> DEFINE Typed == {n \in 0 .. N : at[n] \in S}
    <2>1. 0 \in Typed
      BY <1>1, <1>3, <1>11
    <2>2. ASSUME NEW n \in 0 .. N, n \in Typed, n # N PROVE n + 1 \in Typed
      <3> HIDE DEF N
      <3>1. n + 1 \in 1 .. N /\ n + 1 \in 0 .. N /\ (n + 1) - 1 = n
        BY <1>1, <2>2
      <3>2. at[n + 1] = Next1(n + 1, at[n])
        BY <1>11, <3>1
      <3>3. QED
        BY <1>2, <2>2, <3>1, <3>2
    <2>3. \A n \in 0 .. N : n \in Typed
      <3> HIDE DEF Typed
      <3>1. QED
        BY <1>1, <2>1, <2>2, Upward
    <2>4. DOMAIN at = 0 .. N /\ at = [n \in DOMAIN at |-> at[n]]
      BY <1>10
    <2>5. QED
      BY <2>3, <2>4
  <1>13. QED
    BY <1>9, <1>11, <1>12 DEF Named1, first, Next1, S

(* ValuesOf: those of the headers of a name.                               *)
Collects(up, headers, name) ==
    /\ up \in [0 .. Len(headers) -> Seq(Seq(Characters))]
    /\ up[0] = <<>>
    /\ \A n \in 1 .. Len(headers) : up[n] = WithValue(up[n - 1], headers[n], name)
    /\ ValuesOf(headers, name) = up[Len(headers)]
IsValues(f, headers, name) == f = [n \in 0 .. Len(headers) |-> IF n = 0 THEN <<>> ELSE WithValue(f[n - 1], headers[n], name)]
LEMMA ValuesAre ==
    ASSUME NEW headers \in Seq(Headers), NEW name
    PROVE  \E up : Collects(up, headers, name)
  <1> DEFINE N == Len(headers)
             S == Seq(Seq(Characters))
             Next1(n, x) == WithValue(x, headers[n], name)
             step == [p \in (1 .. N) \X S |-> Next1(p[1], p[2])]
             first == <<>>
  <1>1. N \in Nat /\ DOMAIN headers = 1 .. N
    OBVIOUS
  <1>2. ASSUME NEW n \in 1 .. N, NEW x \in S PROVE Next1(n, x) \in S
    <2>1. headers[n] \in Headers
      BY <1>1
    <2>2. x \in Seq(Seq(Characters)) /\ headers[n][2] \in Seq(Characters)
      BY <2>1 DEF Headers
    <2>3. QED
      BY <2>2, AppendProperties DEF WithValue
  <1>2a. first \in S
    BY DEF Unscanned, Scannings
  <1> HIDE DEF Next1, first, S
  <1>2b. \A n \in 1 .. N : \A x \in S : step[<<n, x>>] = Next1(n, x)
    OBVIOUS
  <1>3. step \in [(1 .. N) \X S -> S] /\ first \in S
    BY <1>2, <1>2a
  <1> HIDE DEF step, first
  <1>4. PICK g : Leads(g, N, S, first, step)
    <2> HIDE DEF N
    <2>1. QED
      BY <1>1, <1>3, Recursion
  <1>5. \A n \in 1 .. N : n - 1 \in 0 .. N /\ n \in 0 .. N /\ n # 0
    BY <1>1
  <1>6. \A n \in 1 .. N : g[n] = Next1(n, g[n - 1])
    BY <1>2b, <1>4, <1>5 DEF Leads
  <1>7. IsValues(g, headers, name)
    <2>1. \A n \in 0 .. N : n = 0 \/ n \in 1 .. N
      BY <1>1
    <2>2. g = [n \in 0 .. N |-> g[n]]
      BY <1>4 DEF Leads
    <2>3. \A n \in 0 .. N : g[n] = IF n = 0 THEN <<>> ELSE WithValue(g[n - 1], headers[n], name)
      BY <1>4, <1>6, <2>1 DEF first, Leads, Next1
    <2>4. QED
      BY <2>2, <2>3 DEF IsValues
  <1> DEFINE Def(f) == IsValues(f, headers, name)
             at == CHOOSE f : Def(f)
  <1>8. Def(at)
    <2>1. Def(g)
      BY <1>7
    <2> HIDE DEF Def
    <2>2. QED
      BY <2>1
  <1>9. ValuesOf(headers, name) = at[Len(headers)]
    BY DEF ValuesOf, IsValues
  <1> HIDE DEF at
  <1>10. at = [n \in 0 .. N |-> IF n = 0 THEN <<>> ELSE WithValue(at[n - 1], headers[n], name)]
    BY <1>8 DEF IsValues
  <1> HIDE DEF Def
  <1>11. at[0] = first /\ \A n \in 1 .. N : at[n] = Next1(n, at[n - 1])
    <2>1. 0 \in 0 .. N
      BY <1>1
    <2>2. QED
      BY <1>5, <1>10, <2>1 DEF first, Next1
  <1>12. at \in [0 .. N -> S]
    <2> DEFINE Typed == {n \in 0 .. N : at[n] \in S}
    <2>1. 0 \in Typed
      BY <1>1, <1>3, <1>11
    <2>2. ASSUME NEW n \in 0 .. N, n \in Typed, n # N PROVE n + 1 \in Typed
      <3> HIDE DEF N
      <3>1. n + 1 \in 1 .. N /\ n + 1 \in 0 .. N /\ (n + 1) - 1 = n
        BY <1>1, <2>2
      <3>2. at[n + 1] = Next1(n + 1, at[n])
        BY <1>11, <3>1
      <3>3. QED
        BY <1>2, <2>2, <3>1, <3>2
    <2>3. \A n \in 0 .. N : n \in Typed
      <3> HIDE DEF Typed
      <3>1. QED
        BY <1>1, <2>1, <2>2, Upward
    <2>4. DOMAIN at = 0 .. N /\ at = [n \in DOMAIN at |-> at[n]]
      BY <1>10
    <2>5. QED
      BY <2>3, <2>4
  <1>13. QED
    BY <1>9, <1>11, <1>12 DEF Collects, first, Next1, S

(* Tokens: text is scanned from the left.                                  *)
Scans(up, text) ==
    /\ up \in [0 .. Len(text) -> Scannings]
    /\ up[0] = Unscanned
    /\ \A n \in 1 .. Len(text) : up[n] = Scanned(up[n - 1], text[n])
    /\ Tokens(text) = Closed(up[Len(text)])
IsScan(f, text) == f = [n \in 0 .. Len(text) |-> IF n = 0 THEN Unscanned ELSE Scanned(f[n - 1], text[n])]
LEMMA ScanIs ==
    ASSUME NEW text \in Seq(Characters)
    PROVE  \E up : Scans(up, text)
  <1> DEFINE N == Len(text)
             S == Scannings
             Next1(n, x) == Scanned(x, text[n])
             step == [p \in (1 .. N) \X S |-> Next1(p[1], p[2])]
             first == Unscanned
  <1>1. N \in Nat /\ DOMAIN text = 1 .. N
    OBVIOUS
  <1>2. ASSUME NEW n \in 1 .. N, NEW x \in S PROVE Next1(n, x) \in S
    <2>1. x \in Scannings /\ text[n] \in Characters
      BY <1>1
    <2>2. QED
      BY <2>1, ScannedTyped
  <1>2a. first \in S
    BY DEF Unscanned, Scannings
  <1> HIDE DEF Next1, first, S
  <1>2b. \A n \in 1 .. N : \A x \in S : step[<<n, x>>] = Next1(n, x)
    OBVIOUS
  <1>3. step \in [(1 .. N) \X S -> S] /\ first \in S
    BY <1>2, <1>2a
  <1> HIDE DEF step, first
  <1>4. PICK g : Leads(g, N, S, first, step)
    <2> HIDE DEF N
    <2>1. QED
      BY <1>1, <1>3, Recursion
  <1>5. \A n \in 1 .. N : n - 1 \in 0 .. N /\ n \in 0 .. N /\ n # 0
    BY <1>1
  <1>6. \A n \in 1 .. N : g[n] = Next1(n, g[n - 1])
    BY <1>2b, <1>4, <1>5 DEF Leads
  <1>7. IsScan(g, text)
    <2>1. \A n \in 0 .. N : n = 0 \/ n \in 1 .. N
      BY <1>1
    <2>2. g = [n \in 0 .. N |-> g[n]]
      BY <1>4 DEF Leads
    <2>3. \A n \in 0 .. N : g[n] = IF n = 0 THEN Unscanned ELSE Scanned(g[n - 1], text[n])
      BY <1>4, <1>6, <2>1 DEF first, Leads, Next1
    <2>4. QED
      BY <2>2, <2>3 DEF IsScan
  <1> DEFINE Def(f) == IsScan(f, text)
             at == CHOOSE f : Def(f)
  <1>8. Def(at)
    <2>1. Def(g)
      BY <1>7
    <2> HIDE DEF Def
    <2>2. QED
      BY <2>1
  <1>9. Tokens(text) = Closed(at[Len(text)])
    BY DEF Tokens, Unscanned, IsScan
  <1> HIDE DEF at
  <1>10. at = [n \in 0 .. N |-> IF n = 0 THEN Unscanned ELSE Scanned(at[n - 1], text[n])]
    BY <1>8 DEF IsScan
  <1> HIDE DEF Def
  <1>11. at[0] = first /\ \A n \in 1 .. N : at[n] = Next1(n, at[n - 1])
    <2>1. 0 \in 0 .. N
      BY <1>1
    <2>2. QED
      BY <1>5, <1>10, <2>1 DEF first, Next1
  <1>12. at \in [0 .. N -> S]
    <2> DEFINE Typed == {n \in 0 .. N : at[n] \in S}
    <2>1. 0 \in Typed
      BY <1>1, <1>3, <1>11
    <2>2. ASSUME NEW n \in 0 .. N, n \in Typed, n # N PROVE n + 1 \in Typed
      <3> HIDE DEF N
      <3>1. n + 1 \in 1 .. N /\ n + 1 \in 0 .. N /\ (n + 1) - 1 = n
        BY <1>1, <2>2
      <3>2. at[n + 1] = Next1(n + 1, at[n])
        BY <1>11, <3>1
      <3>3. QED
        BY <1>2, <2>2, <3>1, <3>2
    <2>3. \A n \in 0 .. N : n \in Typed
      <3> HIDE DEF Typed
      <3>1. QED
        BY <1>1, <2>1, <2>2, Upward
    <2>4. DOMAIN at = 0 .. N /\ at = [n \in DOMAIN at |-> at[n]]
      BY <1>10
    <2>5. QED
      BY <2>3, <2>4
  <1>13. QED
    BY <1>9, <1>11, <1>12 DEF Scans, first, Next1, S
(* What scanning a text makes of what was scanned before it.               *)
Scanning(f, from, text) ==
    /\ f \in [0 .. Len(text) -> Scannings] /\ f[0] = from
    /\ \A n \in 1 .. Len(text) : f[n] = Scanned(f[n - 1], text[n])
Reaches(from, text, to) == \E f : Scanning(f, from, text) /\ f[Len(text)] = to

LEMMA ScanGoesOn ==
    ASSUME NEW from \in Scannings, NEW text \in Seq(Characters)
    PROVE  \E to \in Scannings : Reaches(from, text, to)
  <1> DEFINE N == Len(text)
             step == [p \in (1 .. N) \X Scannings |-> Scanned(p[2], text[p[1]])]
  <1>1. N \in Nat /\ N \in 0 .. N /\ \A n \in 1 .. N : text[n] \in Characters /\ n - 1 \in 0 .. N
    OBVIOUS
  <1>2. \A n \in 1 .. N : \A x \in Scannings : Scanned(x, text[n]) \in Scannings
    BY <1>1, ScannedTyped
  <1>3. \A n \in 1 .. N : \A x \in Scannings : step[<<n, x>>] = Scanned(x, text[n])
    OBVIOUS
  <1>4. step \in [(1 .. N) \X Scannings -> Scannings]
    BY <1>2
  <1> HIDE DEF step
  <1>5. PICK f : Leads(f, N, Scannings, from, step)
    <2> HIDE DEF N
    <2>1. QED
      BY <1>1, <1>4, Recursion
  <1>6. Scanning(f, from, text)
    BY <1>1, <1>3, <1>5 DEF Leads, Scanning
  <1>7. f[N] \in Scannings
    BY <1>1, <1>5 DEF Leads
  <1>8. QED
    BY <1>6, <1>7 DEF Reaches

LEMMA TokensAre ==
    ASSUME NEW text \in Seq(Characters), NEW to, Reaches(Unscanned, text, to)
    PROVE  Tokens(text) = Closed(to)
  <1>1. PICK f : Scanning(f, Unscanned, text) /\ f[Len(text)] = to
    BY DEF Reaches
  <1>2. PICK up : Scans(up, text)
    BY ScanIs
  <1> DEFINE N == Len(text)
             Same == {n \in 0 .. N : f[n] = up[n]}
  <1>3. N \in Nat /\ N \in 0 .. N /\ 0 \in Same
    BY <1>1, <1>2 DEF Scanning, Scans
  <1>4. ASSUME NEW n \in 0 .. N, n \in Same, n # N PROVE n + 1 \in Same
    <2>1. n + 1 \in 1 .. N /\ n + 1 \in 0 .. N /\ (n + 1) - 1 = n
      BY <1>3, <1>4
    <2>2. f[n + 1] = Scanned(f[(n + 1) - 1], text[n + 1]) /\ up[n + 1] = Scanned(up[(n + 1) - 1], text[n + 1])
      BY <1>1, <1>2, <2>1 DEF Scanning, Scans
    <2>3. QED
      BY <1>4, <2>1, <2>2
  <1> HIDE DEF Same
  <1>5. N \in Same
    BY <1>3, <1>4, Upward
  <1>6. QED
    BY <1>1, <1>2, <1>5 DEF Scans, Same

LEMMA ScanOfBoth ==
    ASSUME NEW s \in Seq(Characters), NEW t \in Seq(Characters), NEW a, NEW b, NEW c,
           Reaches(a, s, b), Reaches(b, t, c)
    PROVE  Reaches(a, s \o t, c)
  <1>1. PICK f : Scanning(f, a, s) /\ f[Len(s)] = b
    BY DEF Reaches
  <1>2. PICK g : Scanning(g, b, t) /\ g[Len(t)] = c
    BY DEF Reaches
  <1> DEFINE M == Len(s)
             N == Len(t)
             text == s \o t
             h == [n \in 0 .. M + N |-> IF n <= M THEN f[n] ELSE g[n - M]]
  <1>3. /\ M \in Nat /\ N \in Nat /\ text \in Seq(Characters) /\ Len(text) = M + N
        /\ \A i \in 1 .. M + N : text[i] = IF i <= M THEN s[i] ELSE t[i - M]
    BY ConcatProperties
  <1> HIDE DEF text
  <1>4. /\ f \in [0 .. M -> Scannings] /\ f[0] = a /\ f[M] = b
        /\ \A n \in 1 .. M : f[n] = Scanned(f[n - 1], s[n])
    BY <1>1 DEF Scanning
  <1>5. /\ g \in [0 .. N -> Scannings] /\ g[0] = b /\ g[N] = c
        /\ \A n \in 1 .. N : g[n] = Scanned(g[n - 1], t[n])
    BY <1>2 DEF Scanning
  <1> HIDE DEF M, N
  <1>6. h \in [0 .. M + N -> Scannings] /\ h[0] = a
    <2>1. ASSUME NEW n \in 0 .. M + N PROVE (IF n <= M THEN f[n] ELSE g[n - M]) \in Scannings
      <3>1. CASE n <= M
        BY <1>3, <1>4, <3>1
      <3>2. CASE ~(n <= M)
        <4>1. n - M \in 0 .. N
          BY <1>3, <3>2
        <4>2. QED
          BY <1>5, <3>2, <4>1
      <3>3. QED
        BY <3>1, <3>2
    <2>2. 0 \in 0 .. M + N /\ 0 <= M
      BY <1>3
    <2>3. QED
      BY <1>4, <2>1, <2>2
  <1>7. ASSUME NEW n \in 1 .. M + N PROVE h[n] = Scanned(h[n - 1], text[n])
    <2>1. n \in 0 .. M + N /\ n - 1 \in 0 .. M + N
      BY <1>3
    <2>2. CASE n <= M
      <3>1. n \in 1 .. M /\ n - 1 <= M
        BY <1>3, <2>2
      <3>2. QED
        BY <1>3, <1>4, <2>1, <2>2, <3>1
    <2>3. CASE n = M + 1
      <3>1. ~(n <= M) /\ n - M = 1 /\ n - 1 = M /\ M <= M /\ 1 \in 1 .. N /\ 1 - 1 = 0
        BY <1>3, <2>3
      <3>2. h[n] = g[1] /\ h[n - 1] = f[M] /\ text[n] = t[1]
        BY <1>3, <2>1, <3>1
      <3>3. g[1] = Scanned(g[1 - 1], t[1])
        BY <1>5, <3>1
      <3>4. QED
        BY <1>4, <1>5, <3>1, <3>2, <3>3
    <2>4. CASE n > M + 1
      <3>1. ~(n <= M) /\ ~(n - 1 <= M) /\ n - M \in 1 .. N /\ (n - 1) - M = (n - M) - 1
        BY <1>3, <2>4
      <3>2. h[n] = g[n - M] /\ h[n - 1] = g[(n - M) - 1] /\ text[n] = t[n - M]
        BY <1>3, <2>1, <3>1
      <3>3. QED
        BY <1>5, <3>1, <3>2
    <2>5. n <= M \/ n = M + 1 \/ n > M + 1
      BY <1>3
    <2>6. QED
      BY <2>2, <2>3, <2>4, <2>5
  <1>8. h[M + N] = c
    <2>1. M + N \in 0 .. M + N
      BY <1>3
    <2>2. CASE N = 0
      <3>1. M + N = M /\ M <= M
        BY <1>3, <2>2
      <3>2. QED
        BY <1>4, <1>5, <2>1, <2>2, <3>1
    <2>3. CASE N # 0
      <3>1. ~(M + N <= M) /\ (M + N) - M = N
        BY <1>3, <2>3
      <3>2. QED
        BY <1>5, <2>1, <3>1
    <2>4. QED
      BY <2>2, <2>3
  <1> HIDE DEF h
  <1>9. Scanning(h, a, text)
    BY <1>3, <1>6, <1>7 DEF Scanning
  <1>10. Reaches(a, text, c)
    BY <1>3, <1>8, <1>9 DEF Reaches
  <1>11. QED
    BY <1>10 DEF text
(* Values joined by a comma and a blank have the tokens of those joined by *)
(* a blank, and are longer by at most one character for each.              *)
LEMMA SeparatorsEndTokens ==
    ASSUME NEW scan \in Scannings
    PROVE  \E to \in Scannings : Reaches(scan, <<",", " ">>, to) /\ Reaches(scan, <<" ">>, to)
  <1> DEFINE to == [done |-> Closed(scan), open |-> <<>>]
             f == [n \in 0 .. 2 |-> IF n = 0 THEN scan ELSE to]
             g == [n \in 0 .. 1 |-> IF n = 0 THEN scan ELSE to]
             two == <<",", " ">>
             one == <<" ">>
  <1>1. Closed(scan) \in Seq(Seq(Characters))
    <2>1. " " \in Characters
      BY CheckAssumption
    <2>2. QED
      BY <2>1, ScannedTyped
  <1>2. to \in Scannings /\ Closed(to) = Closed(scan)
    <2>1. \A done \in Seq(Seq(Characters)) : [done |-> done, open |-> <<>>] \in Scannings
      BY DEF Scannings
    <2>2. QED
      BY <1>1, <2>1 DEF Closed
  <1>3. \A c \in {" ", ","} : Scanned(scan, c) = to /\ Scanned(to, c) = to
    BY <1>2 DEF Scanned
  <1> HIDE DEF to
  <1>4. Len(two) = 2 /\ two[1] = "," /\ two[2] = " " /\ Len(one) = 1 /\ one[1] = " "
    OBVIOUS
  <1>5. f \in [0 .. 2 -> Scannings] /\ f[0] = scan /\ f[1] = to /\ f[2] = to
    BY <1>2
  <1>6. g \in [0 .. 1 -> Scannings] /\ g[0] = scan /\ g[1] = to
    BY <1>2
  <1> HIDE DEF f, g, two, one
  <1>7. Scanning(f, scan, two)
    <2>1. \A n \in 1 .. 2 : (n = 1 /\ n - 1 = 0) \/ (n = 2 /\ n - 1 = 1)
      OBVIOUS
    <2>2. QED
      BY <1>3, <1>4, <1>5, <2>1 DEF Scanning
  <1>8. Scanning(g, scan, one)
    <2>1. \A n \in 1 .. 1 : n = 1 /\ n - 1 = 0
      OBVIOUS
    <2>2. QED
      BY <1>3, <1>4, <1>6, <2>1 DEF Scanning
  <1>9. Reaches(scan, two, to) /\ Reaches(scan, one, to)
    BY <1>4, <1>5, <1>6, <1>7, <1>8 DEF Reaches
  <1>10. QED
    BY <1>2, <1>9 DEF two, one

LEMMA JoinedHeaders ==
    ASSUME NEW values \in Seq(Seq(Characters))
    PROVE  LET joined == JoinBy(values, <<",", " ">>)
               presented == JoinBy(values, <<" ">>)
           IN  /\ joined \in Seq(Characters) /\ presented \in Seq(Characters)
               /\ Tokens(joined) = Tokens(presented)
               /\ Len(joined) <= Len(presented) + Len(values)
  <1> DEFINE two == <<",", " ">>
             one == <<" ">>
             N == Len(values)
  <1>1. N \in Nat /\ N \in 0 .. N /\ \A n \in 1 .. N : values[n] \in Seq(Characters)
    OBVIOUS
  <1>2. two \in Seq(Characters) /\ Len(two) = 2 /\ one \in Seq(Characters) /\ Len(one) = 1
    <2>1. two \in Seq(Characters)
      <3>1. \A C : \A a, b \in C : <<a, b>> \in Seq(C)
        OBVIOUS
      <3>2. "," \in Characters /\ " " \in Characters
        BY CheckAssumption
      <3>3. QED
        BY <3>1, <3>2
    <2>2. one \in Seq(Characters)
      <3>1. \A C : \A a \in C : <<a>> \in Seq(C)
        OBVIOUS
      <3>2. " " \in Characters
        BY CheckAssumption
      <3>3. QED
        BY <3>1, <3>2
    <2>3. Len(two) = 2 /\ Len(one) = 1
      OBVIOUS
    <2>4. QED
      BY <2>1, <2>2, <2>3
  <1>3. \A scan \in Scannings : \E to \in Scannings : Reaches(scan, two, to) /\ Reaches(scan, one, to)
    BY SeparatorsEndTokens
  <1>4. Unscanned \in Scannings
    BY DEF Unscanned, Scannings
  <1> HIDE DEF two, one
  <1>5. PICK up : Joins(up, values, two, Characters)
    BY <1>2, JoinIs
  <1>6. PICK down : Joins(down, values, one, Characters)
    BY <1>2, JoinIs
  <1> DEFINE Agree(n) == /\ \E to \in Scannings : Reaches(Unscanned, up[n], to) /\ Reaches(Unscanned, down[n], to)
                         /\ Len(up[n]) <= Len(down[n]) + n
             T == {n \in 0 .. N : Agree(n)}
  <1>7. 0 \in T
    <2> DEFINE empty == <<>>
    <2>1. empty \in Seq(Characters) /\ Len(empty) = 0 /\ up[0] = empty /\ down[0] = empty /\ 0 \in 0 .. N
      BY <1>1, <1>5, <1>6 DEF Joins
    <2> HIDE DEF empty
    <2>2. \E to \in Scannings : Reaches(Unscanned, empty, to)
      BY <1>4, <2>1, ScanGoesOn
    <2>3. QED
      BY <2>1, <2>2
  <1>8. ASSUME NEW n \in 0 .. N, n \in T, n # N PROVE n + 1 \in T
    <2> DEFINE v == values[n + 1]
    <2>1. n + 1 \in 1 .. N /\ n + 1 \in 0 .. N /\ n \in 0 .. N /\ (n + 1) - 1 = n /\ v \in Seq(Characters)
      BY <1>1, <1>8
    <2>2. up[n] \in Seq(Characters) /\ down[n] \in Seq(Characters)
      BY <1>5, <1>6, <2>1 DEF Joins
    <2> HIDE DEF v
    <2>3. CASE n = 0
      <3>1. up[n + 1] = v /\ down[n + 1] = v
        BY <1>1, <1>5, <1>6, <2>1, <2>3 DEF Joins, v
      <3>2. \E to \in Scannings : Reaches(Unscanned, v, to)
        BY <1>4, <2>1, ScanGoesOn
      <3>3. Len(v) <= Len(v) + (n + 1)
        BY <2>1
      <3>4. QED
        BY <2>1, <3>1, <3>2, <3>3
    <2>4. CASE n # 0
      <3>1. n + 1 \in 2 .. N
        BY <1>1, <1>8, <2>4
      <3>2. up[n + 1] = (up[n] \o two) \o v /\ down[n + 1] = (down[n] \o one) \o v
        BY <1>5, <1>6, <2>1, <3>1 DEF Joins, v
      <3>3. PICK s \in Scannings : Reaches(Unscanned, up[n], s) /\ Reaches(Unscanned, down[n], s)
        BY <1>8
      <3>4. PICK t \in Scannings : Reaches(s, two, t) /\ Reaches(s, one, t)
        BY <1>3
      <3>5. PICK to \in Scannings : Reaches(t, v, to)
        BY <2>1, ScanGoesOn
      <3>6. /\ up[n] \o two \in Seq(Characters) /\ Len(up[n] \o two) = Len(up[n]) + 2
            /\ down[n] \o one \in Seq(Characters) /\ Len(down[n] \o one) = Len(down[n]) + 1
        <4>1. /\ up[n] \o two \in Seq(Characters) /\ Len(up[n] \o two) = Len(up[n]) + Len(two)
              /\ down[n] \o one \in Seq(Characters) /\ Len(down[n] \o one) = Len(down[n]) + Len(one)
          BY <1>2, <2>2, ConcatProperties
        <4>2. QED
          BY <1>2, <4>1
      <3>7. Reaches(Unscanned, up[n] \o two, t) /\ Reaches(Unscanned, down[n] \o one, t)
        BY <1>2, <2>2, <3>3, <3>4, ScanOfBoth
      <3>8. Reaches(Unscanned, up[n + 1], to) /\ Reaches(Unscanned, down[n + 1], to)
        BY <2>1, <3>2, <3>5, <3>6, <3>7, ScanOfBoth
      <3>9. Len(up[n + 1]) = Len(up[n]) + 2 + Len(v) /\ Len(down[n + 1]) = Len(down[n]) + 1 + Len(v)
        <4>1. /\ Len((up[n] \o two) \o v) = Len(up[n] \o two) + Len(v)
              /\ Len((down[n] \o one) \o v) = Len(down[n] \o one) + Len(v)
          BY <2>1, <3>6, ConcatProperties
        <4>2. QED
          BY <3>2, <3>6, <4>1
      <3>10. Len(up[n + 1]) <= Len(down[n + 1]) + (n + 1)
        <4>1. Len(up[n]) <= Len(down[n]) + n
          BY <1>8
        <4>2. Len(up[n]) \in Nat /\ Len(down[n]) \in Nat /\ Len(v) \in Nat
          BY <2>1, <2>2
        <4>3. \A x, y, z \in Nat : x <= y + n => x + 2 + z <= (y + 1 + z) + (n + 1)
          BY <2>1
        <4> HIDE DEF N
        <4>4. Len(up[n]) + 2 + Len(v) <= (Len(down[n]) + 1 + Len(v)) + (n + 1)
          BY <4>1, <4>2, <4>3
        <4>5. QED
          BY <3>9, <4>4
      <3>11. QED
        BY <2>1, <3>8, <3>10
    <2>5. QED
      BY <2>3, <2>4
  <1>9. N \in T
    <2> HIDE DEF T
    <2>1. QED
      BY <1>1, <1>7, <1>8, Upward
  <1>10. PICK to \in Scannings : Reaches(Unscanned, up[N], to) /\ Reaches(Unscanned, down[N], to)
    BY <1>9
  <1>11. up[N] \in Seq(Characters) /\ down[N] \in Seq(Characters) /\ Len(up[N]) <= Len(down[N]) + N
    BY <1>1, <1>5, <1>6, <1>9 DEF Joins
  <1>12. Tokens(up[N]) = Closed(to) /\ Tokens(down[N]) = Closed(to)
    BY <1>10, <1>11, TokensAre
  <1>13. JoinBy(values, two) = up[N] /\ JoinBy(values, one) = down[N]
    BY <1>5, <1>6 DEF Joins
  <1>14. QED
    BY <1>11, <1>12, <1>13 DEF two, one

(* A text of blanks has no tokens; so what has some is not trimmed away.   *)
Blank(text) == \A i \in DOMAIN text : text[i] = " "
LEMMA BlanksAreNoTokens ==
    ASSUME NEW text \in Seq(Characters), Blank(text)
    PROVE  Tokens(text) = <<>>
  <1> DEFINE f == [n \in 0 .. Len(text) |-> Unscanned]
  <1>1. Len(text) \in Nat /\ DOMAIN text = 1 .. Len(text)
    OBVIOUS
  <1>2. Unscanned \in Scannings /\ Scanned(Unscanned, " ") = Unscanned /\ Closed(Unscanned) = <<>>
    <2>1. Unscanned \in Scannings
      BY DEF Unscanned, Scannings
    <2>2. Closed(Unscanned) = <<>>
      BY DEF Unscanned, Closed
    <2>3. Scanned(Unscanned, " ") = Unscanned
      BY <2>2 DEF Unscanned, Scanned
    <2>4. QED
      BY <2>1, <2>2, <2>3
  <1>3. \A n \in 0 .. Len(text) : f[n] = Unscanned
    OBVIOUS
  <1>4. f \in [0 .. Len(text) -> Scannings]
    BY <1>2
  <1> HIDE DEF f
  <1>5. Scanning(f, Unscanned, text)
    <2>1. 0 \in 0 .. Len(text) /\ \A n \in 1 .. Len(text) : n \in 0 .. Len(text) /\ n - 1 \in 0 .. Len(text)
      BY <1>1
    <2>2. \A n \in 1 .. Len(text) : Scanned(Unscanned, text[n]) = Unscanned
      BY <1>1, <1>2 DEF Blank
    <2>3. QED
      BY <1>3, <1>4, <2>1, <2>2 DEF Scanning
  <1>6. Reaches(Unscanned, text, Unscanned)
    <2>1. Len(text) \in 0 .. Len(text)
      BY <1>1
    <2>2. QED
      BY <1>3, <1>5, <2>1 DEF Reaches
  <1>7. QED
    BY <1>2, <1>6, TokensAre

LEMMA TrimmedHasText ==
    ASSUME NEW text \in Seq(Characters), Tokens(text) # <<>>
    PROVE  Trim(text) # <<>>
  <1> DEFINE kept == {i \in DOMAIN text : text[i] # " "}
  <1>1. Len(text) \in Nat /\ DOMAIN text = 1 .. Len(text)
    OBVIOUS
  <1>2. kept \subseteq 1 .. Len(text) /\ kept # {}
    <2>1. ~Blank(text)
      BY BlanksAreNoTokens
    <2>2. kept # {}
      BY <2>1 DEF Blank
    <2>3. kept \subseteq DOMAIN text
      OBVIOUS
    <2> HIDE DEF kept
    <2>4. QED
      BY <1>1, <2>2, <2>3
  <1> DEFINE low == CHOOSE i \in kept : \A j \in kept : i <= j
             high == CHOOSE i \in kept : \A j \in kept : j <= i
  <1>3. Trim(text) = SubSeq(text, low, high)
    BY <1>2 DEF Trim
  <1> HIDE DEF kept
  <1>4. low \in kept /\ \A j \in kept : low <= j
    <2>1. kept \in SUBSET Nat
      BY <1>1, <1>2
    <2>2. \E i \in kept : \A j \in kept : i <= j
      BY <1>2, <2>1, LeastOf
    <2>3. QED
      BY <2>2
  <1>5. high \in kept
    <2> DEFINE back == {Len(text) - i : i \in kept}
    <2>1. back \in SUBSET Nat /\ back # {}
      <3>1. \A i \in kept : Len(text) - i \in Nat
        BY <1>1, <1>2
      <3>2. QED
        BY <1>2, <3>1
    <2>2. PICK b \in back : \A m \in back : b <= m
      <3> HIDE DEF back
      <3>1. QED
        BY <2>1, LeastOf
    <2>3. PICK i \in kept : b = Len(text) - i
      BY <2>2
    <2>4. \A j \in kept : j <= i
      <3>1. \A j \in kept : Len(text) - i <= Len(text) - j
        BY <2>2, <2>3
      <3>2. QED
        BY <1>1, <1>2, <3>1
    <2>5. QED
      BY <2>4
  <1> HIDE DEF low, high
  <1>6. low \in 1 .. Len(text) /\ high \in 1 .. Len(text) /\ low <= high
    BY <1>2, <1>4, <1>5
  <1>7. Len(SubSeq(text, low, high)) = high - low + 1
    BY <1>1, <1>6, SubSeqProperties
  <1>8. high - low + 1 # 0
    BY <1>1, <1>6
  <1>9. Len(<<>>) = 0
    OBVIOUS
  <1>10. QED
    BY <1>3, <1>7, <1>8, <1>9
(* A token is a candidate, and so is what stands behind its label.         *)
IsSign(token, i) == token[i] = "=" /\ \A j \in 1 .. i - 1 : token[j] # "="
LEMMA PiecesAre ==
    ASSUME NEW token \in Seq(Characters)
    PROVE  /\ Pieces(token) \in Seq(Seq(Characters))
           /\ Len(Pieces(token)) \in {1, 2} /\ Pieces(token)[1] = token
  <1> DEFINE at == CHOOSE i \in DOMAIN token : IsSign(token, i)
             rest == SubSeq(token, at + 1, Len(token))
             both == <<token, rest>>
             alone == <<token>>
  <1>1. Pieces(token) = both \/ Pieces(token) = alone
    BY DEF Pieces, IsSign
  <1>2. alone \in Seq(Seq(Characters)) /\ Len(alone) = 1 /\ alone[1] = token
    <2>1. \A C : \A x \in C : <<x>> \in Seq(C)
      OBVIOUS
    <2>2. QED
      BY <2>1
  <1>3. CASE \E i \in DOMAIN token : IsSign(token, i)
    <2>1. at \in DOMAIN token
      BY <1>3
    <2> HIDE DEF at
    <2>2. at + 1 \in Int /\ Len(token) \in Int /\ \A i \in at + 1 .. Len(token) : token[i] \in Characters
      BY <2>1
    <2>3. rest \in Seq(Characters)
      BY <2>2, SubSeqProperties
    <2> HIDE DEF rest
    <2>4. \A C : \A x, y \in C : <<x, y>> \in Seq(C)
      OBVIOUS
    <2>5. both \in Seq(Seq(Characters)) /\ Len(both) = 2 /\ both[1] = token
      BY <2>3, <2>4
    <2>6. QED
      BY <1>1, <1>2, <2>5
  <1>4. CASE ~ \E i \in DOMAIN token : IsSign(token, i)
    <2>1. Pieces(token) = alone
      BY <1>4 DEF Pieces, IsSign
    <2>2. QED
      BY <1>2, <2>1
  <1>5. QED
    BY <1>3, <1>4

LEMMA OneOf ==
    ASSUME NEW S, NEW s, NEW i \in Nat, s[i] \in S
    PROVE  SubSeq(s, i, i) = <<s[i]>>
  <1> DEFINE a == SubSeq(s, i, i)
             x == s[i]
             b == <<x>>
  <1>1. i \in Int /\ \A k \in i .. i : s[k] \in S
    OBVIOUS
  <1>2. a \in Seq(S) /\ Len(a) = 1 /\ a[1] = x
    <2>1. /\ a \in Seq(S) /\ Len(a) = IF i <= i THEN i - i + 1 ELSE 0
          /\ \A k \in 1 .. i - i + 1 : a[k] = s[i + k - 1]
      BY <1>1, SubSeqProperties
    <2>2. i <= i /\ i - i + 1 = 1 /\ i + 1 - 1 = i
      OBVIOUS
    <2>3. QED
      BY <2>1, <2>2
  <1> HIDE DEF a, x
  <1>3. b \in Seq({x}) /\ Len(b) = 1 /\ b[1] = x
    OBVIOUS
  <1>4. DOMAIN a = 1 .. 1 /\ a = [k \in 1 .. 1 |-> a[k]] /\ DOMAIN b = 1 .. 1 /\ b = [k \in 1 .. 1 |-> b[k]]
    BY <1>2, <1>3
  <1> HIDE DEF b
  <1>5. a = b
    <2>1. \A k \in 1 .. 1 : k = 1
      OBVIOUS
    <2>2. QED
      BY <1>2, <1>3, <1>4, <2>1
  <1>6. QED
    BY <1>5 DEF a, b, x

LEMMA LabelledPieces ==
    LET token == <<"l", "=", "S">>
    IN  Len(Pieces(token)) = 2 /\ Pieces(token)[2] = <<"S">>
  <1> DEFINE token == <<"l", "=", "S">>
             at == CHOOSE i \in DOMAIN token : IsSign(token, i)
             label == SubSeq(token, 1, at - 1)
             rest == SubSeq(token, at + 1, Len(token))
  <1>1. DOMAIN token = 1 .. 3 /\ Len(token) = 3 /\ token[1] = "l" /\ token[2] = "=" /\ token[3] = "S"
    OBVIOUS
  <1> HIDE DEF token
  <1>2. IsSign(token, 2) /\ \A i \in DOMAIN token : IsSign(token, i) => i = 2
    <2>1. \A j \in 1 .. 2 - 1 : j = 1
      OBVIOUS
    <2>2. \A i \in 1 .. 3 : i = 1 \/ i = 2 \/ i = 3
      OBVIOUS
    <2>3. "l" # "=" /\ "S" # "="
      OBVIOUS
    <2>4. QED
      BY <1>1, <2>1, <2>2, <2>3 DEF IsSign
  <1>3. at = 2 /\ 2 \in DOMAIN token
    BY <1>1, <1>2
  <1> HIDE DEF at
  <1>4. label = <<"l">>
    <2>1. label = SubSeq(token, 1, 1)
      BY <1>3
    <2>2. SubSeq(token, 1, 1) = <<token[1]>>
      BY OneOf
    <2>3. QED
      BY <1>1, <2>1, <2>2
  <1>5. rest = <<"S">>
    <2>1. rest = SubSeq(token, 3, 3)
      BY <1>1, <1>3
    <2>2. SubSeq(token, 3, 3) = <<token[3]>>
      BY OneOf
    <2>3. QED
      BY <1>1, <2>1, <2>2
  <1> HIDE DEF label, rest
  <1>6. rest # <<>> /\ Len(label) \in 1 .. MaxLabel /\ \A i \in DOMAIN label : label[i] \in LabelChars
    <2>1. rest # <<>>
      BY <1>5
    <2>2. Len(label) = 1 /\ MaxLabel \in Nat /\ MaxLabel > 0
      BY <1>4, CheckAssumption
    <2>3. \A i \in DOMAIN label : label[i] \in LabelChars
      BY <1>4 DEF LabelChars
    <2>4. QED
      BY <2>1, <2>2, <2>3
  <1>7. Pieces(token) = <<token, rest>>
    BY <1>2, <1>3, <1>6 DEF Pieces, IsSign, at, label, rest
  <1>8. QED
    BY <1>5, <1>7 DEF token

(* The first tokens are among the candidates, with all of their pieces.    *)
LEMMA FirstTokensAreTried ==
    ASSUME NEW text \in Seq(Characters), NEW i \in DOMAIN Tokens(text), 2 * i <= MaxCandidates,
           NEW j \in DOMAIN Pieces(Tokens(text)[i])
    PROVE  \E m \in DOMAIN Candidates(text) : Candidates(text)[m] = Pieces(Tokens(text)[i])[j]
  <1> DEFINE tokens == Tokens(text)
             N == Len(tokens)
             pieces == [n \in DOMAIN tokens |-> Pieces(tokens[n])]
             none == <<>>
  <1>1. tokens \in Seq(Seq(Characters))
    <2>1. PICK up : Scans(up, text)
      BY ScanIs
    <2>2. up[Len(text)] \in Scannings
      BY <2>1 DEF Scans
    <2>3. Closed(up[Len(text)]) \in Seq(Seq(Characters))
      <3>1. " " \in Characters
        BY CheckAssumption
      <3>2. QED
        BY <2>2, <3>1, ScannedTyped
    <2>4. QED
      BY <2>1, <2>3 DEF Scans
  <1>2. N \in Nat /\ DOMAIN tokens = 1 .. N /\ i \in 1 .. N /\ \A n \in 1 .. N : tokens[n] \in Seq(Characters)
    BY <1>1
  <1>3. \A n \in 1 .. N : /\ Pieces(tokens[n]) \in Seq(Seq(Characters))
                          /\ Len(Pieces(tokens[n])) \in {1, 2}
    BY <1>2, PiecesAre
  <1>4. pieces \in Seq(Seq(Seq(Characters))) /\ Len(pieces) = N
    BY <1>2, <1>3
  <1>5. \A n \in 1 .. N : pieces[n] = Pieces(tokens[n])
    BY <1>2
  <1>6. none \in Seq(Seq(Characters))
    OBVIOUS
  <1>7. Candidates(text) = LET all == JoinBy(pieces, none)
                           IN  SubSeq(all, 1, IF Len(all) < MaxCandidates THEN Len(all) ELSE MaxCandidates)
    BY DEF Candidates
  <1>8. Len(none) = 0
    OBVIOUS
  <1> HIDE DEF tokens, pieces, none
  <1>9. PICK up : Joins(up, pieces, none, Seq(Characters))
    BY <1>4, <1>6, JoinIs
  <1> HIDE DEF N
  <1>10. \A n \in 0 .. N : up[n] \in Seq(Seq(Characters))
    BY <1>4, <1>9 DEF Joins
  \* Each token adds its pieces, one or two of them.
  <1> DEFINE Longer(n) == Len(up[n + 1]) = Len(up[n]) + Len(pieces[n + 1])
             Keeps(n) == \A k \in 1 .. Len(up[n]) : up[n + 1][k] = up[n][k]
             Adds(n) == \A k \in 1 .. Len(pieces[n + 1]) : up[n + 1][Len(up[n]) + k] = pieces[n + 1][k]
  <1>11. ASSUME NEW n \in 0 .. N, n # N PROVE Longer(n) /\ Keeps(n) /\ Adds(n)
    <2> DEFINE p == pieces[n + 1]
    <2>1. n + 1 \in 1 .. N /\ n \in 0 .. N /\ (n + 1) - 1 = n
      BY <1>2, <1>11
    <2>2. p \in Seq(Seq(Characters)) /\ up[n] \in Seq(Seq(Characters))
      BY <1>3, <1>5, <1>10, <2>1
    <2>3. CASE n = 0
      <3>1. up[n] = none /\ up[n + 1] = p
        BY <1>2, <1>4, <1>9, <2>1, <2>3 DEF Joins, none
      <3> HIDE DEF p
      <3>2. Len(p) \in Nat
        BY <2>2
      <3>3. Len(up[n]) = 0 /\ \A k \in 1 .. Len(p) : Len(up[n]) + k = k
        BY <1>8, <3>1, <3>2
      <3>4. Longer(n) /\ Keeps(n) /\ Adds(n)
        BY <3>1, <3>2, <3>3 DEF p
      <3>5. QED
        BY <3>4
    <2>4. CASE n # 0
      <3>1. n + 1 \in 2 .. N
        BY <1>2, <1>11, <2>4
      <3>2. up[n + 1] = (up[n] \o none) \o p
        BY <1>4, <1>9, <2>1, <3>1 DEF Joins
      <3>3. up[n] \o none = up[n]
        BY <2>2 DEF none
      <3> HIDE DEF p
      <3>4. /\ Len(up[n] \o p) = Len(up[n]) + Len(p)
            /\ \A k \in 1 .. Len(up[n]) + Len(p) : (up[n] \o p)[k] = IF k <= Len(up[n]) THEN up[n][k] ELSE p[k - Len(up[n])]
        BY <2>2, ConcatProperties
      <3>5. Len(up[n]) \in Nat /\ Len(p) \in Nat
        BY <2>2
      <3>6. \A k \in 1 .. Len(p) : /\ Len(up[n]) + k \in 1 .. Len(up[n]) + Len(p)
                                   /\ ~(Len(up[n]) + k <= Len(up[n])) /\ (Len(up[n]) + k) - Len(up[n]) = k
        BY <3>5
      <3>7. \A k \in 1 .. Len(up[n]) : k \in 1 .. Len(up[n]) + Len(p) /\ k <= Len(up[n])
        BY <3>5
      <3>8. up[n + 1] = up[n] \o p
        BY <3>2, <3>3
      <3>9. Longer(n)
        BY <3>4, <3>8 DEF p
      <3>10. Keeps(n)
        BY <3>4, <3>7, <3>8
      <3>11. \A k \in 1 .. Len(p) : (up[n] \o p)[Len(up[n]) + k] = p[k]
        BY <3>4, <3>6
      <3>12. Adds(n)
        BY <3>8, <3>11 DEF p
      <3>13. QED
        BY <3>9, <3>10, <3>12
    <2>5. QED
      BY <2>3, <2>4
  <1>12. \A n \in 0 .. N : Len(up[n]) \in Nat
    BY <1>10
  <1>13. \A n \in 1 .. N : Len(pieces[n]) \in {1, 2}
    BY <1>3, <1>5
  <1>14. \A n \in 0 .. N : Len(up[n]) <= 2 * n
    <2> DEFINE Few == {n \in 0 .. N : Len(up[n]) <= 2 * n}
    <2>1. 0 \in Few
      <3>1. up[0] = none /\ 0 \in 0 .. N
        BY <1>2, <1>9 DEF Joins, none
      <3>2. QED
        BY <1>8, <3>1
    <2>2. ASSUME NEW n \in 0 .. N, n \in Few, n # N PROVE n + 1 \in Few
      <3>1. n + 1 \in 1 .. N /\ n + 1 \in 0 .. N
        BY <1>2, <2>2
      <3>2. Longer(n)
        BY <1>11, <2>2
      <3>3. Len(up[n]) <= 2 * n /\ Len(up[n]) \in Nat
        BY <1>12, <2>2
      <3>4. Len(pieces[n + 1]) \in {1, 2}
        BY <1>13, <3>1
      <3>5. \A x \in Nat, y \in {1, 2} : x <= 2 * n => x + y <= 2 * (n + 1)
        BY <3>1
      <3>6. Len(up[n]) + Len(pieces[n + 1]) <= 2 * (n + 1)
        BY <3>3, <3>4, <3>5
      <3>7. Len(up[n + 1]) <= 2 * (n + 1)
        BY <3>2, <3>6
      <3>8. QED
        BY <3>1, <3>7
    <2> HIDE DEF Few
    <2>3. \A n \in 0 .. N : n \in Few
      BY <1>2, <2>1, <2>2, Upward
    <2>4. QED
      BY <2>3 DEF Few
  <1> DEFINE place == Len(up[i - 1]) + j
             Stays(n) == n < i \/ (place <= Len(up[n]) /\ up[n][place] = pieces[i][j])
  <1>15. /\ i - 1 \in 0 .. N /\ i - 1 # N /\ (i - 1) + 1 = i /\ i \in 0 .. N
         /\ j \in 1 .. Len(pieces[i]) /\ Len(pieces[i]) \in Nat
    <2>1. i - 1 \in 0 .. N /\ i - 1 # N /\ (i - 1) + 1 = i /\ i \in 0 .. N
      BY <1>2
    <2>2. pieces[i] \in Seq(Seq(Characters)) /\ j \in DOMAIN pieces[i]
      BY <1>2, <1>3, <1>5 DEF tokens
    <2>3. QED
      BY <2>1, <2>2
  <1>16. place \in 1 .. Len(up[i]) /\ up[i][place] = pieces[i][j]
    <2>1. Longer(i - 1) /\ Adds(i - 1)
      BY <1>11, <1>15
    <2>2. Len(up[i]) = Len(up[i - 1]) + Len(pieces[i])
      BY <1>15, <2>1
    <2>3. up[i][place] = pieces[i][j]
      BY <1>15, <2>1
    <2>4. Len(up[i - 1]) \in Nat
      BY <1>12, <1>15
    <2>5. place \in 1 .. Len(up[i])
      <3>1. \A x, l \in Nat : \A y \in 1 .. l : x + y \in 1 .. x + l
        OBVIOUS
      <3>2. place \in 1 .. Len(up[i - 1]) + Len(pieces[i])
        BY <1>15, <2>4, <3>1
      <3>3. QED
        BY <2>2, <3>2
    <2>6. QED
      BY <2>3, <2>5
  <1> HIDE DEF place
  <1>17. Stays(N)
    <2> DEFINE T == {n \in 0 .. N : Stays(n)}
    <2>1. 0 \in T
      BY <1>2
    <2>2. ASSUME NEW n \in 0 .. N, n \in T, n # N PROVE n + 1 \in T
      <3>1. n + 1 \in 0 .. N /\ n + 1 \in 1 .. N /\ n \in Int
        BY <1>2, <2>2
      <3>2. CASE n + 1 < i
        BY <3>1, <3>2
      <3>3. CASE n + 1 = i
        BY <1>16, <3>1, <3>3
      <3>4. CASE n + 1 > i
        <4>1. ~(n < i)
          BY <1>2, <3>1, <3>4
        <4>2. place <= Len(up[n]) /\ up[n][place] = pieces[i][j]
          BY <2>2, <4>1
        <4>3. place \in 1 .. Len(up[n])
          BY <1>12, <1>15, <1>16, <2>2, <4>2
        <4>4. up[n + 1][place] = up[n][place]
          <5>1. Keeps(n)
            BY <1>11, <2>2
          <5>2. QED
            BY <4>3, <5>1
        <4>5. place <= Len(up[n + 1])
          <5>1. Len(pieces[n + 1]) \in {1, 2} /\ Len(up[n]) \in Nat
            BY <1>12, <1>13, <2>2, <3>1
          <5>2. Longer(n)
            BY <1>11, <2>2
          <5>3. \A x, y \in Nat : \A z \in 1 .. x : z <= x + y
            OBVIOUS
          <5>4. place <= Len(up[n]) + Len(pieces[n + 1])
            <6>1. Len(pieces[n + 1]) \in Nat
              BY <5>1
            <6>2. QED
              BY <4>3, <5>1, <5>3, <6>1
          <5>5. QED
            BY <5>2, <5>4
        <4>6. QED
          BY <3>1, <4>2, <4>4, <4>5
      <3>5. QED
        BY <1>2, <3>1, <3>2, <3>3, <3>4
    <2>3. \A n \in 0 .. N : n \in T
      <3> HIDE DEF T
      <3>1. QED
        BY <1>2, <2>1, <2>2, Upward
    <2>4. N \in 0 .. N
      BY <1>2
    <2>5. QED
      BY <2>3, <2>4
  <1>18. place \in 1 .. Len(up[N]) /\ up[N][place] = pieces[i][j] /\ place <= MaxCandidates
    <2>1. ~(N < i) /\ N \in 0 .. N
      BY <1>2
    <2>2. place <= Len(up[N]) /\ up[N][place] = pieces[i][j]
      BY <1>17, <2>1
    <2>3. Len(up[N]) \in Nat /\ Len(up[i]) \in Nat /\ Len(up[i]) <= 2 * i /\ MaxCandidates \in Nat
      BY <1>12, <1>14, <1>15, <2>1, CheckAssumption
    <2>4. place <= MaxCandidates
      BY <1>2, <1>16, <2>3
    <2>5. QED
      BY <1>16, <2>2, <2>3, <2>4
  <1> DEFINE all == JoinBy(pieces, none)
             end == IF Len(all) < MaxCandidates THEN Len(all) ELSE MaxCandidates
  <1>19. all = up[N] /\ all \in Seq(Seq(Characters))
    <2>1. N \in 0 .. N
      BY <1>2
    <2>2. QED
      BY <1>4, <1>9, <1>10, <2>1 DEF Joins
  <1>20. Candidates(text) = SubSeq(all, 1, end)
    BY <1>7
  <1> HIDE DEF all
  <1>21. end \in Nat /\ end <= Len(all) /\ place \in 1 .. end
    <2>1. Len(all) \in Nat /\ MaxCandidates \in Nat
      <3>1. MaxCandidates \in Nat
        BY CheckAssumption
      <3>2. Len(all) \in Nat
        BY <1>19
      <3>3. QED
        BY <3>1, <3>2
    <2>2. place \in 1 .. Len(all) /\ place <= MaxCandidates
      BY <1>18, <1>19
    <2>3. QED
      BY <2>1, <2>2
  <1> HIDE DEF end
  <1>22. DOMAIN SubSeq(all, 1, end) = 1 .. end /\ SubSeq(all, 1, end)[place] = all[place]
    BY <1>19, <1>21
  <1>23. pieces[i][j] = Pieces(Tokens(text)[i])[j]
    BY <1>2, <1>5 DEF tokens
  <1>24. QED
    BY <1>18, <1>19, <1>20, <1>21, <1>22, <1>23
(* The value of a header is that of all headers of its name, joined.       *)
LEMMA ValuesTyped ==
    ASSUME NEW headers \in Seq(Headers), NEW name
    PROVE  ValuesOf(headers, name) \in Seq(Seq(Characters))
  <1>1. PICK up : Collects(up, headers, name)
    BY ValuesAre
  <1>2. Len(headers) \in 0 .. Len(headers)
    OBVIOUS
  <1>3. QED
    BY <1>1, <1>2 DEF Collects

LEMMA ValuesHaveHeader ==
    ASSUME NEW headers \in Seq(Headers), NEW name, ValuesOf(headers, name) # <<>>
    PROVE  \E k \in 1 .. Len(headers) : headers[k][1] = name
  <1>1. SUFFICES ASSUME \A k \in 1 .. Len(headers) : headers[k][1] # name PROVE FALSE
    OBVIOUS
  <1>2. PICK up : Collects(up, headers, name)
    BY ValuesAre
  <1> DEFINE N == Len(headers)
             T == {n \in 0 .. N : up[n] = <<>>}
  <1>3. N \in Nat /\ N \in 0 .. N /\ 0 \in T
    BY <1>2 DEF Collects
  <1>4. ASSUME NEW n \in 0 .. N, n \in T, n # N PROVE n + 1 \in T
    <2>1. n + 1 \in 1 .. N /\ n + 1 \in 0 .. N /\ (n + 1) - 1 = n
      BY <1>3, <1>4
    <2>2. up[n + 1] = WithValue(up[n], headers[n + 1], name)
      BY <1>2, <2>1 DEF Collects
    <2>3. headers[n + 1][1] # name
      BY <1>1, <2>1
    <2>4. up[n + 1] = up[n]
      BY <2>2, <2>3 DEF WithValue
    <2>5. QED
      BY <1>4, <2>1, <2>4
  <1> HIDE DEF T
  <1>5. N \in T
    BY <1>3, <1>4, Upward
  <1>6. QED
    BY <1>2, <1>5 DEF Collects, T

LEMMA NamesHoldEach ==
    ASSUME NEW headers \in Seq(Headers), NEW k \in 1 .. Len(headers)
    PROVE  /\ Names(headers) \in Seq(Seq(Characters))
           /\ \E i \in DOMAIN Names(headers) : Names(headers)[i] = headers[k][1]
  <1>1. PICK up : Named1(up, headers)
    BY NamesAre
  <1> DEFINE N == Len(headers)
             Holds(n) == \E i \in 1 .. Len(up[n]) : up[n][i] = headers[k][1]
             T == {n \in 0 .. N : n < k \/ Holds(n)}
  <1>2. N \in Nat /\ N \in 0 .. N /\ 0 \in T /\ k \in 1 .. N
    OBVIOUS
  <1>3. \A n \in 0 .. N : up[n] \in Seq(Seq(Characters))
    BY <1>1 DEF Named1
  <1>4. ASSUME NEW n \in 0 .. N, n \in T, n # N PROVE n + 1 \in T
    <2> DEFINE name == headers[n + 1][1]
               names == up[n]
    <2>1. n + 1 \in 1 .. N /\ n + 1 \in 0 .. N /\ (n + 1) - 1 = n
      BY <1>2, <1>4
    <2>2. up[n + 1] = WithName(names, name)
      BY <1>1, <2>1 DEF Named1
    <2>3. names \in Seq(Seq(Characters)) /\ name \in Seq(Characters)
      <3>1. headers[n + 1] \in Headers
        BY <2>1
      <3>2. QED
        BY <1>3, <3>1 DEF Headers
    <2>4. CASE n + 1 < k
      BY <2>1, <2>4
    <2>5. CASE n + 1 = k
      <3>1. CASE \E i \in DOMAIN names : names[i] = name
        <4>1. up[n + 1] = names
          BY <2>2, <3>1 DEF WithName
        <4>2. DOMAIN names = 1 .. Len(names)
          BY <2>3
        <4>3. Holds(n + 1)
          BY <2>5, <3>1, <4>1, <4>2
        <4>4. QED
          BY <2>1, <4>3
      <3>2. CASE ~ \E i \in DOMAIN names : names[i] = name
        <4>1. up[n + 1] = Append(names, name)
          BY <2>2, <3>2 DEF WithName
        <4> HIDE DEF name, names
        <4>2. Len(Append(names, name)) = Len(names) + 1 /\ Append(names, name)[Len(names) + 1] = name
          BY <2>3, AppendProperties
        <4>3. Len(names) + 1 \in 1 .. Len(names) + 1
          BY <2>3
        <4>4. Holds(n + 1)
          BY <2>5, <4>1, <4>2, <4>3 DEF name
        <4>5. QED
          BY <2>1, <4>4
      <3>3. QED
        BY <3>1, <3>2
    <2>6. CASE n + 1 > k
      <3>1. ~(n < k)
        BY <1>2, <2>1, <2>6
      <3>2. PICK i \in 1 .. Len(names) : names[i] = headers[k][1]
        BY <1>4, <3>1
      <3>3. CASE up[n + 1] = names
        BY <2>1, <3>2, <3>3
      <3>4. CASE up[n + 1] = Append(names, name)
        <4> HIDE DEF name, names
        <4>1. Len(Append(names, name)) = Len(names) + 1 /\ Append(names, name)[i] = names[i]
          BY <2>3, <3>2, AppendProperties
        <4>2. i \in 1 .. Len(names) + 1
          BY <2>3, <3>2
        <4>3. Holds(n + 1)
          BY <3>2, <3>4, <4>1, <4>2
        <4>4. QED
          BY <2>1, <4>3
      <3>5. QED
        BY <2>2, <3>3, <3>4 DEF WithName
    <2>7. QED
      BY <1>2, <2>1, <2>4, <2>5, <2>6
  <1>5. N \in T
    <2> HIDE DEF T
    <2>1. QED
      BY <1>2, <1>4, Upward
  <1>6. Holds(N)
    BY <1>2, <1>5
  <1>7. Names(headers) = up[N] /\ DOMAIN up[N] = 1 .. Len(up[N]) /\ up[N] \in Seq(Seq(Characters))
    BY <1>1, <1>2, <1>3 DEF Named1
  <1>8. QED
    BY <1>6, <1>7

LEMMA HeaderIsFound ==
    ASSUME NEW headers \in Seq(Headers), NEW name, ValuesOf(headers, name) # <<>>
    PROVE  /\ HeadersObject(headers).type = "object"
           /\ Find(HeadersObject(headers).members, name) =
                  TextValue(JoinBy(ValuesOf(headers, name), <<",", " ">>))
  <1> DEFINE names == Names(headers)
             Joined(x) == JoinBy(ValuesOf(headers, x), <<",", " ">>)
             pairs == [i \in DOMAIN names |-> <<names[i], Joined(names[i])>>]
             members == [i \in DOMAIN pairs |-> <<pairs[i][1], TextValue(pairs[i][2])>>]
  <1>1. PICK k \in 1 .. Len(headers) : headers[k][1] = name
    BY ValuesHaveHeader
  <1>2. names \in Seq(Seq(Characters)) /\ \E i \in DOMAIN names : names[i] = name
    BY <1>1, NamesHoldEach
  <1>3. DOMAIN names = 1 .. Len(names) /\ Len(names) \in Nat
    BY <1>2
  <1>4. HeadersObject(headers) = ObjectOf(members)
    BY DEF HeadersObject, Pairs
  <1> HIDE DEF names, Joined
  <1>5. DOMAIN members = 1 .. Len(names)
    BY <1>3
  <1>6. \A i \in 1 .. Len(names) : members[i][1] = names[i] /\ members[i][2] = TextValue(Joined(names[i]))
    BY <1>3
  <1> HIDE DEF pairs, members
  <1> DEFINE Hits == {i \in 1 .. Len(names) : members[i][1] = name}
             first == CHOOSE i \in DOMAIN members : /\ members[i][1] = name
                                                    /\ \A j \in 1 .. i - 1 : members[j][1] # name
  <1>7. Hits \in SUBSET Nat /\ Hits # {}
    <2>1. 1 .. Len(names) \subseteq Nat
      BY <1>3
    <2>2. PICK i \in 1 .. Len(names) : names[i] = name
      BY <1>2, <1>3
    <2>3. i \in Hits
      BY <1>6, <2>2
    <2>4. QED
      BY <2>1, <2>3
  <1>8. PICK least \in Hits : \A j \in Hits : least <= j
    <2> HIDE DEF Hits
    <2>1. QED
      BY <1>7, LeastOf
  <1>9. \A j \in 1 .. least - 1 : members[j][1] # name
    <2>1. SUFFICES ASSUME NEW j \in 1 .. least - 1, members[j][1] = name PROVE FALSE
      OBVIOUS
    <2>2. j \in 1 .. Len(names) /\ ~(least <= j)
      BY <1>3, <1>8
    <2>3. QED
      BY <1>8, <2>1, <2>2
  <1>10. first \in DOMAIN members /\ members[first][1] = name
    BY <1>5, <1>8, <1>9
  <1>11. Find(members, name) = members[first][2]
    BY <1>10 DEF Find
  <1> HIDE DEF first
  <1>12. members[first][2] = TextValue(Joined(name))
    BY <1>5, <1>6, <1>10
  <1>13. ObjectOf(members).type = "object" /\ ObjectOf(members).members = members
    BY DEF ObjectOf
  <1>14. QED
    BY <1>4, <1>11, <1>12, <1>13 DEF Joined

(* A path of one segment.                                                  *)
IsIndex(f, result, segments) ==
    f = [n \in 0 .. Len(segments) |-> IF n = 0 THEN result ELSE MemberOf(f[n - 1], segments[n])]
LEMMA IndexOne ==
    ASSUME NEW result, NEW segments, Len(segments) = 1
    PROVE  Index(result, segments) = MemberOf(result, segments[1])
  <1> DEFINE g == [n \in 0 .. 1 |-> IF n = 0 THEN result ELSE MemberOf(result, segments[1])]
  <1>1. \A n \in 0 .. 1 : n = 0 \/ (n = 1 /\ n - 1 = 0)
    OBVIOUS
  <1>2. g[0] = result /\ g[1] = MemberOf(result, segments[1]) /\ g = [n \in 0 .. 1 |-> g[n]]
    OBVIOUS
  <1> HIDE DEF g
  <1>3. \A n \in 0 .. 1 : g[n] = IF n = 0 THEN result ELSE MemberOf(g[n - 1], segments[n])
    BY <1>1, <1>2
  <1>4. IsIndex(g, result, segments)
    BY <1>2, <1>3 DEF IsIndex
  <1> DEFINE Def(f) == IsIndex(f, result, segments)
             at == CHOOSE f : Def(f)
  <1>5. Def(at)
    <2>1. Def(g)
      BY <1>4
    <2> HIDE DEF Def
    <2>2. QED
      BY <2>1
  <1>6. Index(result, segments) = at[Len(segments)]
    BY DEF Index, IsIndex
  <1> HIDE DEF at
  <1>7. at = [n \in 0 .. 1 |-> IF n = 0 THEN result ELSE MemberOf(at[n - 1], segments[n])]
    BY <1>5 DEF IsIndex
  <1> HIDE DEF Def
  <1>8. at[0] = result /\ at[1] = MemberOf(at[0], segments[1])
    <2>1. 0 \in 0 .. 1 /\ 1 \in 0 .. 1 /\ 1 # 0 /\ 1 - 1 = 0
      OBVIOUS
    <2>2. at[0] = result
      BY <1>7, <2>1
    <2>3. at[1] = MemberOf(at[1 - 1], segments[1])
      BY <1>7, <2>1
    <2>4. QED
      BY <2>1, <2>2, <2>3
  <1>9. QED
    BY <1>6, <1>8

LEMMA TokensTyped ==
    ASSUME NEW text \in Seq(Characters)
    PROVE  Tokens(text) \in Seq(Seq(Characters))
  <1>1. PICK up : Scans(up, text)
    BY ScanIs
  <1>2. up[Len(text)] \in Scannings
    BY <1>1 DEF Scans
  <1>3. " " \in Characters
    BY CheckAssumption
  <1>4. Closed(up[Len(text)]) \in Seq(Seq(Characters))
    BY <1>2, <1>3, ScannedTyped
  <1>5. QED
    BY <1>1, <1>4 DEF Scans

LEMMA NothingHasNoTokens == JoinBy(<<>>, <<" ">>) = <<>> /\ Tokens(<<>>) = <<>>
  <1> DEFINE none == <<>>
             one == <<" ">>
  <1>1. none \in Seq(Seq(Characters)) /\ Len(none) = 0 /\ Blank(none)
    BY DEF Blank
  <1>2. one \in Seq(Characters)
    <2>1. \A C : \A a \in C : <<a>> \in Seq(C)
      OBVIOUS
    <2>2. " " \in Characters
      BY CheckAssumption
    <2>3. QED
      BY <2>1, <2>2
  <1>3. none \in Seq(Characters)
    OBVIOUS
  <1> HIDE DEF one
  <1>4. JoinBy(none, one) = <<>>
    <2> HIDE DEF none
    <2>1. PICK up : Joins(up, none, one, Characters)
      BY <1>1, <1>2, JoinIs
    <2>2. QED
      BY <1>1, <2>1 DEF Joins
  <1>5. Tokens(none) = <<>>
    <2> HIDE DEF none
    <2>1. QED
      BY <1>1, <1>3, BlanksAreNoTokens
  <1>6. QED
    BY <1>4, <1>5 DEF one

(* What is found where a provider's signature is said to be.               *)
LEMMA LocatedIs ==
    ASSUME NEW r, NEW key, r.headers \in Seq(Headers), Located \in ExpressionsTo[MaxDepth],
           ValuesOf(r.headers, <<"sig">>) # <<>>
    PROVE  Evaluate(Located, r, key) = Ok(TextValue(JoinBy(ValuesOf(r.headers, <<"sig">>), <<",", " ">>)))
  <1> DEFINE first == [t |-> "key", v |-> "headers"]
             second == [t |-> "key", v |-> "sig"]
             segments == <<first, second>>
             object == HeadersObject(r.headers)
             lowered == Lower(Tail(segments))
  <1>1. Evaluate(Located, r, key) = EvaluatePath(Located, r, key)
    <2>1. PICK at : Evaluates(at, r, key)
      BY EvaluatorIs
    <2>2. MaxDepth \in 0 .. MaxDepth
      BY DepthAssumption
    <2>3. Evaluate(Located, r, key) = Worth(Located, r, key, at[MaxDepth - 1])
      BY <2>1, <2>2 DEF Evaluates
    <2>4. Located.kind = "path"
      BY DEF Located, Path
    <2>5. QED
      BY <2>3, <2>4 DEF Worth
  <1>2. Located.root = "request" /\ Located.segments = segments /\ Located.segments[1].v = "headers"
    BY DEF Located, Path
  <1>3. EvaluatePath(Located, r, key) = Index(RequestBlock("headers", r), lowered)
    <2> HIDE DEF lowered
    <2>1. lowered = Lower(Tail(Located.segments))
      BY <1>2 DEF lowered
    <2> HIDE DEF segments
    <2>2. QED
      BY <1>2, <2>1 DEF EvaluatePath
  <1>4. RequestBlock("headers", r) = Ok(object)
    BY DEF RequestBlock
  <1>5. Len(lowered) = 1 /\ lowered[1] = second
    <2>1. \A x, y : Tail(<<x, y>>) = <<y>>
      OBVIOUS
    <2>2. Tail(segments) = <<second>>
      BY <2>1
    <2> HIDE DEF segments
    <2>3. \A x : DOMAIN <<x>> = 1 .. 1 /\ <<x>>[1] = x
      OBVIOUS
    <2>4. DOMAIN Tail(segments) = 1 .. 1 /\ Tail(segments)[1] = second
      BY <2>2, <2>3
    <2>5. lowered = [i \in 1 .. 1 |-> IF Tail(segments)[i].t = "key"
                                      THEN [Tail(segments)[i] EXCEPT !.v = Lowered(@)] ELSE Tail(segments)[i]]
      BY <2>4 DEF Lower
    <2>6. Lowered("sig") = "sig"
      BY DEF Lowered
    <2>7. second.t = "key" /\ [second EXCEPT !.v = Lowered(@)] = second
      BY <2>6
    <2>8. 1 \in 1 .. 1 /\ 1 \in Nat
      OBVIOUS
    <2>9. lowered[1] = second
      BY <2>4, <2>5, <2>7, <2>8
    <2>10. Len(lowered) = 1
      BY <2>5, <2>8
    <2>11. QED
      BY <2>9, <2>10
  <1> HIDE DEF lowered
  <1>6. EvaluatePath(Located, r, key) = MemberOf(Ok(object), second)
    BY <1>3, <1>4, <1>5, IndexOne
  <1>7. MemberOf(Ok(object), second) = Member(object, second)
    BY DEF MemberOf, Ok
  <1>8. /\ object.type = "object"
        /\ Find(object.members, <<"sig">>) = TextValue(JoinBy(ValuesOf(r.headers, <<"sig">>), <<",", " ">>))
    BY HeaderIsFound
  <1> HIDE DEF object
  <1>9. Member(object, second) = Ok(Find(object.members, <<"sig">>))
    BY <1>8 DEF Member
  <1>10. QED
    BY <1>1, <1>6, <1>7, <1>8, <1>9

(* The provider's signature is decoded, bare or padded.                    *)
LEMMA GenuineDecodes ==
    ASSUME NEW encoding, NEW genuine
    PROVE  /\ DecodeCandidate(<<"S">>, encoding, genuine) = {genuine}
           /\ encoding \notin {"hex", "raw"} => DecodeCandidate(<<"S", "=">>, encoding, genuine) = {genuine}
  <1> DEFINE plain == <<"S">>
             padded == <<"S", "=">>
  <1>1. DecodeCandidate(plain, encoding, genuine) = {genuine}
    <2>1. plain # <<>> /\ plain[Len(plain)] # "="
      OBVIOUS
    <2> HIDE DEF plain
    <2>2. DecodeCandidate(plain, encoding, genuine) = IF plain = <<"S">> THEN {genuine} ELSE
              IF plain = <<"X">> \/ encoding = "raw" THEN {Another} ELSE {}
      BY <2>1 DEF DecodeCandidate
    <2>3. QED
      BY <2>2 DEF plain
  <1>2. ASSUME encoding \notin {"hex", "raw"} PROVE DecodeCandidate(padded, encoding, genuine) = {genuine}
    <2>1. padded # <<>> /\ padded[Len(padded)] = "=" /\ Len(padded) - 1 = 1 /\ padded[1] = "S"
      OBVIOUS
    <2> HIDE DEF padded
    <2>2. SubSeq(padded, 1, Len(padded) - 1) = <<"S">>
      <3>1. SubSeq(padded, 1, 1) = <<padded[1]>>
        BY OneOf
      <3>2. QED
        BY <2>1, <3>1
    <2>3. QED
      BY <1>2, <2>1, <2>2 DEF DecodeCandidate
  <1>3. QED
    BY <1>1, <1>2

(* A provider's signature, in any of the conventions, is among what there  *)
(* is to compare.                                                          *)
Compared(c, pieces) == UNION {DecodeCandidate(pieces[i], c.config.encoding, Genuine(c)) : i \in DOMAIN pieces}
LEMMA DecodedIsCompared ==
    ASSUME NEW c, NEW pieces, NEW m \in DOMAIN pieces,
           DecodeCandidate(pieces[m], c.config.encoding, Genuine(c)) = {Genuine(c)}
    PROVE  Genuine(c) \in Compared(c, pieces)
  BY DEF Compared

Tried(c, text) == IF c.config.encoding = "raw" THEN <<text>> ELSE Candidates(text)
HasText(c, text) == (IF c.config.encoding = "raw" THEN text ELSE Trim(text)) # <<>>
LEMMA IsCompared ==
    ASSUME NEW c, NEW text, ~(Len(text) > MaxPresented), HasText(c, text)
    PROVE  /\ Found(Ok(text), c).verified
           /\ Found(Ok(text), c).found = Compared(c, Tried(c, text))
  <1>1. Ok(text).ok /\ Ok(text).value = text
    BY DEF Ok
  <1>2. Found(Ok(text), c) = [verified |-> TRUE, found |-> Compared(c, Tried(c, text))]
    BY <1>1 DEF Found, Compared, Tried, HasText
  <1>3. QED
    BY <1>2

LEMMA SeparatorIsText == <<",", " ">> \in Seq(Characters) /\ <<" ">> \in Seq(Characters)
  <1>1. \A C : \A a, b \in C : <<a, b>> \in Seq(C) /\ <<b>> \in Seq(C)
    OBVIOUS
  <1>2. "," \in Characters /\ " " \in Characters
    BY CheckAssumption
  <1>3. QED
    BY <1>1, <1>2

(* A token that is the provider's signature is tried.                      *)
IsGenuine(token, encoding) ==
    token \in {<<"S">>, <<"l", "=", "S">>} \/ (token = <<"S", "=">> /\ encoding # "hex")
LEMMA GenuineTokenDecodes ==
    ASSUME NEW token \in Seq(Characters), NEW encoding, NEW genuine, encoding # "raw", IsGenuine(token, encoding)
    PROVE  \E j \in DOMAIN Pieces(token) : DecodeCandidate(Pieces(token)[j], encoding, genuine) = {genuine}
  <1>1. Pieces(token) \in Seq(Seq(Characters)) /\ Len(Pieces(token)) \in {1, 2} /\ Pieces(token)[1] = token
    BY PiecesAre
  <1>2. DOMAIN Pieces(token) = 1 .. Len(Pieces(token)) /\ 1 \in DOMAIN Pieces(token)
    BY <1>1
  <1>3. CASE token = <<"S">>
    BY <1>1, <1>2, <1>3, GenuineDecodes
  <1>4. CASE token = <<"S", "=">> /\ encoding # "hex"
    BY <1>1, <1>2, <1>4, GenuineDecodes
  <1>5. CASE token = <<"l", "=", "S">>
    <2>1. Len(Pieces(token)) = 2 /\ Pieces(token)[2] = <<"S">>
      BY <1>5, LabelledPieces
    <2>2. 2 \in DOMAIN Pieces(token)
      BY <1>2, <2>1
    <2>3. QED
      BY <2>1, <2>2, GenuineDecodes
  <1>6. QED
    BY <1>3, <1>4, <1>5 DEF IsGenuine

LEMMA GenuineIsTried ==
    ASSUME NEW c, NEW text, ~(Len(text) > MaxPresented), HasText(c, text),
           NEW m \in DOMAIN Tried(c, text),
           DecodeCandidate(Tried(c, text)[m], c.config.encoding, Genuine(c)) = {Genuine(c)}
    PROVE  Found(Ok(text), c).verified /\ Genuine(c) \in Found(Ok(text), c).found
  <1>1. Genuine(c) \in Compared(c, Tried(c, text))
    BY DecodedIsCompared
  <1>2. QED
    BY <1>1, IsCompared

LEMMA OneElement == \A x : Len(<<x>>) = 1 /\ 1 \in DOMAIN <<x>> /\ <<x>>[1] = x /\ <<x>> # <<>>
  OBVIOUS

LEMMA JoinOfOne ==
    ASSUME NEW T, NEW value \in Seq(T), NEW separator \in Seq(T)
    PROVE  JoinBy(<<value>>, separator) = value
  <1> DEFINE values == <<value>>
  <1>1. values \in Seq(Seq(T)) /\ Len(values) = 1 /\ values[1] = value
    OBVIOUS
  <1> HIDE DEF values
  <1>2. PICK up : Joins(up, values, separator, T)
    BY <1>1, JoinIs
  <1>3. up[1] = value /\ JoinBy(values, separator) = up[1]
    BY <1>1, <1>2 DEF Joins
  <1>4. QED
    BY <1>3 DEF values

(* What is short enough joined by blanks is short enough joined as the     *)
(* headers object joins it.                                                *)
Fits(values) == ~(Len(JoinBy(values, <<" ">>)) + Len(values) > MaxPresented)
LEMMA WithinBound ==
    ASSUME NEW a \in Nat, NEW b \in Nat, NEW v \in Nat, NEW m \in Nat, a <= b + v, ~(b + v > m)
    PROVE  ~(a > m)
  OBVIOUS
LEMMA JoinedFits ==
    ASSUME NEW values \in Seq(Seq(Characters)), Fits(values)
    PROVE  ~(Len(JoinBy(values, <<",", " ">>)) > MaxPresented)
  <1> DEFINE joined == JoinBy(values, <<",", " ">>)
             presented == JoinBy(values, <<" ">>)
  <1>1. joined \in Seq(Characters) /\ presented \in Seq(Characters) /\ Len(joined) <= Len(presented) + Len(values)
    BY JoinedHeaders
  <1>2. ~(Len(presented) + Len(values) > MaxPresented)
    BY DEF Fits
  <1> HIDE DEF joined, presented
  <1>3. Len(joined) \in Nat /\ Len(presented) \in Nat /\ Len(values) \in Nat
    BY <1>1
  <1>4. MaxPresented \in Nat
    BY CheckAssumption
  <1>5. ~(Len(joined) > MaxPresented)
    BY <1>1, <1>2, <1>3, <1>4, WithinBound
  <1>6. QED
    BY <1>5 DEF joined

LEMMA GenuineIsFound ==
    ASSUME NEW c, NEW values \in Seq(Seq(Characters)), PresentsGenuine(values, c.config.encoding), Fits(values)
    PROVE  LET joined == JoinBy(values, <<",", " ">>)
           IN  Found(Ok(joined), c).verified /\ Genuine(c) \in Found(Ok(joined), c).found
  <1> DEFINE joined == JoinBy(values, <<",", " ">>)
             presented == JoinBy(values, <<" ">>)
             encoding == c.config.encoding
  <1>1. joined \in Seq(Characters) /\ presented \in Seq(Characters) /\ Tokens(joined) = Tokens(presented)
    BY JoinedHeaders
  <1>2. ~(Len(joined) > MaxPresented)
    BY JoinedFits
  <1>3. CASE encoding = "raw"
    <2> DEFINE S == <<"S">>
    <2>1. values = <<S>>
      BY <1>3 DEF PresentsGenuine
    <2>2. S # <<>> /\ <<S>>[1] = S
      BY OneElement
    <2>3. S \in Seq(Characters)
      <3>1. values[1] \in Seq(Characters)
        <4> HIDE DEF S
        <4>1. Len(values) = 1
          BY <2>1, OneElement
        <4>2. QED
          BY <4>1
      <3>2. QED
        BY <2>1, <2>2, <3>1
    <2>4. joined = S
      BY <2>1, <2>3, SeparatorIsText, JoinOfOne
    <2>5. DecodeCandidate(S, c.config.encoding, Genuine(c)) = {Genuine(c)}
      BY GenuineDecodes
    <2> HIDE DEF S, joined
    <2>6. 1 \in DOMAIN <<joined>> /\ <<joined>>[1] = joined
      BY OneElement
    <2>7. Tried(c, joined) = <<joined>>
      BY <1>3 DEF Tried
    <2>8. joined # <<>>
      BY <2>2, <2>4
    <2>9. 1 \in DOMAIN Tried(c, joined) /\ Tried(c, joined)[1] = S
      BY <2>4, <2>6, <2>7
    <2>10. DecodeCandidate(Tried(c, joined)[1], c.config.encoding, Genuine(c)) = {Genuine(c)}
      BY <2>5, <2>9
    <2>11. HasText(c, joined)
      BY <1>3, <2>8 DEF HasText
    <2>12. Found(Ok(joined), c).verified /\ Genuine(c) \in Found(Ok(joined), c).found
      BY <1>2, <2>9, <2>10, <2>11, GenuineIsTried
    <2>13. QED
      BY <2>12 DEF joined
  <1>4. CASE encoding # "raw"
    <2>1. PICK i \in DOMAIN Tokens(presented) : 2 * i <= MaxCandidates /\ IsGenuine(Tokens(presented)[i], encoding)
      BY <1>4 DEF PresentsGenuine, IsGenuine
    <2> HIDE DEF joined, presented
    <2> DEFINE token == Tokens(joined)[i]
    <2>2. Tokens(joined) \in Seq(Seq(Characters))
      BY <1>1, TokensTyped
    <2>3. i \in DOMAIN Tokens(joined) /\ IsGenuine(token, encoding)
      BY <1>1, <2>1
    <2>4. DOMAIN <<>> = {}
      OBVIOUS
    <2>5. Tokens(joined) # <<>>
      BY <2>3, <2>4
    <2>6. token \in Seq(Characters)
      BY <2>2, <2>3
    <2>7. Trim(joined) # <<>>
      BY <1>1, <2>5, TrimmedHasText
    <2> HIDE DEF token
    <2>8. PICK j \in DOMAIN Pieces(token) : DecodeCandidate(Pieces(token)[j], encoding, Genuine(c)) = {Genuine(c)}
      BY <1>4, <2>3, <2>6, GenuineTokenDecodes
    <2>9. PICK m \in DOMAIN Candidates(joined) : Candidates(joined)[m] = Pieces(token)[j]
      BY <1>1, <2>1, <2>3, <2>8, FirstTokensAreTried DEF token
    <2>10. Tried(c, joined) = Candidates(joined)
      BY <1>4 DEF Tried
    <2>11. m \in DOMAIN Tried(c, joined) /\ Tried(c, joined)[m] = Pieces(token)[j]
      BY <2>9, <2>10
    <2>12. DecodeCandidate(Tried(c, joined)[m], c.config.encoding, Genuine(c)) = {Genuine(c)}
      BY <2>8, <2>11
    <2>13. HasText(c, joined)
      BY <1>4, <2>7 DEF HasText
    <2>14. Found(Ok(joined), c).verified /\ Genuine(c) \in Found(Ok(joined), c).found
      BY <1>2, <2>11, <2>12, <2>13, GenuineIsTried
    <2>15. QED
      BY <2>14 DEF joined
  <1>5. QED
    BY <1>3, <1>4

(* A signature that is presented is presented in some header.              *)
LEMMA GenuineHasHeader ==
    ASSUME NEW values, NEW encoding, PresentsGenuine(values, encoding)
    PROVE  values # <<>>
  <1>1. CASE encoding = "raw"
    <2>1. values = <<<<"S">>>>
      BY <1>1 DEF PresentsGenuine
    <2>2. \A x : <<x>> # <<>>
      OBVIOUS
    <2>3. QED
      BY <2>1, <2>2
  <1>2. CASE encoding # "raw"
    <2>1. DOMAIN Tokens(JoinBy(values, <<" ">>)) # {}
      BY <1>2 DEF PresentsGenuine
    <2>2. Tokens(JoinBy(<<>>, <<" ">>)) = <<>>
      BY NothingHasNoTokens
    <2>3. DOMAIN <<>> = {}
      OBVIOUS
    <2>4. QED
      BY <2>1, <2>2, <2>3
  <1>3. QED
    BY <1>1, <1>2

LEMMA TextIsPresented ==
    ASSUME NEW c, NEW value, NEW chars, value = Ok(TextValue(chars))
    PROVE  Presented(value, c) = Found(Ok(chars), c)
  <1>1. TextValue(chars).type = "text" /\ TextValue(chars).chars = chars
    BY DEF TextValue, Value
  <1>2. Null.type = "null"
    BY DEF Null, Value
  <1>3. TextValue(chars) # Null
    BY <1>1, <1>2
  <1>4. IntoBytes(TextValue(chars)) = Ok(chars)
    BY <1>1 DEF IntoBytes, Scalar
  <1>5. IntoText(TextValue(chars)) = Ok(chars)
    BY <1>1, <1>4 DEF IntoText
  <1>6. value.ok /\ value.value = TextValue(chars)
    BY DEF Ok
  <1> DEFINE text == TextValue(chars)
  <1> HIDE DEF text
  <1>7. Presented(value, c) = Found(IF c.config.encoding = "raw" THEN IntoBytes(text) ELSE IntoText(text), c)
    BY <1>3, <1>6 DEF Presented, text
  <1>8. QED
    BY <1>4, <1>5, <1>7 DEF text

\* The second half of VerifiesExactlyTheSigned: a signature of the payload as
\* evaluated verifies, in any of the conventions.
LEMMA TheSignedVerifies ==
    ASSUME CheckInv PROVE GenuineVerifies
  <1> DEFINE c == case
             values == ValuesOf(c.request.headers, <<"sig">>)
             joined == JoinBy(values, <<",", " ">>)
  <1>1. SUFFICES ASSUME outcome.why # "none",
                        SignedPayload(Payload(c)) = Ok(c.provider.payload),
                        c.provider.k \in KeyFor(c),
                        c.config.signature = Located,
                        PresentsGenuine(values, c.config.encoding),
                        Fits(values)
                 PROVE  FALSE
    BY DEF GenuineVerifies, Fits
  <1>2. c.request.headers \in Seq(Headers) /\ Located \in ExpressionsTo[MaxDepth]
    BY <1>1 DEF CheckInv, IsCase, Headers
  <1>3. values \in Seq(Seq(Characters))
    BY <1>2, ValuesTyped
  <1>4. values # <<>>
    BY <1>1, GenuineHasHeader
  <1>5. Evaluate(c.config.signature, c.request, c.key) = Ok(TextValue(joined))
    BY <1>1, <1>2, <1>4, LocatedIs
  <1>6. Found(Ok(joined), c).verified /\ Genuine(c) \in Found(Ok(joined), c).found
    <2> HIDE DEF values
    <2>1. QED
      BY <1>1, <1>3, GenuineIsFound
  <1> DEFINE shown == Presented(Evaluate(c.config.signature, c.request, c.key), c)
  <1> HIDE DEF joined
  <1>7. shown = Found(Ok(joined), c)
    BY <1>5, TextIsPresented
  <1>8. outcome = Verdict(c)
    <2>1. outcome = [verified |-> FALSE, why |-> "none"] \/ outcome = Verdict(c)
      BY DEF CheckInv
    <2>2. QED
      BY <1>1, <2>1
  <1>9. Verdict(c) = Judge(Ok(c.provider.payload), shown, c)
    BY <1>1 DEF Verdict
  <1>10. Genuine(c) = Signed(c.config.algorithm, c.provider.k, c.provider.payload)
    BY DEF Genuine
  <1> HIDE DEF shown
  <1>11. Judge(Ok(c.provider.payload), shown, c) = [verified |-> TRUE, why |-> "none"]
    <2>1. shown.verified /\ KeyFor(c) # None
      BY <1>1, <1>6, <1>7 DEF None
    <2>2. Ok(c.provider.payload).ok /\ Ok(c.provider.payload).value = c.provider.payload
      BY DEF Ok
    <2>3. \E k \in KeyFor(c) : Signed(c.config.algorithm, k, c.provider.payload) \in shown.found
      BY <1>1, <1>6, <1>7, <1>10
    <2>4. QED
      BY <2>1, <2>2, <2>3 DEF Judge
  <1>12. outcome.why = "none"
    BY <1>8, <1>9, <1>11
  <1>13. QED
    BY <1>1, <1>12

\* VerifiesExactlyTheSigned: a request verifies exactly if it carries a
\* signature of its payload as evaluated, made with the key the hook holds
\* (verify, presented_candidates and candidates in verify.rs).
THEOREM TheSignedAndOnlyTheSigned == CheckSpec => []VerifiesExactlyTheSigned
  <1>1. CheckInv => VerifiesExactlyTheSigned
    BY OnlyTheSignedVerifies, TheSignedVerifies DEF VerifiesExactlyTheSigned
  <1>2. QED
    BY <1>1, CheckInvariance, PTL

----------------------------------------------------------------------------
(* The encodings.                                                          *)

(* Where the parts stand in what they were joined to.                      *)
Stand(pos, parts, joined) ==
    /\ pos \in [0 .. Len(parts) -> 0 .. Len(joined)]
    /\ pos[0] = 0 /\ pos[Len(parts)] = Len(joined)
    /\ \A k \in 1 .. Len(parts) :
          /\ pos[k] = pos[k - 1] + Len(parts[k])
          /\ \A j \in 1 .. Len(parts[k]) : joined[pos[k - 1] + j] = parts[k][j]

LEMMA JoinedByNothing ==
    ASSUME NEW T, NEW parts \in Seq(Seq(T)), NEW up, Joins(up, parts, <<>>, T)
    PROVE  \A n \in 1 .. Len(parts) : up[n] = up[n - 1] \o parts[n]
  <1> DEFINE empty == <<>>
  <1>1. \A t \in Seq(T) : empty \o t = t /\ t \o empty = t
    BY ConcatEmptySeq
  <1>2. \A n \in 1 .. Len(parts) : parts[n] \in Seq(T) /\ n - 1 \in 0 .. Len(parts)
    OBVIOUS
  <1>3. /\ up \in [0 .. Len(parts) -> Seq(T)] /\ up[0] = empty /\ (Len(parts) # 0 => up[1] = parts[1])
        /\ \A n \in 2 .. Len(parts) : up[n] = up[n - 1] \o empty \o parts[n]
    BY DEF Joins
  <1> HIDE DEF empty
  <1>4. ASSUME NEW n \in 1 .. Len(parts) PROVE up[n] = up[n - 1] \o parts[n]
    <2>1. CASE n = 1
      <3>1. parts[1] \in Seq(T) /\ Len(parts) # 0 /\ n - 1 = 0
        BY <1>2, <2>1
      <3>2. up[1] = parts[1] /\ up[0] = empty /\ empty \o parts[1] = parts[1]
        BY <1>1, <1>3, <3>1
      <3>3. QED
        BY <2>1, <3>1, <3>2
    <2>2. CASE n # 1
      <3>1. n \in 2 .. Len(parts)
        BY <2>2
      <3>2. up[n - 1] \in Seq(T)
        BY <1>2, <1>3
      <3>3. up[n - 1] \o empty = up[n - 1]
        BY <1>1, <3>2
      <3>4. QED
        BY <1>3, <3>1, <3>3
    <2>3. QED
      BY <2>1, <2>2
  <1>5. QED
    BY <1>4

LEMMA PartsStand ==
    ASSUME NEW T, NEW parts \in Seq(Seq(T))
    PROVE  JoinBy(parts, <<>>) \in Seq(T) /\ \E pos : Stand(pos, parts, JoinBy(parts, <<>>))
  <1> DEFINE empty == <<>>
             N == Len(parts)
  <1>1. empty \in Seq(T) /\ Len(empty) = 0 /\ N \in Nat /\ N \in 0 .. N /\ 0 \in 0 .. N
    OBVIOUS
  <1>2. PICK up : Joins(up, parts, empty, T)
    BY <1>1, JoinIs
  <1>3. \A n \in 1 .. N : up[n] = up[n - 1] \o parts[n]
    BY <1>2, JoinedByNothing
  <1>4. up \in [0 .. N -> Seq(T)] /\ up[0] = empty /\ JoinBy(parts, empty) = up[N]
    BY <1>2 DEF Joins
  <1> DEFINE pos == [n \in 0 .. N |-> Len(up[n])]
  <1> HIDE DEF empty
  <1>5. ASSUME NEW n \in 1 .. N
        PROVE  /\ n - 1 \in 0 .. N /\ n \in 0 .. N /\ parts[n] \in Seq(T)
               /\ Len(up[n]) = Len(up[n - 1]) + Len(parts[n])
               /\ \A i \in 1 .. Len(up[n - 1]) : up[n][i] = up[n - 1][i]
               /\ \A i \in 1 .. Len(parts[n]) : up[n][Len(up[n - 1]) + i] = parts[n][i]
    <2>1. n - 1 \in 0 .. N /\ n \in 0 .. N /\ parts[n] \in Seq(T)
      OBVIOUS
    <2>2. up[n - 1] \in Seq(T)
      BY <1>4, <2>1
    <2> DEFINE a == up[n - 1]
               b == parts[n]
    <2>3. up[n] = a \o b
      BY <1>3
    <2> HIDE DEF a, b
    <2>4. a \in Seq(T) /\ b \in Seq(T)
      BY <2>1, <2>2 DEF a, b
    <2>5. /\ Len(a \o b) = Len(a) + Len(b)
          /\ \A i \in 1 .. Len(a) : (a \o b)[i] = a[i]
          /\ \A i \in 1 .. Len(b) : (a \o b)[Len(a) + i] = b[i]
      BY <2>4
    <2>6. QED
      BY <2>1, <2>3, <2>5 DEF a, b
  <1>6. \A n \in 0 .. N : Len(up[n]) \in Nat
    BY <1>4
  <1> DEFINE Right(n) == \A k \in 1 .. N : k <= n =>
                            /\ Len(up[k]) <= Len(up[n])
                            /\ \A j \in 1 .. Len(parts[k]) : up[n][Len(up[k - 1]) + j] = parts[k][j]
  <1>7. Right(0)
    BY <1>1
  <1>8. ASSUME NEW n \in 0 .. N, Right(n), n # N PROVE Right(n + 1)
    <2>1. n + 1 \in 1 .. N /\ n + 1 \in 0 .. N /\ (n + 1) - 1 = n
      BY <1>8
    <2> DEFINE a == Len(up[n])
               b == Len(parts[n + 1])
    <2>2. /\ a \in Nat /\ b \in Nat /\ Len(up[n + 1]) = a + b
          /\ \A i \in 1 .. a : up[n + 1][i] = up[n][i]
          /\ \A j \in 1 .. b : up[n + 1][a + j] = parts[n + 1][j]
      <3>1. parts[n + 1] \in Seq(T) /\ Len(up[n]) \in Nat
        BY <1>5, <1>6, <2>1
      <3>2. Len(parts[n + 1]) \in Nat
        BY <3>1
      <3>3. /\ Len(up[n + 1]) = Len(up[n]) + Len(parts[n + 1])
            /\ \A i \in 1 .. Len(up[n]) : up[n + 1][i] = up[n][i]
            /\ \A j \in 1 .. Len(parts[n + 1]) : up[n + 1][Len(up[n]) + j] = parts[n + 1][j]
        <4> DEFINE m == n + 1
        <4>1. m \in 1 .. N /\ m - 1 = n
          BY <2>1
        <4> HIDE DEF m, Right
        <4>2. /\ Len(up[m]) = Len(up[n]) + Len(parts[m])
              /\ \A i \in 1 .. Len(up[n]) : up[m][i] = up[n][i]
              /\ \A j \in 1 .. Len(parts[m]) : up[m][Len(up[n]) + j] = parts[m][j]
          BY <1>5, <4>1
        <4>3. QED
          BY <4>2 DEF m
      <3>4. QED
        BY <3>1, <3>2, <3>3
    <2>3. ASSUME NEW k \in 1 .. N, k <= n + 1
          PROVE  /\ Len(up[k]) <= Len(up[n + 1])
                 /\ \A j \in 1 .. Len(parts[k]) : up[n + 1][Len(up[k - 1]) + j] = parts[k][j]
      <3>1. CASE k = n + 1
        <4> HIDE DEF Right
        <4>1. Len(up[n + 1]) <= Len(up[n + 1])
          <5> HIDE DEF a, b
          <5>1. a + b <= a + b
            BY <2>2
          <5>2. QED
            BY <2>2, <5>1
        <4>2. QED
          BY <2>1, <2>2, <3>1, <4>1
      <3>2. CASE k # n + 1
        <4>1. k <= n
          BY <2>1, <2>3, <3>2
        <4>2. Len(up[k]) <= a /\ \A j \in 1 .. Len(parts[k]) : up[n][Len(up[k - 1]) + j] = parts[k][j]
          BY <1>8, <4>1
        <4> HIDE DEF Right
        <4>3. Len(up[k]) = Len(up[k - 1]) + Len(parts[k]) /\ Len(up[k - 1]) \in Nat /\ Len(parts[k]) \in Nat
          <5>1. k - 1 \in 0 .. N /\ parts[k] \in Seq(T) /\ Len(up[k]) = Len(up[k - 1]) + Len(parts[k])
            BY <1>5
          <5>2. QED
            BY <1>6, <5>1
        <4> DEFINE c == Len(up[k - 1])
                   d == Len(parts[k])
        <4> HIDE DEF a, b, c, d
        <4>4. c \in Nat /\ d \in Nat /\ Len(up[k]) = c + d /\ c + d <= a /\ a \in Nat /\ b \in Nat
          BY <2>2, <4>2, <4>3 DEF c, d
        <4>5. Len(up[k]) <= Len(up[n + 1])
          <5>1. c + d <= a + b
            BY <4>4
          <5>2. QED
            BY <2>2, <4>4, <5>1
        <4>6. ASSUME NEW j \in 1 .. d PROVE c + j \in 1 .. a
          BY <4>4
        <4>7. \A j \in 1 .. d : up[n][c + j] = parts[k][j]
          BY <4>2 DEF c, d
        <4>8. \A j \in 1 .. d : up[n + 1][c + j] = parts[k][j]
          BY <2>2, <4>6, <4>7
        <4>9. QED
          BY <4>5, <4>8 DEF c, d
      <3>3. QED
        BY <3>1, <3>2
    <2>4. QED
      BY <2>3
  <1>9. Right(N)
    <2> DEFINE S == {n \in 0 .. N : Right(n)}
    <2> HIDE DEF Right
    <2>1. 0 \in S /\ \A n \in 0 .. N : n \in S /\ n # N => n + 1 \in S
      <3>1. \A n \in 0 .. N : n # N => n + 1 \in 0 .. N
        BY <1>1
      <3>2. QED
        BY <1>1, <1>7, <1>8, <3>1
    <2>2. \A n \in 0 .. N : n \in S
      <3> HIDE DEF S
      <3>1. QED
        BY <1>1, <2>1, Upward
    <2>3. QED
      BY <1>1, <2>2
  <1>10. Stand(pos, parts, up[N])
    <2>1. pos \in [0 .. N -> 0 .. Len(up[N])] /\ pos[0] = 0 /\ pos[N] = Len(up[N])
      <3>1. \A k \in 1 .. N : Len(up[k]) <= Len(up[N])
        BY <1>1, <1>9
      <3> HIDE DEF Right
      <3>2. Len(up[0]) = 0 /\ \A k \in 0 .. N : k = 0 \/ k \in 1 .. N
        BY <1>1, <1>4
      <3>3. \A k \in 0 .. N : Len(up[k]) \in 0 .. Len(up[N])
        BY <1>1, <1>6, <3>1, <3>2
      <3>4. QED
        BY <1>1, <1>4, <3>2, <3>3
    <2>2. ASSUME NEW k \in 1 .. N
          PROVE  /\ pos[k] = pos[k - 1] + Len(parts[k])
                 /\ \A j \in 1 .. Len(parts[k]) : up[N][pos[k - 1] + j] = parts[k][j]
      <3>1. k - 1 \in 0 .. N /\ k \in 0 .. N /\ k <= N
        BY <1>1
      <3>2. Len(up[k]) = Len(up[k - 1]) + Len(parts[k])
        BY <1>5
      <3>3. QED
        BY <1>9, <3>1, <3>2
    <2> HIDE DEF pos
    <2>3. QED
      BY <2>1, <2>2 DEF Stand
  <1>11. up[N] \in Seq(T)
    BY <1>1, <1>4
  <1>12. JoinBy(parts, empty) \in Seq(T) /\ Stand(pos, parts, JoinBy(parts, empty))
    BY <1>4, <1>10, <1>11
  <1> HIDE DEF pos
  <1>13. QED
    BY <1>12 DEF empty

(* A text put together again from its end, a character at a time.          *)
LEMMA PrependedBack ==
    ASSUME NEW C, NEW s \in Seq(C), NEW from, NEW pos, pos[0] = 0,
           from[pos[Len(s)] + 1] = Ok(<<>>),
           \A k \in 1 .. Len(s) : from[pos[k - 1] + 1] = Prepend(s[k], from[pos[k] + 1])
    PROVE  from[1] = Ok(s)
  <1> DEFINE N == Len(s)
             Back(m) == from[pos[N - m] + 1] = Ok(SubSeq(s, N - m + 1, N))
             T == {m \in 0 .. N : Back(m)}
  <1>1. N \in Nat /\ \A k \in 1 .. N : s[k] \in C
    OBVIOUS
  <1>2. 0 \in T
    <2>1. SubSeq(s, N + 1, N) = <<>>
      BY <1>1, SubSeqEmpty
    <2>2. N - 0 = N /\ N - 0 + 1 = N + 1 /\ 0 \in 0 .. N
      BY <1>1
    <2>3. QED
      BY <2>1, <2>2
  <1>3. ASSUME NEW m \in 0 .. N, m \in T, m # N PROVE m + 1 \in T
    <2> DEFINE k == N - m
               rest == SubSeq(s, k + 1, N)
    <2>1. k \in 1 .. N /\ N - (m + 1) = k - 1 /\ (k - 1) + 1 = k /\ m + 1 \in 0 .. N
      BY <1>1, <1>3
    <2>2. from[pos[k] + 1] = Ok(rest)
      BY <1>3
    <2>3. from[pos[k - 1] + 1] = Prepend(s[k], Ok(rest))
      BY <2>1, <2>2
    <2>4. Prepend(s[k], Ok(rest)) = Ok(<<s[k]>> \o rest)
      BY DEF Prepend, Ok
    <2>5. <<s[k]>> \o rest = SubSeq(s, k, N)
      <3> HIDE DEF k
      <3>1. QED
        BY <1>1, <2>1, SubSeqRecursiveFirst
    <2> HIDE DEF k
    <2>6. QED
      BY <2>1, <2>3, <2>4, <2>5
  <1>4. N \in T
    <2>1. N \in 0 .. N
      BY <1>1
    <2> HIDE DEF T
    <2>2. QED
      BY <1>1, <1>2, <1>3, <2>1, Upward
  <1>5. from[pos[0] + 1] = Ok(SubSeq(s, 1, N))
    <2>1. N - N = 0 /\ N - N + 1 = 1
      BY <1>1
    <2>2. QED
      BY <1>4, <2>1
  <1>6. SubSeq(s, 1, N) = s
    OBVIOUS
  <1>7. pos[0] + 1 = 1
    OBVIOUS
  <1>8. QED
    BY <1>5, <1>6, <1>7

(* Unmark, from the end.                                                   *)
UnmarkFrom(s, mark, n, from) ==
    IF n > Len(s) THEN Ok(<<>>)
    ELSE IF s[n] = mark /\ n < Len(s) THEN Prepend(Unname(s[n + 1]), from[n + 2])
    ELSE IF mark # "%" THEN Error("encoding")
    ELSE Prepend(s[n], from[n + 1])
IsUnmark(f, m, s, mark) == f = [n \in m .. Len(s) + 1 |-> UnmarkFrom(s, mark, n, f)]

LEMMA UnmarkLooksAhead ==
    ASSUME NEW s, NEW mark, NEW n, NEW f, NEW g,
           ~(n > Len(s)) => f[n + 1] = g[n + 1], n < Len(s) => f[n + 2] = g[n + 2]
    PROVE  UnmarkFrom(s, mark, n, f) = UnmarkFrom(s, mark, n, g)
  BY DEF UnmarkFrom

LEMMA UnmarkIs ==
    ASSUME NEW s, NEW mark, Len(s) \in Nat
    PROVE  \E from : /\ Unmark(s, mark) = from[1]
                     /\ \A n \in 1 .. Len(s) + 1 : from[n] = UnmarkFrom(s, mark, n, from)
  <1> DEFINE L == Len(s)
             Def(f) == IsUnmark(f, 1, s, mark)
             Good(k) == \E f : IsUnmark(f, L + 1 - k, s, mark)
             T == {k \in 0 .. L : Good(k)}
  <1>1. Good(0)
    <2> DEFINE f == [n \in L + 1 .. L + 1 |-> Ok(<<>>)]
    <2>1. L + 1 - 0 = L + 1
      OBVIOUS
    <2>2. \A n \in L + 1 .. L + 1 : UnmarkFrom(s, mark, n, f) = Ok(<<>>)
      <3>1. \A n \in L + 1 .. L + 1 : n > Len(s)
        OBVIOUS
      <3>2. QED
        BY <3>1 DEF UnmarkFrom
    <2>3. f = [n \in L + 1 .. L + 1 |-> UnmarkFrom(s, mark, n, f)]
      BY <2>2
    <2> HIDE DEF f
    <2>4. QED
      BY <2>1, <2>3 DEF IsUnmark
  <1>2. ASSUME NEW k \in 0 .. L, Good(k), k # L PROVE Good(k + 1)
    <2> DEFINE m == L - k
    <2>1. m \in 1 .. L /\ L + 1 - k = m + 1 /\ L + 1 - (k + 1) = m
      BY <1>2
    <2>2. PICK g : IsUnmark(g, m + 1, s, mark)
      BY <1>2, <2>1
    <2> DEFINE f == [n \in m .. L + 1 |-> IF n = m THEN UnmarkFrom(s, mark, m, g) ELSE g[n]]
    <2> HIDE DEF m
    <2>3. \A n \in m + 1 .. L + 1 : n \in m .. L + 1 /\ n # m
      BY <2>1
    <2>4. \A n \in m + 1 .. L + 1 : f[n] = g[n] /\ g[n] = UnmarkFrom(s, mark, n, g)
      BY <2>2, <2>3 DEF IsUnmark
    <2>5. ASSUME NEW n \in m .. L + 1 PROVE UnmarkFrom(s, mark, n, f) = UnmarkFrom(s, mark, n, g)
      <3>1. ~(n > L) => n + 1 \in m + 1 .. L + 1
        BY <2>1
      <3>2. n < L => n + 2 \in m + 1 .. L + 1
        BY <2>1
      <3>3. /\ ~(n > L) => f[n + 1] = g[n + 1]
            /\ n < L => f[n + 2] = g[n + 2]
        BY <2>4, <3>1, <3>2
      <3> HIDE DEF f
      <3>4. QED
        BY <3>3, UnmarkLooksAhead
    <2>6. ASSUME NEW n \in m .. L + 1 PROVE f[n] = UnmarkFrom(s, mark, n, f)
      <3>1. CASE n = m
        <4>1. f[m] = UnmarkFrom(s, mark, m, g)
          BY <3>1
        <4> HIDE DEF f
        <4>2. QED
          BY <2>5, <3>1, <4>1
      <3>2. CASE n # m
        <4>1. n \in m + 1 .. L + 1
          BY <2>1, <3>2
        <4> HIDE DEF f
        <4>2. QED
          BY <2>4, <2>5, <4>1
      <3>3. QED
        BY <3>1, <3>2
    <2>7. f = [n \in m .. L + 1 |-> f[n]]
      OBVIOUS
    <2> HIDE DEF f
    <2>8. IsUnmark(f, m, s, mark)
      BY <2>6, <2>7 DEF IsUnmark
    <2>9. QED
      BY <2>1, <2>8
  <1>3. \E f : Def(f)
    <2>1. 0 \in T /\ \A k \in 0 .. L : k \in T /\ k # L => k + 1 \in T
      <3> HIDE DEF Good
      <3>1. 0 \in 0 .. L /\ \A k \in 0 .. L : k # L => k + 1 \in 0 .. L
        OBVIOUS
      <3>2. QED
        BY <1>1, <1>2, <3>1
    <2>2. L \in 0 .. L
      OBVIOUS
    <2>3. L \in T
      <3> HIDE DEF T
      <3>1. QED
        BY <2>1, <2>2, Upward
    <2>4. L + 1 - L = 1
      OBVIOUS
    <2>5. QED
      BY <2>3, <2>4
  <1> DEFINE from == CHOOSE f : Def(f)
  <1>4. Unmark(s, mark) = from[1]
    BY DEF Unmark, IsUnmark, UnmarkFrom
  <1>5. Def(from)
    <2> HIDE DEF Def
    <2>1. QED
      BY <1>3
  <1> HIDE DEF from
  <1>6. \A n \in 1 .. L + 1 : from[n] = UnmarkFrom(s, mark, n, from)
    BY <1>5 DEF IsUnmark
  <1>7. QED
    BY <1>4, <1>6

(* How an encoding writes a byte: a mark and its name, or, percent-encoded, *)
(* itself.                                                                  *)
Codes(part, c, mark) ==
    \/ Len(part) = 2 /\ part[1] = mark /\ Unname(part[2]) = c
    \/ Len(part) = 1 /\ part[1] = c /\ c # mark /\ mark = "%"

LEMMA UnmarkedAre ==
    ASSUME NEW C, NEW s \in Seq(C), NEW mark, NEW parts, NEW pos, NEW coded, Len(coded) \in Nat,
           Len(parts) = Len(s), Stand(pos, parts, coded),
           \A k \in 1 .. Len(s) : Codes(parts[k], s[k], mark)
    PROVE  Unmark(coded, mark) = Ok(s)
  <1> DEFINE N == Len(s)
             L == Len(coded)
  <1>1. PICK from : /\ Unmark(coded, mark) = from[1]
                    /\ \A n \in 1 .. L + 1 : from[n] = UnmarkFrom(coded, mark, n, from)
    BY UnmarkIs
  <1>2. /\ pos \in [0 .. N -> 0 .. L] /\ pos[0] = 0 /\ pos[N] = L
        /\ \A k \in 1 .. N : /\ pos[k] = pos[k - 1] + Len(parts[k])
                             /\ \A j \in 1 .. Len(parts[k]) : coded[pos[k - 1] + j] = parts[k][j]
    BY DEF Stand
  <1>3. from[pos[N] + 1] = Ok(<<>>)
    <2>1. pos[N] + 1 \in 1 .. L + 1 /\ pos[N] + 1 > L
      BY <1>2
    <2>2. QED
      BY <1>1, <2>1 DEF UnmarkFrom
  <1>4. ASSUME NEW k \in 1 .. N PROVE from[pos[k - 1] + 1] = Prepend(s[k], from[pos[k] + 1])
    <2>1. k \in 0 .. N /\ k - 1 \in 0 .. N
      OBVIOUS
    <2> DEFINE p == pos[k - 1]
               q == pos[k]
               n == p + 1
    <2>2. p \in Nat /\ q \in Nat /\ q <= L
      <3>1. p \in 0 .. L /\ q \in 0 .. L
        BY <1>2, <2>1
      <3> HIDE DEF p, q
      <3>2. QED
        BY <3>1
    <2>3. pos[k] = pos[k - 1] + Len(parts[k]) /\ \A j \in 1 .. Len(parts[k]) : coded[pos[k - 1] + j] = parts[k][j]
      BY <1>2
    <2>4. CASE Len(parts[k]) = 2 /\ parts[k][1] = mark /\ Unname(parts[k][2]) = s[k]
      <3>1. n \in 1 .. L + 1 /\ ~(n > L) /\ n < L /\ n + 1 = p + 2 /\ n + 2 = q + 1
        <4>1. q = p + 2
          BY <2>3, <2>4
        <4> HIDE DEF p, q
        <4>2. QED
          BY <2>2, <4>1
      <3>2. 1 \in 1 .. 2 /\ 2 \in 1 .. 2
        OBVIOUS
      <3>3. coded[n] = mark /\ coded[n + 1] = parts[k][2]
        BY <2>3, <2>4, <3>1, <3>2
      <3> HIDE DEF n
      <3>4. from[n] = Prepend(Unname(coded[n + 1]), from[n + 2])
        BY <1>1, <3>1, <3>3 DEF UnmarkFrom
      <3>5. from[n] = Prepend(s[k], from[pos[k] + 1])
        BY <2>4, <3>1, <3>3, <3>4
      <3>6. QED
        BY <3>5 DEF n
    <2>5. CASE Len(parts[k]) = 1 /\ parts[k][1] = s[k] /\ s[k] # mark /\ mark = "%"
      <3>1. n \in 1 .. L + 1 /\ ~(n > L) /\ n + 1 = q + 1
        <4>1. q = p + 1
          BY <2>3, <2>5
        <4> HIDE DEF p, q
        <4>2. QED
          BY <2>2, <4>1
      <3>2. 1 \in 1 .. 1
        OBVIOUS
      <3>3. coded[n] = s[k]
        BY <2>3, <2>5, <3>2
      <3> HIDE DEF n
      <3>4. from[n] = Prepend(coded[n], from[n + 1])
        BY <1>1, <2>5, <3>1, <3>3 DEF UnmarkFrom
      <3>5. from[n] = Prepend(s[k], from[pos[k] + 1])
        BY <3>1, <3>3, <3>4
      <3>6. QED
        BY <3>5 DEF n
    <2>6. QED
      BY <2>4, <2>5 DEF Codes
  <1>5. from[1] = Ok(s)
    BY <1>2, <1>3, <1>4, PrependedBack
  <1>6. QED
    BY <1>1, <1>5

(* The name of a byte is nobody else's.                                    *)
SpecialIs(p, a, b) == p = <<a, b>> /\ p[1] = a /\ p[2] = b
LEMMA SpecialsAre ==
    ASSUME NEW p \in Specials
    PROVE  \/ SpecialIs(p, "ff", "FF") \/ SpecialIs(p, " ", "20") \/ SpecialIs(p, "%", "25") \/ SpecialIs(p, "&", "26")
           \/ SpecialIs(p, "+", "2B") \/ SpecialIs(p, ",", "2C") \/ SpecialIs(p, "=", "3D") \/ SpecialIs(p, "?", "3F")
  <1>1. \/ p = <<"ff", "FF">> \/ p = <<" ", "20">> \/ p = <<"%", "25">> \/ p = <<"&", "26">>
        \/ p = <<"+", "2B">> \/ p = <<",", "2C">> \/ p = <<"=", "3D">> \/ p = <<"?", "3F">>
    BY DEF Specials
  <1>2. \A a, b : p = <<a, b>> => SpecialIs(p, a, b)
    BY DEF SpecialIs
  <1>3. QED
    BY <1>1, <1>2

LEMMA NamesApart == \A p, q \in Specials : p[1] = q[1] \/ p[2] = q[2] => p = q
  BY SpecialsAre DEF SpecialIs

LEMMA NamedBack ==
    ASSUME NEW c, c \notin Escapes
    PROVE  Unname(Name(c)) = c /\ Name(c) # " " /\ Name(c) # "+"
  <1>1. CASE \E p \in Specials : p[1] = c
    <2>1. PICK p \in Specials : p[1] = c
      BY <1>1
    <2>2. Name(c) = p[2]
      <3> DEFINE Is(q) == q \in Specials /\ q[1] = c
      <3>1. Name(c) = (CHOOSE q \in Specials : q[1] = c)[2]
        BY <1>1 DEF Name
      <3>2. \A q \in Specials : q[1] = c => q = p
        BY <2>1, NamesApart
      <3>3. (CHOOSE q \in Specials : q[1] = c) = p
        BY <2>1, <3>2
      <3>4. QED
        BY <3>1, <3>3
    <2>3. Unname(p[2]) = p[1]
      <3>1. Unname(p[2]) = (CHOOSE q \in Specials : q[2] = p[2])[1]
        BY DEF Unname
      <3>2. \A q \in Specials : q[2] = p[2] => q = p
        BY <2>1, NamesApart
      <3>3. (CHOOSE q \in Specials : q[2] = p[2]) = p
        BY <2>1, <3>2
      <3>4. QED
        BY <3>1, <3>3
    <2>4. p[2] # " " /\ p[2] # "+"
      BY SpecialsAre DEF SpecialIs
    <2>5. QED
      BY <2>1, <2>2, <2>3, <2>4
  <1>2. CASE ~\E p \in Specials : p[1] = c
    <2>1. Name(c) = c
      BY <1>2 DEF Name
    <2>2. ~\E p \in Specials : p[2] = c
      BY DEF Escapes
    <2>3. Unname(c) = c
      BY <2>2 DEF Unname
    <2>4. c # " " /\ c # "+"
      <3>1. \E p \in Specials : p[1] = " "
        BY DEF Specials
      <3>2. \E p \in Specials : p[1] = "+"
        BY DEF Specials
      <3>3. QED
        BY <1>2, <3>1, <3>2
    <2>5. QED
      BY <2>1, <2>3, <2>4
  <1>3. QED
    BY <1>1, <1>2

LEMMA ATuple ==
    /\ \A x : Len(<<x>>) = 1 /\ <<x>>[1] = x
    /\ \A x, y : Len(<<x, y>>) = 2 /\ <<x, y>>[1] = x /\ <<x, y>>[2] = y
    /\ \A T : \A x \in T : <<x>> \in Seq(T)
    /\ \A T : \A x, y \in T : <<x, y>> \in Seq(T)
  OBVIOUS

LEMMA APair ==
    ASSUME NEW x, NEW y, NEW p, p = <<x, y>>
    PROVE  Len(p) = 2 /\ p[1] = x /\ p[2] = y
  OBVIOUS
LEMMA AText ==
    ASSUME NEW D, NEW s \in Seq(D)
    PROVE  Len(s) \in Nat /\ DOMAIN s = 1 .. Len(s) /\ \A i \in 1 .. Len(s) : s[i] \in D
  OBVIOUS
LEMMA AssembledText ==
    ASSUME NEW D, NEW n \in Nat, NEW f, f = [i \in 1 .. n |-> f[i]], \A i \in 1 .. n : f[i] \in D
    PROVE  f \in Seq(D) /\ Len(f) = n
  <1>1. f \in [1 .. n -> D]
    OBVIOUS
  <1>2. QED
    BY <1>1

(* What an encoding writes, without a blank in it.                         *)
LEMMA CodedBack ==
    ASSUME NEW C, NEW s \in Seq(C), NEW mark, NEW T, NEW parts \in Seq(Seq(T)), Len(parts) = Len(s),
           \A k \in 1 .. Len(s) : Codes(parts[k], s[k], mark)
    PROVE  JoinBy(parts, <<>>) \in Seq(T) /\ Unmark(JoinBy(parts, <<>>), mark) = Ok(s)
  <1> DEFINE coded == JoinBy(parts, <<>>)
  <1>1. coded \in Seq(T) /\ \E pos : Stand(pos, parts, coded)
    BY PartsStand
  <1> HIDE DEF coded
  <1>2. Len(coded) \in Nat
    BY <1>1
  <1>3. Unmark(coded, mark) = Ok(s)
    BY <1>1, <1>2, UnmarkedAre
  <1>4. QED
    BY <1>1, <1>3 DEF coded

(* What a part may hold.                                                   *)
Written == (Characters \cup {Name(c) : c \in Characters} \cup {"#", "$", "_", "%", "+", "20"}) \ {" "}

LEMMA MarkedBack ==
    ASSUME NEW s \in Seq(Characters \ Escapes), NEW mark \in {"#", "$", "_"}
    PROVE  Marked(s, mark) \in Seq(Written) /\ Unmark(Marked(s, mark), mark) = Ok(s)
  <1> DEFINE parts == [i \in DOMAIN s |-> <<mark, Name(s[i])>>]
             N == Len(s)
  <1>1. N \in Nat /\ DOMAIN s = 1 .. N /\ \A i \in 1 .. N : s[i] \in Characters \ Escapes
    BY AText
  <1>2. ASSUME NEW i \in 1 .. N
        PROVE  /\ parts[i] = <<mark, Name(s[i])>> /\ parts[i] \in Seq(Written)
               /\ Codes(parts[i], s[i], mark)
    <2>1. parts[i] = <<mark, Name(s[i])>>
      BY <1>1
    <2>2. Unname(Name(s[i])) = s[i] /\ Name(s[i]) # " "
      BY <1>1, NamedBack
    <2>3. mark \in Written
      BY DEF Written
    <2>4. Name(s[i]) \in Written
      BY <1>1, <2>2 DEF Written
    <2>5. Codes(parts[i], s[i], mark)
      <3>1. Len(parts[i]) = 2 /\ parts[i][1] = mark /\ parts[i][2] = Name(s[i])
        <4> DEFINE name == Name(s[i])
                   part == parts[i]
        <4>1. part = <<mark, name>>
          BY <2>1
        <4> HIDE DEF parts, name, part
        <4>2. Len(part) = 2 /\ part[1] = mark /\ part[2] = name
          BY <4>1, APair
        <4>3. QED
          BY <4>2 DEF name, part
      <3>2. QED
        BY <2>2, <3>1 DEF Codes
    <2> HIDE DEF parts
    <2>6. QED
      BY <2>1, <2>3, <2>4, <2>5, ATuple
  <1>3. parts \in Seq(Seq(Written)) /\ Len(parts) = N
    <2>1. parts = [i \in 1 .. N |-> parts[i]]
      BY <1>1
    <2> HIDE DEF parts
    <2>2. \A i \in 1 .. N : parts[i] \in Seq(Written)
      BY <1>2
    <2>3. QED
      BY <1>1, <2>1, <2>2, AssembledText
  <1>4. Marked(s, mark) = JoinBy(parts, <<>>)
    BY DEF Marked, EachChar
  <1> HIDE DEF parts
  <1>5. QED
    BY <1>1, <1>2, <1>3, <1>4, CodedBack

(* Percent-encoding, a character at a time; plus is a plus that stands for *)
(* a blank in url_encode.                                                  *)
PercentPart(c, space) ==
    IF c \in Unreserved THEN <<c>> ELSE IF c = " " THEN space ELSE <<"%", Name(c)>>
LEMMA PercentCodes ==
    ASSUME NEW c, c \notin Escapes
    PROVE  Codes(PercentPart(c, <<"%", "20">>), c, "%")
  <1>1. CASE c \in Unreserved
    <2>1. PercentPart(c, <<"%", "20">>) = <<c>> /\ c # "%"
      BY <1>1 DEF PercentPart, Unreserved
    <2>2. QED
      BY <2>1, ATuple DEF Codes
  <1>2. CASE c \notin Unreserved /\ c = " "
    <2> DEFINE part == <<"%", "20">>
    <2>1. PercentPart(c, part) = part
      BY <1>2 DEF PercentPart
    <2>2. Len(part) = 2 /\ part[1] = "%" /\ part[2] = "20"
      OBVIOUS
    <2>3. Unname("20") = " "
      <3>1. <<" ", "20">> \in Specials
        BY DEF Specials
      <3> DEFINE p == <<" ", "20">>
      <3>2. p[1] = " " /\ p[2] = "20" /\ p \in Specials
        BY <3>1
      <3> HIDE DEF p
      <3>3. Unname("20") = (CHOOSE q \in Specials : q[2] = "20")[1]
        BY <3>2 DEF Unname
      <3>4. \A q \in Specials : q[2] = "20" => q = p
        BY <3>2, NamesApart
      <3>5. (CHOOSE q \in Specials : q[2] = "20") = p
        BY <3>2, <3>4
      <3>6. QED
        BY <3>2, <3>3, <3>5
    <2> HIDE DEF part
    <2>4. Codes(part, c, "%")
      BY <1>2, <2>2, <2>3 DEF Codes
    <2>5. QED
      BY <2>1, <2>4 DEF part
  <1>3. CASE c \notin Unreserved /\ c # " "
    <2> DEFINE name == Name(c)
               part == <<"%", name>>
    <2>1. PercentPart(c, <<"%", "20">>) = part
      BY <1>3 DEF PercentPart
    <2>2. Unname(name) = c
      BY NamedBack
    <2> HIDE DEF name
    <2>3. Len(part) = 2 /\ part[1] = "%" /\ part[2] = name
      OBVIOUS
    <2> HIDE DEF part
    <2>4. Codes(part, c, "%")
      BY <2>2, <2>3 DEF Codes
    <2>5. QED
      BY <2>1, <2>4
  <1>4. QED
    BY <1>1, <1>2, <1>3

LEMMA PercentTyped ==
    ASSUME NEW c \in Characters \ Escapes, NEW space \in Seq(Written)
    PROVE  PercentPart(c, space) \in Seq(Written)
  <1>1. CASE c \in Unreserved
    <2>1. c # " "
      BY <1>1 DEF Unreserved
    <2>2. c \in Written
      BY <2>1 DEF Written
    <2>3. <<c>> \in Seq(Written)
      BY <2>2, ATuple
    <2>4. QED
      BY <1>1, <2>3 DEF PercentPart
  <1>2. CASE c \notin Unreserved /\ c = " "
    BY <1>2 DEF PercentPart
  <1>3. CASE c \notin Unreserved /\ c # " "
    <2>1. Name(c) # " "
      BY NamedBack
    <2>2. Name(c) \in Written /\ "%" \in Written
      BY <2>1 DEF Written
    <2>3. <<"%", Name(c)>> \in Seq(Written)
      BY <2>2, ATuple
    <2>4. QED
      BY <1>3, <2>3 DEF PercentPart
  <1>4. QED
    BY <1>1, <1>2, <1>3

LEMMA PercentBack ==
    ASSUME NEW s \in Seq(Characters \ Escapes)
    PROVE  Unmark(Percent(s, <<"%", "20">>), "%") = Ok(s)
  <1> DEFINE blank == <<"%", "20">>
             parts == [i \in DOMAIN s |-> PercentPart(s[i], blank)]
             N == Len(s)
  <1>1. N \in Nat /\ DOMAIN s = 1 .. N /\ \A i \in 1 .. N : s[i] \in Characters \ Escapes
    BY AText
  <1>2. Percent(s, blank) = JoinBy(parts, <<>>)
    BY DEF Percent, EachChar, PercentPart
  <1>3. blank \in Seq(Written)
    <2>1. "%" \in Written /\ "20" \in Written
      BY DEF Written
    <2>2. QED
      BY <2>1, ATuple
  <1>4. \A i \in 1 .. N : parts[i] = PercentPart(s[i], blank) /\ Codes(parts[i], s[i], "%")
    BY <1>1, PercentCodes
  <1>5. parts = [i \in 1 .. N |-> parts[i]]
    BY <1>1
  <1> HIDE DEF parts, blank
  <1>6. \A i \in 1 .. N : parts[i] \in Seq(Written)
    BY <1>1, <1>3, <1>4, PercentTyped
  <1>7. parts \in Seq(Seq(Written)) /\ Len(parts) = N
    BY <1>1, <1>5, <1>6, AssembledText
  <1>8. Unmark(JoinBy(parts, <<>>), "%") = Ok(s)
    BY <1>1, <1>4, <1>7, CodedBack
  <1>9. QED
    BY <1>2, <1>8 DEF blank

(* The plus of url_encode is a blank again before its marks are undone.    *)
Blanked(c) == IF c = "+" THEN " " ELSE c
LEMMA FirstTwo == 1 \in 1 .. 1 /\ 1 \in 1 .. 2 /\ 2 \in 1 .. 2
  OBVIOUS
LEMMA BlankedCodes ==
    ASSUME NEW c, c \notin Escapes, NEW part, part = PercentPart(c, <<"+">>), NEW blanked, Len(blanked) = Len(part),
           \A j \in 1 .. Len(part) : blanked[j] = Blanked(part[j])
    PROVE  Codes(blanked, c, "%")
  <1>1. CASE c \in Unreserved
    <2>1. part = <<c>> /\ c # "%" /\ c # "+"
      BY <1>1 DEF PercentPart, Unreserved
    <2>2. Len(part) = 1 /\ part[1] = c
      BY <2>1, ATuple
    <2>3. blanked[1] = c
      BY <2>1, <2>2, FirstTwo DEF Blanked
    <2>4. QED
      BY <2>1, <2>2, <2>3 DEF Codes
  <1>2. CASE c \notin Unreserved /\ c = " "
    <2>1. part = <<"+">>
      BY <1>2 DEF PercentPart
    <2>2. Len(part) = 1 /\ part[1] = "+"
      BY <2>1, ATuple
    <2>3. blanked[1] = " "
      BY <2>2, FirstTwo DEF Blanked
    <2>4. QED
      BY <1>2, <2>2, <2>3 DEF Codes
  <1>3. CASE c \notin Unreserved /\ c # " "
    <2> DEFINE name == Name(c)
    <2>1. part = <<"%", name>>
      BY <1>3 DEF PercentPart
    <2>2. Unname(name) = c /\ name # "+"
      BY NamedBack
    <2> HIDE DEF name
    <2>3. Len(part) = 2 /\ part[1] = "%" /\ part[2] = name
      BY <2>1, APair
    <2>4. blanked[1] = "%" /\ blanked[2] = name
      BY <2>2, <2>3, FirstTwo DEF Blanked
    <2>5. QED
      BY <2>2, <2>3, <2>4 DEF Codes
  <1>4. QED
    BY <1>1, <1>2, <1>3

LEMMA StandBlanked ==
    ASSUME NEW T, NEW parts \in Seq(Seq(T)), NEW joined \in Seq(T), NEW pos, Stand(pos, parts, joined)
    PROVE  Stand(pos, [k \in DOMAIN parts |-> [j \in DOMAIN parts[k] |-> Blanked(parts[k][j])]],
                      [i \in DOMAIN joined |-> Blanked(joined[i])])
  <1> DEFINE N == Len(parts)
             L == Len(joined)
             parts1 == [k \in DOMAIN parts |-> [j \in DOMAIN parts[k] |-> Blanked(parts[k][j])]]
             joined1 == [i \in DOMAIN joined |-> Blanked(joined[i])]
  <1>1. /\ N \in Nat /\ DOMAIN parts = 1 .. N /\ \A k \in 1 .. N : parts[k] \in Seq(T)
        /\ L \in Nat /\ DOMAIN joined = 1 .. L
    BY AText
  <1>2. Len(parts1) = N /\ Len(joined1) = L
    BY <1>1
  <1>3. /\ pos \in [0 .. N -> 0 .. L] /\ pos[0] = 0 /\ pos[N] = L
        /\ \A k \in 1 .. N : /\ pos[k] = pos[k - 1] + Len(parts[k])
                             /\ \A j \in 1 .. Len(parts[k]) : joined[pos[k - 1] + j] = parts[k][j]
    BY DEF Stand
  <1>4. ASSUME NEW k \in 1 .. N
        PROVE  /\ pos[k] = pos[k - 1] + Len(parts1[k])
               /\ \A j \in 1 .. Len(parts1[k]) : joined1[pos[k - 1] + j] = parts1[k][j]
    <2> DEFINE part == parts[k]
               M == Len(part)
               p == pos[k - 1]
               q == pos[k]
    <2>1. part \in Seq(T) /\ M \in Nat /\ DOMAIN part = 1 .. M
      <3>1. part \in Seq(T)
        BY <1>1
      <3> HIDE DEF part
      <3>2. QED
        BY <3>1, AText
    <2>2. parts1[k] = [j \in DOMAIN part |-> Blanked(part[j])]
      BY <1>1
    <2>3. p \in 0 .. L /\ q \in 0 .. L /\ q = p + M
      <3>1. k \in 0 .. N /\ k - 1 \in 0 .. N
        BY <1>1
      <3>2. QED
        BY <1>3, <3>1
    <2>4. \A j \in 1 .. M : joined[p + j] = part[j]
      BY <1>3
    <2>5. \A i \in 1 .. L : joined1[i] = Blanked(joined[i])
      BY <1>1
    <2> DEFINE part1 == parts1[k]
    <2> HIDE DEF part, p, q, parts1, joined1
    <2>6. part1 = [j \in 1 .. M |-> Blanked(part[j])]
      BY <2>1, <2>2
    <2> HIDE DEF M, part1
    <2>7. Len(part1) = M /\ \A j \in 1 .. M : part1[j] = Blanked(part[j])
      BY <2>1, <2>6
    <2>8. \A j \in 1 .. M : p + j \in 1 .. L
      BY <1>1, <2>1, <2>3
    <2>9. \A j \in 1 .. M : joined1[p + j] = part1[j]
      BY <2>4, <2>5, <2>7, <2>8
    <2>10. q = p + Len(part1) /\ \A j \in 1 .. Len(part1) : joined1[p + j] = part1[j]
      BY <2>3, <2>7, <2>9
    <2>11. QED
      BY <2>10 DEF p, q, part1
  <1> HIDE DEF parts1, joined1
  <1>5. Stand(pos, parts1, joined1)
    BY <1>2, <1>3, <1>4 DEF Stand
  <1>6. QED
    BY <1>5 DEF parts1, joined1

LEMMA UrlBack ==
    ASSUME NEW s \in Seq(Characters \ Escapes)
    PROVE  UrlDecode(Percent(s, <<"+">>)) = s
  <1> DEFINE plus == <<"+">>
             parts == [i \in DOMAIN s |-> PercentPart(s[i], plus)]
             joined == JoinBy(parts, <<>>)
             parts1 == [k \in DOMAIN parts |-> [j \in DOMAIN parts[k] |-> Blanked(parts[k][j])]]
             joined1 == [i \in DOMAIN joined |-> Blanked(joined[i])]
             N == Len(s)
  <1>1. N \in Nat /\ DOMAIN s = 1 .. N /\ \A i \in 1 .. N : s[i] \in Characters \ Escapes
    BY AText
  <1>2. Percent(s, plus) = joined
    BY DEF Percent, EachChar, PercentPart
  <1>3. plus \in Seq(Written)
    <2>1. "+" \in Written
      BY DEF Written
    <2>2. QED
      BY <2>1, ATuple
  <1>4. \A i \in 1 .. N : parts[i] = PercentPart(s[i], plus)
    BY <1>1
  <1>5. parts = [i \in 1 .. N |-> parts[i]]
    BY <1>1
  <1> HIDE DEF parts
  <1>6. \A i \in 1 .. N : parts[i] \in Seq(Written)
    <2> HIDE DEF plus
    <2>1. QED
      BY <1>1, <1>3, <1>4, PercentTyped
  <1>7. parts \in Seq(Seq(Written)) /\ Len(parts) = N /\ DOMAIN parts = 1 .. N
    <2> HIDE DEF plus
    <2>1. QED
      BY <1>1, <1>5, <1>6, AssembledText, AText
  <1>8. joined \in Seq(Written) /\ \E pos : Stand(pos, parts, joined)
    BY <1>7, PartsStand
  <1> HIDE DEF joined
  <1>9. PICK pos : Stand(pos, parts, joined)
    BY <1>8
  <1>10. Stand(pos, parts1, joined1)
    BY <1>7, <1>8, <1>9, StandBlanked
  <1>11. Len(joined) \in Nat /\ DOMAIN joined = 1 .. Len(joined)
    BY <1>8, AText
  <1>12. Len(joined1) \in Nat
    BY <1>11
  <1>13. Len(parts1) = N
    BY <1>1, <1>7
  <1>14. ASSUME NEW k \in 1 .. N PROVE Codes(parts1[k], s[k], "%")
    <2> DEFINE part == parts[k]
               part1 == parts1[k]
    <2>1. part1 = [j \in DOMAIN part |-> Blanked(part[j])]
      BY <1>7
    <2>2. part \in Seq(Written) /\ part = PercentPart(s[k], plus)
      BY <1>4, <1>6
    <2> HIDE DEF part, part1, parts1, plus
    <2>3. Len(part) \in Nat /\ DOMAIN part = 1 .. Len(part)
      BY <2>2, AText
    <2>4. Len(part1) = Len(part) /\ \A j \in 1 .. Len(part) : part1[j] = Blanked(part[j])
      BY <2>1, <2>3
    <2>5. s[k] \notin Escapes
      BY <1>1
    <2>6. Codes(part1, s[k], "%")
      BY <2>2, <2>4, <2>5, BlankedCodes DEF plus
    <2>7. QED
      BY <2>6 DEF part1
  <1>15. UrlDecode(joined) = Unmark(joined1, "%").value
    BY DEF UrlDecode, Blanked
  <1> HIDE DEF parts1, joined1
  <1>16. Unmark(joined1, "%") = Ok(s)
    BY <1>1, <1>10, <1>12, <1>13, <1>14, UnmarkedAre
  <1>17. QED
    BY <1>2, <1>15, <1>16 DEF Ok

LEMMA NothingToTrim ==
    ASSUME NEW s \in Seq(Written)
    PROVE  Trim(s) = s
  <1> DEFINE N == Len(s)
             kept == {i \in DOMAIN s : s[i] # " "}
             first == CHOOSE i \in kept : \A j \in kept : i <= j
             last == CHOOSE i \in kept : \A j \in kept : j <= i
  <1>1. N \in Nat /\ DOMAIN s = 1 .. N /\ \A i \in 1 .. N : s[i] \in Written
    BY AText
  <1>2. kept = 1 .. N
    BY <1>1 DEF Written
  <1>3. Trim(s) = IF kept = {} THEN <<>> ELSE SubSeq(s, first, last)
    BY DEF Trim
  <1>4. CASE N = 0
    <2>1. kept = {}
      BY <1>2, <1>4
    <2> DEFINE empty == <<>>
    <2>2. s = empty
      BY <1>4
    <2> HIDE DEF kept
    <2>3. QED
      BY <1>3, <2>1, <2>2
  <1>5. CASE N # 0
    <2>1. first = 1
      <3> HIDE DEF kept
      <3>1. \A i \in kept : (\A j \in kept : i <= j) => i = 1
        BY <1>1, <1>2, <1>5
      <3>2. 1 \in kept /\ \A j \in kept : 1 <= j
        BY <1>1, <1>2, <1>5
      <3>3. QED
        BY <3>1, <3>2
    <2>2. last = N
      <3> HIDE DEF kept
      <3>1. N \in kept /\ \A j \in kept : j <= N
        BY <1>1, <1>2, <1>5
      <3> HIDE DEF N
      <3>2. ASSUME NEW i \in 1 .. N, N <= i PROVE i = N
        BY <1>1, <3>2
      <3>3. QED
        BY <1>2, <3>1, <3>2
    <2>3. kept # {}
      <3> HIDE DEF kept
      <3>1. 1 \in kept
        BY <1>1, <1>2, <1>5
      <3>2. QED
        BY <3>1
    <2>4. SubSeq(s, 1, N) = s
      OBVIOUS
    <2> HIDE DEF kept, first, last
    <2>5. QED
      BY <1>3, <2>1, <2>2, <2>3, <2>4
  <1>6. QED
    BY <1>4, <1>5

(* A path of no segments but the block's.                                  *)
LEMMA IndexNone ==
    ASSUME NEW result, NEW segments, Len(segments) = 0
    PROVE  Index(result, segments) = result
  <1> DEFINE g == [n \in 0 .. 0 |-> result]
  <1>1. \A n \in 0 .. 0 : n = 0
    OBVIOUS
  <1>2. g = [n \in 0 .. 0 |-> IF n = 0 THEN result ELSE MemberOf(g[n - 1], segments[n])]
    BY <1>1
  <1>3. IsIndex(g, result, segments)
    BY <1>2 DEF IsIndex
  <1> DEFINE Def(f) == IsIndex(f, result, segments)
             at == CHOOSE f : Def(f)
  <1>4. Def(at)
    <2>1. Def(g)
      BY <1>3
    <2> HIDE DEF Def
    <2>2. QED
      BY <2>1
  <1>5. Index(result, segments) = at[Len(segments)]
    BY DEF Index, IsIndex
  <1> HIDE DEF at
  <1>6. at = [n \in 0 .. 0 |-> IF n = 0 THEN result ELSE MemberOf(at[n - 1], segments[n])]
    BY <1>4 DEF IsIndex
  <1> HIDE DEF Def
  <1>7. at[0] = result
    <2>1. 0 \in 0 .. 0
      OBVIOUS
    <2>2. QED
      BY <1>6, <2>1
  <1>8. QED
    BY <1>5, <1>7

(* The raw body.                                                           *)
RawBytes == Block("raw_body_bytes")
LEMMA RawBytesAre ==
    ASSUME RawBytes \in ExpressionsTo[MaxDepth], NEW r, NEW key, NEW inside
    PROVE  RawBytes \in LeafExpressions /\ Worth(RawBytes, r, key, inside) = Ok(Value("bytes", r.body))
  <1> DEFINE first == [t |-> "key", v |-> "raw_body_bytes"]
             segments == <<first>>
  <1>1. RawBytes = [kind |-> "path", root |-> "request", segments |-> segments]
    BY DEF RawBytes, Block, Path
  <1>2. first.v = "raw_body_bytes"
    OBVIOUS
  <1> HIDE DEF first
  <1>3. segments[1] = first /\ Len(Tail(segments)) = 0
    OBVIOUS
  <1> HIDE DEF segments
  <1>4. RawBytes \in LeafExpressions
    <2>1. CASE MaxDepth = 0
      BY <2>1, ExpressionsAre
    <2>2. CASE MaxDepth # 0
      <3>1. MaxDepth \in 1 .. MaxDepth
        BY <2>2, DepthAssumption
      <3>2. RawBytes \notin CallsOn(ExpressionsTo[MaxDepth - 1])
        <4>1. \A arguments : \A call \in CallsOn(arguments) : call.kind = "call"
          BY DEF CallsOn
        <4>2. QED
          BY <1>1, <4>1
      <3>3. QED
        BY <3>1, <3>2, ExpressionsAre
    <2>3. QED
      BY <2>1, <2>2
  <1>5. RawBytes.kind = "path" /\ RawBytes.root = "request" /\ RawBytes.segments = segments
    BY <1>1
  <1>6. Worth(RawBytes, r, key, inside) = EvaluatePath(RawBytes, r, key)
    BY <1>5 DEF Worth
  <1>7. EvaluatePath(RawBytes, r, key) = Index(RequestBlock("raw_body_bytes", r), Tail(segments))
    BY <1>2, <1>3, <1>5 DEF EvaluatePath
  <1>8. Index(RequestBlock("raw_body_bytes", r), Tail(segments)) = RequestBlock("raw_body_bytes", r)
    BY <1>3, IndexNone
  <1>9. RequestBlock("raw_body_bytes", r) = Ok(Value("bytes", r.body))
    BY DEF RequestBlock
  <1>10. QED
    BY <1>4, <1>6, <1>7, <1>8, <1>9

(* A function of one argument.                                             *)
LEMMA CallOfOne ==
    ASSUME NEW f \in Functions \ Variadic, NEW e, NEW r, NEW key, NEW inside
    PROVE  /\ inside[e].ok => Worth(Applied(f, e), r, key, inside) = Apply(f, inside[e].value, None)
           /\ ~inside[e].ok => Worth(Applied(f, e), r, key, inside) = inside[e]
  <1> DEFINE one == <<e>>
             call == Applied(f, e)
             results == [i \in DOMAIN one |-> inside[one[i]]]
  <1>1. call.kind = "call" /\ call.function = f /\ call.arguments = one /\ call.order = None
    BY DEF Applied, Call
  <1>2. DOMAIN one = 1 .. 1 /\ one[1] = e
    OBVIOUS
  <1>3. Worth(call, r, key, inside) = CallWith(call, Gathered(results))
    <2> HIDE DEF call, one
    <2>1. QED
      BY <1>1 DEF Worth
  <1>4. DOMAIN results = 1 .. 1 /\ results[1] = inside[e] /\ 1 \in 1 .. 1 /\ \A i \in 1 .. 1 : i = 1
    BY <1>2
  <1> HIDE DEF results, one, call
  <1>5. ASSUME inside[e].ok PROVE Worth(call, r, key, inside) = Apply(f, inside[e].value, None)
    <2> DEFINE values == [i \in DOMAIN results |-> results[i].value]
    <2>1. Gathered(results) = Ok(values)
      BY <1>4, <1>5 DEF Gathered
    <2>2. values[1] = inside[e].value
      BY <1>4
    <2> HIDE DEF values
    <2>3. Ok(values).ok /\ Ok(values).value = values
      BY DEF Ok
    <2>4. f # "concat" /\ f # "join" /\ f \notin Variadic
      BY DEF Variadic
    <2>5. CallWith(call, Ok(values)) = Apply(f, values[1], None)
      BY <1>1, <2>3, <2>4 DEF CallWith
    <2>6. QED
      BY <1>3, <2>1, <2>2, <2>5
  <1>6. ASSUME ~inside[e].ok PROVE Worth(call, r, key, inside) = inside[e]
    <2> DEFINE Bad(i) == i \in DOMAIN results /\ ~results[i].ok /\ \A j \in 1 .. i - 1 : results[j].ok
               at == CHOOSE i \in DOMAIN results : ~results[i].ok /\ \A j \in 1 .. i - 1 : results[j].ok
    <2>1. Gathered(results) = results[at]
      BY <1>4, <1>6 DEF Gathered
    <2>2. at = 1
      <3>1. \A j \in 1 .. 1 - 1 : FALSE
        OBVIOUS
      <3>2. ~results[1].ok /\ 1 \in DOMAIN results /\ \A j \in 1 .. 1 - 1 : results[j].ok
        BY <1>4, <1>6, <3>1
      <3>3. at \in DOMAIN results
        BY <3>2
      <3> HIDE DEF at
      <3>4. QED
        BY <1>4, <3>3
    <2>3. Gathered(results) = inside[e]
      BY <1>4, <2>1, <2>2
    <2>4. CallWith(call, inside[e]) = inside[e]
      BY <1>6 DEF CallWith
    <2>5. QED
      BY <1>3, <2>3, <2>4
  <1>7. QED
    BY <1>5, <1>6 DEF call

(* What a function of one argument gives, of bytes and of text.            *)
LEMMA OfBytes ==
    ASSUME NEW f \in BytesFunctions, NEW b, NEW order
    PROVE  Apply(f, Value("bytes", b), order) = OnBytes(f, b)
  <1> DEFINE v == Value("bytes", b)
  <1>1. v.type = "bytes" /\ v.chars = b
    BY DEF Value
  <1> HIDE DEF v
  <1>2. IntoBytes(v) = Ok(b)
    BY <1>1 DEF IntoBytes, Scalar
  <1>3. WithBytes(f, Ok(b)) = OnBytes(f, b)
    BY DEF WithBytes, Ok
  <1>4. f \notin {"json_encode", "sort", "sort_keys", "form_encode", "canonicalize_query"}
    BY DEF BytesFunctions
  <1>5. Apply(f, v, order) = WithBytes(f, IntoBytes(v))
    BY <1>4 DEF Apply
  <1>6. QED
    BY <1>2, <1>3, <1>5 DEF v

TextFunctions == {"hex_decode", "base64_decode", "base64url_decode", "url_decode", "percent_encode", "percent_decode"}
LEMMA OfText ==
    ASSUME NEW f \in TextFunctions, NEW v, NEW order
    PROVE  Apply(f, v, order) = WithText(f, IntoText(v))
  <1>1. f \notin {"json_encode", "sort", "sort_keys", "form_encode", "canonicalize_query"} /\ f \notin BytesFunctions
    BY DEF BytesFunctions, TextFunctions
  <1>2. QED
    BY <1>1 DEF Apply
LEMMA IntoTextIs ==
    ASSUME NEW s
    PROVE  /\ IntoText(TextValue(s)) = Ok(s)
           /\ IntoText(Value("bytes", s)) = IF Utf8(s) THEN Ok(s) ELSE Error("utf8")
  <1>1. ASSUME NEW v, v.type \in {"text", "bytes"}, v.chars = s
        PROVE  IntoText(v) = IF v.type = "bytes" /\ ~Utf8(s) THEN Error("utf8") ELSE Ok(s)
    <2>1. IntoBytes(v) = Ok(s)
      BY <1>1 DEF IntoBytes, Scalar
    <2>2. Ok(s).ok
      BY DEF Ok
    <2>3. IntoText(v) = IF Ok(s).ok /\ v.type = "bytes" /\ ~Utf8(v.chars) THEN Error("utf8") ELSE Ok(s)
      BY <2>1 DEF IntoText
    <2>4. QED
      BY <1>1, <2>2, <2>3
  <1>2. TextValue(s).type = "text" /\ TextValue(s).chars = s /\ Value("bytes", s).type = "bytes" /\ Value("bytes", s).chars = s
    BY DEF TextValue, Value
  <1>3. QED
    BY <1>1, <1>2
LEMMA WithTextIs ==
    ASSUME NEW f, NEW s
    PROVE  WithText(f, Ok(s)) = OnText(f, s) /\ WithText(f, Error("utf8")) = Error("utf8")
  BY DEF WithText, Ok, Error

(* A function of what another one gives for the raw body.                  *)
LEMMA Composed ==
    ASSUME MaxDepth > 1, RawBytes \in ExpressionsTo[MaxDepth],
           NEW f \in Functions \ Variadic, NEW g \in Functions \ Variadic, NEW r, NEW key
    PROVE  LET once == Apply(f, Value("bytes", r.body), None)
           IN  Evaluate(Applied(g, Applied(f, RawBytes)), r, key) =
                   IF once.ok THEN Apply(g, once.value, None) ELSE once
  <1> DEFINE x1 == Applied(f, RawBytes)
             x2 == Applied(g, x1)
             once == Apply(f, Value("bytes", r.body), None)
             n == MaxDepth - 2
  <1>1. PICK at : Evaluates(at, r, key)
    BY EvaluatorIs
  <1>2. /\ n \in 0 .. MaxDepth /\ n + 1 \in 1 .. MaxDepth /\ n + 2 \in 1 .. MaxDepth /\ n + 1 \in 0 .. MaxDepth
        /\ n + 2 \in 0 .. MaxDepth /\ n + 2 = MaxDepth /\ (n + 1) - 1 = n /\ (n + 2) - 1 = n + 1
    BY DepthAssumption
  <1> HIDE DEF n
  <1>3. ASSUME NEW h \in Functions \ Variadic, NEW k \in 1 .. MaxDepth, NEW e \in ExpressionsTo[k - 1]
        PROVE  Applied(h, e) \in ExpressionsTo[k]
    <2> DEFINE call == Applied(h, e)
               E == ExpressionsTo[k - 1]
    <2>1. <<e>> \in Seq(E)
      BY ATuple
    <2>2. call = [kind |-> "call", function |-> h, arguments |-> <<e>>, separator |-> None, order |-> None]
      BY DEF Applied, Call
    <2>3. None \in SUBSET Separators /\ None \in SUBSET Orders
      BY DEF None
    <2> HIDE DEF E
    <2>4. call \in [kind : {"call"}, function : Functions, arguments : Seq(E), separator : SUBSET Separators, order : SUBSET Orders]
      BY <2>1, <2>2, <2>3
    <2>5. ValidCall(call)
      <3>1. call.arguments = <<e>> /\ call.function = h
        BY <2>2
      <3>2. Len(call.arguments) = 1
        BY <3>1, ATuple
      <3>3. h # "join"
        BY DEF Variadic
      <3> HIDE DEF call
      <3>4. QED
        BY <3>1, <3>2, <3>3 DEF ValidCall
    <2> HIDE DEF call
    <2>6. call \in CallsOn(E)
      BY <2>4, <2>5 DEF CallsOn
    <2>7. QED
      BY <2>6, ExpressionsAre DEF E, call
  <1>4. RawBytes \in ExpressionsTo[n]
    <2>1. RawBytes \in LeafExpressions
      BY RawBytesAre
    <2>2. n = 0 \/ n \in 1 .. MaxDepth
      BY <1>2
    <2>3. QED
      BY <2>1, <2>2, ExpressionsAre
  <1>5. x1 \in ExpressionsTo[n + 1]
    BY <1>2, <1>3, <1>4
  <1> HIDE DEF x1
  <1>6. x2 \in ExpressionsTo[n + 2]
    BY <1>2, <1>3, <1>5
  <1> HIDE DEF x2
  <1>7. at[n][RawBytes] = Ok(Value("bytes", r.body))
    <2>1. at[n][RawBytes] = Worth(RawBytes, r, key, at[n - 1])
      BY <1>1, <1>2, <1>4 DEF Evaluates
    <2>2. QED
      BY <2>1, RawBytesAre
  <1>8. at[n + 1][x1] = once
    <2>1. at[n + 1][x1] = Worth(x1, r, key, at[n])
      BY <1>1, <1>2, <1>5 DEF Evaluates
    <2>2. at[n][RawBytes].ok /\ at[n][RawBytes].value = Value("bytes", r.body)
      BY <1>7 DEF Ok
    <2> HIDE DEF once
    <2>3. Worth(x1, r, key, at[n]) = Apply(f, at[n][RawBytes].value, None)
      BY <2>2, CallOfOne DEF x1
    <2>4. QED
      BY <2>1, <2>2, <2>3 DEF once
  <1>9. at[n + 2][x2] = Worth(x2, r, key, at[n + 1])
    BY <1>1, <1>2, <1>6 DEF Evaluates
  <1>10. Evaluate(x2, r, key) = at[n + 2][x2]
    BY <1>1, <1>2 DEF Evaluates
  <1>11. Worth(x2, r, key, at[n + 1]) = IF at[n + 1][x1].ok THEN Apply(g, at[n + 1][x1].value, None) ELSE at[n + 1][x1]
    BY CallOfOne DEF x2
  <1> HIDE DEF once
  <1>12. Evaluate(x2, r, key) = IF once.ok THEN Apply(g, once.value, None) ELSE once
    BY <1>8, <1>9, <1>10, <1>11
  <1>13. QED
    BY <1>12 DEF x1, x2, once

(* Each encoding, decoded.                                                 *)
Decoded(once, g) == IF once.ok THEN Apply(g, once.value, None) ELSE once
LEMMA OkIs == \A x : Ok(x).ok /\ Ok(x).value = x
  BY DEF Ok
LEMMA TextIs == \A s : TextValue(s).chars = s /\ Value("bytes", s).chars = s
  BY DEF TextValue, Value

LEMMA MarksDecode ==
    ASSUME NEW s \in Seq(Characters \ Escapes), NEW order
    PROVE  /\ Decoded(Apply("hex", Value("bytes", s), order), "hex_decode") = Ok(Value("bytes", s))
           /\ Decoded(Apply("base64", Value("bytes", s), order), "base64_decode") = Ok(Value("bytes", s))
           /\ Decoded(Apply("base64url", Value("bytes", s), order), "base64url_decode") = Ok(Value("bytes", s))
  <1>1. ASSUME NEW f \in BytesFunctions, NEW g \in TextFunctions, NEW mark \in {"#", "$", "_"},
               \A b : OnBytes(f, b) = Ok(TextValue(Marked(b, mark))),
               \A t : OnText(g, t) = AsBytes(Unmark(Trim(t), mark))
        PROVE  Decoded(Apply(f, Value("bytes", s), order), g) = Ok(Value("bytes", s))
    <2> DEFINE marked == Marked(s, mark)
               once == Apply(f, Value("bytes", s), order)
    <2>1. once = Ok(TextValue(marked))
      BY <1>1, OfBytes
    <2>2. marked \in Seq(Written) /\ Unmark(marked, mark) = Ok(s)
      BY MarkedBack
    <2> HIDE DEF marked, once
    <2>3. Trim(marked) = marked
      BY <2>2, NothingToTrim
    <2>4. OnText(g, marked) = AsBytes(Ok(s))
      BY <1>1, <2>2, <2>3
    <2>5. AsBytes(Ok(s)) = Ok(Value("bytes", s))
      BY OkIs DEF AsBytes
    <2>6. Apply(g, TextValue(marked), None) = OnText(g, marked)
      <3>1. Apply(g, TextValue(marked), None) = WithText(g, IntoText(TextValue(marked)))
        BY OfText
      <3>2. QED
        BY <3>1, IntoTextIs, WithTextIs
    <2>7. Decoded(once, g) = Apply(g, TextValue(marked), None)
      BY <2>1, OkIs DEF Decoded
    <2>8. QED
      BY <2>4, <2>5, <2>6, <2>7 DEF once
  <1>2. /\ \A b : OnBytes("hex", b) = Ok(TextValue(Marked(b, "#")))
        /\ \A b : OnBytes("base64", b) = Ok(TextValue(Marked(b, "$")))
        /\ \A b : OnBytes("base64url", b) = Ok(TextValue(Marked(b, "_")))
    BY DEF OnBytes
  <1>3. /\ \A t : OnText("hex_decode", t) = AsBytes(Unmark(Trim(t), "#"))
        /\ \A t : OnText("base64_decode", t) = AsBytes(Unmark(Trim(t), "$"))
        /\ \A t : OnText("base64url_decode", t) = AsBytes(Unmark(Trim(t), "_"))
    BY DEF OnText
  <1>4. /\ {"hex", "base64", "base64url"} \subseteq BytesFunctions
        /\ {"hex_decode", "base64_decode", "base64url_decode"} \subseteq TextFunctions
    BY DEF BytesFunctions, TextFunctions
  <1>5. Decoded(Apply("hex", Value("bytes", s), order), "hex_decode") = Ok(Value("bytes", s))
    BY <1>1, <1>2, <1>3, <1>4
  <1>6. Decoded(Apply("base64", Value("bytes", s), order), "base64_decode") = Ok(Value("bytes", s))
    BY <1>1, <1>2, <1>3, <1>4
  <1>7. Decoded(Apply("base64url", Value("bytes", s), order), "base64url_decode") = Ok(Value("bytes", s))
    BY <1>1, <1>2, <1>3, <1>4
  <1>8. QED
    BY <1>5, <1>6, <1>7

LEMMA UrlDecodes ==
    ASSUME NEW s \in Seq(Characters \ Escapes), NEW order
    PROVE  Decoded(Apply("url_encode", Value("bytes", s), order), "url_decode") = AsText(s)
  <1> DEFINE coded == Percent(s, <<"+">>)
             once == Apply("url_encode", Value("bytes", s), order)
  <1>1. "url_encode" \in BytesFunctions /\ "url_decode" \in TextFunctions
    BY DEF BytesFunctions, TextFunctions
  <1>2. OnBytes("url_encode", s) = Ok(TextValue(coded))
    BY DEF OnBytes
  <1>3. once = Ok(TextValue(coded))
    BY <1>1, <1>2, OfBytes
  <1>4. UrlDecode(coded) = s
    BY UrlBack
  <1> HIDE DEF coded, once
  <1>5. \A t : OnText("url_decode", t) = AsText(UrlDecode(t))
    BY DEF OnText
  <1>6. Apply("url_decode", TextValue(coded), None) = OnText("url_decode", coded)
    <2>1. Apply("url_decode", TextValue(coded), None) = WithText("url_decode", IntoText(TextValue(coded)))
      BY <1>1, OfText
    <2>2. QED
      BY <2>1, IntoTextIs, WithTextIs
  <1>7. Decoded(once, "url_decode") = Apply("url_decode", TextValue(coded), None)
    BY <1>3, OkIs DEF Decoded
  <1>8. QED
    BY <1>4, <1>5, <1>6, <1>7 DEF once

LEMMA PercentDecodes ==
    ASSUME NEW s \in Seq(Characters \ Escapes), NEW order
    PROVE  Decoded(Apply("percent_encode", Value("bytes", s), order), "percent_decode") = AsText(s)
  <1> DEFINE coded == Percent(s, <<"%", "20">>)
             once == Apply("percent_encode", Value("bytes", s), order)
  <1>1. "percent_encode" \in TextFunctions /\ "percent_decode" \in TextFunctions
    BY DEF TextFunctions
  <1>2. once = WithText("percent_encode", IntoText(Value("bytes", s)))
    BY <1>1, OfText
  <1>3. OnText("percent_encode", s) = Ok(TextValue(coded))
    BY DEF OnText
  <1>4. Unmark(coded, "%") = Ok(s)
    BY PercentBack
  <1> HIDE DEF coded, once
  <1>5. \A t : OnText("percent_decode", t) = AsText(Unmark(t, "%").value)
    BY DEF OnText
  <1>6. CASE Utf8(s)
    <2>1. once = Ok(TextValue(coded))
      BY <1>2, <1>3, <1>6, IntoTextIs, WithTextIs
    <2>2. Apply("percent_decode", TextValue(coded), None) = OnText("percent_decode", coded)
      <3>1. Apply("percent_decode", TextValue(coded), None) = WithText("percent_decode", IntoText(TextValue(coded)))
        BY <1>1, OfText
      <3>2. QED
        BY <3>1, IntoTextIs, WithTextIs
    <2>3. Decoded(once, "percent_decode") = Apply("percent_decode", TextValue(coded), None)
      BY <2>1, OkIs DEF Decoded
    <2>4. OnText("percent_decode", coded) = AsText(s)
      BY <1>4, <1>5, OkIs
    <2>5. QED
      BY <2>2, <2>3, <2>4 DEF once
  <1>7. CASE ~Utf8(s)
    <2>1. once = Error("utf8")
      BY <1>2, <1>7, IntoTextIs, WithTextIs
    <2>2. ~Error("utf8").ok
      BY DEF Error
    <2>3. Decoded(once, "percent_decode") = Error("utf8")
      BY <2>1, <2>2 DEF Decoded
    <2>4. AsText(s) = Error("utf8")
      BY <1>7 DEF AsText
    <2>5. QED
      BY <2>3, <2>4 DEF once
  <1>8. QED
    BY <1>6, <1>7

LEMMA TheEncodingsDecode ==
    ASSUME MaxDepth > 1, CheckInv PROVE EncodingsDecode
  <1> DEFINE bytes == case.request.body
             Back(f, g) == Evaluate(Applied(g, Applied(f, RawBytes)), case.request, case.key)
             Same(result, binary) ==
                 IF binary \/ Utf8(bytes) THEN result.ok /\ result.value.chars = bytes ELSE result = Error("utf8")
  <1>1. SUFFICES ASSUME case.config.payload = RawBytes
                 PROVE  /\ Same(Back("hex", "hex_decode"), TRUE) /\ Same(Back("base64", "base64_decode"), TRUE)
                        /\ Same(Back("base64url", "base64url_decode"), TRUE)
                        /\ Same(Back("url_encode", "url_decode"), FALSE)
                        /\ Same(Back("percent_encode", "percent_decode"), FALSE)
    <2> DEFINE codes == {<<"hex", "hex_decode">>, <<"base64", "base64_decode">>, <<"base64url", "base64url_decode">>,
                         <<"url_encode", "url_decode">>, <<"percent_encode", "percent_decode">>}
    <2>1. SUFFICES ASSUME case.config.payload = RawBytes, NEW code \in codes
                   PROVE  Same(Back(code[1], code[2]), code[1] \in {"hex", "base64", "base64url"})
      BY <1>1 DEF EncodingsDecode, RawBytes
    <2> HIDE DEF Same, Back
    <2>2. \/ code = <<"hex", "hex_decode">> \/ code = <<"base64", "base64_decode">>
          \/ code = <<"base64url", "base64url_decode">> \/ code = <<"url_encode", "url_decode">>
          \/ code = <<"percent_encode", "percent_decode">>
      BY <2>1
    <2> HIDE DEF codes
    <2>3. \A f, g : code = <<f, g>> => code[1] = f /\ code[2] = g
      OBVIOUS
    <2>4. CASE code = <<"hex", "hex_decode">>
      <3>1. code[1] = "hex" /\ code[2] = "hex_decode"
        BY <2>3, <2>4
      <3>2. code[1] \in {"hex", "base64", "base64url"}
        BY <3>1
      <3>3. QED
        BY <1>1, <2>1, <3>1, <3>2 DEF Same
    <2>5. CASE code = <<"base64", "base64_decode">>
      <3>1. code[1] = "base64" /\ code[2] = "base64_decode"
        BY <2>3, <2>5
      <3>2. code[1] \in {"hex", "base64", "base64url"}
        BY <3>1
      <3>3. QED
        BY <1>1, <2>1, <3>1, <3>2 DEF Same
    <2>6. CASE code = <<"base64url", "base64url_decode">>
      <3>1. code[1] = "base64url" /\ code[2] = "base64url_decode"
        BY <2>3, <2>6
      <3>2. code[1] \in {"hex", "base64", "base64url"}
        BY <3>1
      <3>3. QED
        BY <1>1, <2>1, <3>1, <3>2 DEF Same
    <2>7. CASE code = <<"url_encode", "url_decode">>
      <3>1. code[1] = "url_encode" /\ code[2] = "url_decode"
        BY <2>3, <2>7
      <3>2. code[1] \notin {"hex", "base64", "base64url"}
        BY <3>1
      <3>3. QED
        BY <1>1, <2>1, <3>1, <3>2 DEF Same
    <2>8. CASE code = <<"percent_encode", "percent_decode">>
      <3>1. code[1] = "percent_encode" /\ code[2] = "percent_decode"
        BY <2>3, <2>8
      <3>2. code[1] \notin {"hex", "base64", "base64url"}
        BY <3>1
      <3>3. QED
        BY <1>1, <2>1, <3>1, <3>2 DEF Same
    <2>9. QED
      BY <2>2, <2>4, <2>5, <2>6, <2>7, <2>8
  <1>2. bytes \in Seq(Characters \ Escapes) /\ RawBytes \in ExpressionsTo[MaxDepth]
    BY <1>1 DEF CheckInv, IsCase
  <1>3. /\ {"hex", "base64", "base64url", "url_encode", "percent_encode"} \subseteq Functions \ Variadic
        /\ {"hex_decode", "base64_decode", "base64url_decode", "url_decode", "percent_decode"} \subseteq Functions \ Variadic
    BY DEF Functions, Variadic, Sorting
  <1>4. \A f, g \in Functions \ Variadic : Back(f, g) = Decoded(Apply(f, Value("bytes", bytes), None), g)
    BY <1>2, Composed DEF Decoded
  <1> HIDE DEF Back
  <1>5. \A result : result = Ok(Value("bytes", bytes)) => Same(result, TRUE)
    BY OkIs, TextIs
  <1>6. \A result : result = AsText(bytes) => Same(result, FALSE)
    BY OkIs, TextIs DEF AsText
  <1> HIDE DEF Same, bytes
  <1>7. /\ Back("hex", "hex_decode") = Ok(Value("bytes", bytes))
        /\ Back("base64", "base64_decode") = Ok(Value("bytes", bytes))
        /\ Back("base64url", "base64url_decode") = Ok(Value("bytes", bytes))
    BY <1>2, <1>3, <1>4, MarksDecode
  <1>8. Back("url_encode", "url_decode") = AsText(bytes)
    BY <1>2, <1>3, <1>4, UrlDecodes
  <1>9. Back("percent_encode", "percent_decode") = AsText(bytes)
    BY <1>2, <1>3, <1>4, PercentDecodes
  <1>10. QED
    BY <1>5, <1>6, <1>7, <1>8, <1>9

(* What was encoded decodes to the same bytes, and what is not UTF-8 is    *)
(* refused where text is wanted, for every body: the functions of          *)
(* eval.rs's encodings are inverse to each other.                          *)
THEOREM EncodedIsDecoded == ASSUME MaxDepth > 1 PROVE CheckSpec => []EncodingsDecode
  <1>1. CheckInv => EncodingsDecode
    BY TheEncodingsDecode
  <1>2. QED
    BY <1>1, CheckInvariance, PTL
=============================================================================
