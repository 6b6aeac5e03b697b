-------------------------------- MODULE Sums --------------------------------
(***************************************************************************)
(* What the sum of a function over its finite domain comes to: when one    *)
(* more element is counted, and when elements are counted class by class.  *)
(***************************************************************************)
EXTENDS FiniteSetTheorems, TLAPS

\* g sums f over every subset of S, taking the elements of each in the order
\* the community modules take them.
IsSumOver(g, f, S) ==
  g = [s \in SUBSET S |->
         IF s = {} THEN 0 ELSE f[CHOOSE x \in s : TRUE] + g[s \ {CHOOSE x \in s : TRUE}]]

\* A set of finite sets that is not empty has one with no other inside.
LEMMA SmallestSet ==
  ASSUME NEW S, NEW T \in SUBSET FiniteSubsetsOf(S), T # {}
  PROVE  \E m \in T : \A t \in T : t \subseteq m => t = m
<1>1. PICK m \in T : \A t \in T : <<t, m>> \notin StrictSubsetOrdering(S)
  BY FS_StrictSubsetOrderingWellFounded, WFMin
<1>2. QED
  BY <1>1 DEF StrictSubsetOrdering, FiniteSubsetsOf

\* Some number of a set of naturals is the least.
LEMMA LeastNumber ==
  ASSUME NEW T \in SUBSET Nat, T # {}
  PROVE  \E n \in T : \A m \in T : n <= m
<1> DEFINE below == {0..n : n \in T}
<1>1. below \in SUBSET FiniteSubsetsOf(Nat) /\ below # {}
  <2>1. ASSUME NEW n \in T PROVE 0..n \in FiniteSubsetsOf(Nat)
    <3>1. n \in Int /\ 0 \in Int /\ 0..n \in SUBSET Nat
      OBVIOUS
    <3>2. IsFiniteSet(0..n)
      BY <3>1, FS_Interval
    <3>3. QED
      BY <3>1, <3>2 DEF FiniteSubsetsOf
  <2>2. QED
    BY <2>1
<1>2. PICK s \in below : \A t \in below : t \subseteq s => t = s
  <2> HIDE DEF below
  <2>1. QED
    BY <1>1, SmallestSet
<1>3. PICK n \in T : s = 0..n
  BY <1>2
<1>4. ASSUME NEW m \in T PROVE n <= m
  <2>1. SUFFICES ASSUME m < n PROVE FALSE
    OBVIOUS
  <2>2. 0..m \subseteq s /\ n \in s /\ n \notin 0..m
    BY <1>3, <2>1
  <2>3. QED
    BY <1>2, <2>2
<1>5. QED
  BY <1>4

\* Two ways of summing agree on the sets both sum.
LEMMA SumsOverAgree ==
  ASSUME NEW S, NEW T, IsFiniteSet(S), NEW f, NEW h, NEW g, NEW k,
         IsSumOver(g, f, S), IsSumOver(k, h, T),
         \A x \in S \cap T : f[x] = h[x]
  PROVE  \A s \in (SUBSET S) \cap (SUBSET T) : g[s] = k[s]
<1> DEFINE Apart == {s \in (SUBSET S) \cap (SUBSET T) : g[s] # k[s]}
<1>1. SUFFICES ASSUME Apart # {} PROVE FALSE
  OBVIOUS
<1>2. Apart \in SUBSET FiniteSubsetsOf(S)
  BY FS_Subset DEF FiniteSubsetsOf
<1> HIDE DEF Apart
<1>3. PICK m \in Apart : \A s \in Apart : s \subseteq m => s = m
  BY <1>1, <1>2, SmallestSet
<1> USE DEF Apart
<1> DEFINE y == CHOOSE x \in m : TRUE
<1>4. CASE m = {}
  BY <1>4 DEF IsSumOver
<1>5. CASE m # {}
  <2>1. y \in m
    BY <1>5
  <2>2. m \ {y} \in (SUBSET S) \cap (SUBSET T) /\ m \ {y} # m
    BY <2>1
  <2>3. g[m \ {y}] = k[m \ {y}]
    BY <1>3, <2>2
  <2>4. f[y] = h[y]
    BY <2>1
  <2>5. g[m] = f[y] + g[m \ {y}]
    BY <1>5 DEF IsSumOver
  <2>6. k[m] = h[y] + k[m \ {y}]
    BY <1>5 DEF IsSumOver
  <2>7. QED
    BY <2>3, <2>4, <2>5, <2>6
<1>6. QED
  BY <1>4, <1>5

\* Every finite set can be summed over.
LEMMA SumsOverExist ==
  ASSUME NEW S, IsFiniteSet(S), NEW f
  PROVE  \E g : IsSumOver(g, f, S)
<1> DEFINE Bad == {s \in SUBSET S : ~ \E g : IsSumOver(g, f, s)}
<1>1. SUFFICES ASSUME Bad # {} PROVE FALSE
  <2>1. S \in SUBSET S
    OBVIOUS
  <2>2. QED
    BY <2>1
<1>2. Bad \in SUBSET FiniteSubsetsOf(S)
  BY FS_Subset DEF FiniteSubsetsOf
<1>3. PICK m \in Bad : \A s \in Bad : s \subseteq m => s = m
  <2> HIDE DEF Bad
  <2>1. QED
    BY <1>1, <1>2, SmallestSet
<1> DEFINE sumOf(u) == CHOOSE g : IsSumOver(g, f, u)
           first(s) == CHOOSE x \in s : TRUE
           total(u) == sumOf(u)[u]
           g == [s \in SUBSET m |-> IF s = {} THEN 0 ELSE f[first(s)] + total(s \ {first(s)})]
<1>4. ASSUME NEW u \in SUBSET m, u # m
      PROVE  IsSumOver(sumOf(u), f, u)
  BY <1>3, <1>4
<1>5. ASSUME NEW s \in SUBSET m, s # {}
      PROVE  g[s \ {first(s)}] = total(s \ {first(s)})
  <2> DEFINE u == s \ {first(s)}
             v == u \ {first(u)}
  <2>0. first(s) \in s
    BY <1>5
  <2>1. u \in SUBSET m /\ u # m
    BY <2>0
  <2>2. IsSumOver(sumOf(u), f, u)
    BY <1>4, <2>1
  <2>3. CASE u = {}
    <3>1. sumOf(u)[u] = 0
      <4> HIDE DEF sumOf
      <4>1. QED
        BY <2>2, <2>3 DEF IsSumOver
    <3>2. g[u] = 0
      BY <2>1, <2>3
    <3>3. QED
      BY <3>1, <3>2
  <2>4. CASE u # {}
    <3>0. first(u) \in u
      BY <2>4
    <3>1. v \in SUBSET m /\ v # m /\ v \in SUBSET u
      BY <2>1, <3>0
    <3>2. IsSumOver(sumOf(v), f, v)
      BY <1>4, <3>1
    <3>3. IsFiniteSet(u)
      BY <2>1, FS_Subset
    <3>4. sumOf(u)[v] = sumOf(v)[v]
      <4> HIDE DEF sumOf, u, v
      <4>1. \A x \in u \cap v : f[x] = f[x]
        OBVIOUS
      <4>2. \A s1 \in (SUBSET u) \cap (SUBSET v) : sumOf(u)[s1] = sumOf(v)[s1]
        BY <2>2, <3>2, <3>3, <4>1, SumsOverAgree
      <4>3. QED
        BY <3>1, <4>2
    <3> HIDE DEF sumOf
    <3>5. sumOf(u)[u] = f[first(u)] + sumOf(u)[v]
      BY <2>2, <2>4 DEF IsSumOver
    <3>6. g[u] = f[first(u)] + total(v)
      BY <2>1, <2>4
    <3>7. QED
      BY <3>4, <3>5, <3>6
  <2>5. QED
    BY <2>3, <2>4
<1>6. g = [s \in SUBSET m |-> IF s = {} THEN 0 ELSE f[first(s)] + g[s \ {first(s)}]]
  <2>1. \A s \in SUBSET m :
          (IF s = {} THEN 0 ELSE f[first(s)] + total(s \ {first(s)}))
            = (IF s = {} THEN 0 ELSE f[first(s)] + g[s \ {first(s)}])
    <3> HIDE DEF first, total, g
    <3>1. QED
      BY <1>5
  <2> DEFINE e(s) == IF s = {} THEN 0 ELSE f[first(s)] + total(s \ {first(s)})
             e2(s) == IF s = {} THEN 0 ELSE f[first(s)] + g[s \ {first(s)}]
  <2>2. \A s \in SUBSET m : e(s) = e2(s)
    BY <2>1
  <2>3. g = [s \in SUBSET m |-> e(s)]
    OBVIOUS
  <2> HIDE DEF e, e2, g
  <2>4. g = [s \in SUBSET m |-> e2(s)]
    BY <2>2, <2>3
  <2>5. QED
    BY <2>4 DEF e2
<1>7. IsSumOver(g, f, m)
  BY <1>6 DEF IsSumOver
<1>8. QED
  BY <1>7

-----------------------------------------------------------------------------
\* SumFunction is the total of such a summing.
LEMMA SumFunctionIsSum ==
  ASSUME NEW f, IsFiniteSet(DOMAIN f)
  PROVE  \A g : IsSumOver(g, f, DOMAIN f) => SumFunction(f) = g[DOMAIN f]
<1> DEFINE S == DOMAIN f
           sum == CHOOSE g : IsSumOver(g, f, S)
<1>1. SumFunction(f) = sum[S]
  BY DEF SumFunction, SumFunctionOnSet, FoldFunctionOnSet, MapThenFoldSet, IsSumOver
<1>2. IsSumOver(sum, f, S)
  BY SumsOverExist
<1> HIDE DEF S, sum
<1>3. ASSUME NEW g, IsSumOver(g, f, S)
      PROVE  sum[S] = g[S]
  <2>1. IsFiniteSet(S)
    BY DEF S
  <2>2. QED
    BY <1>2, <1>3, <2>1, SumsOverAgree
<1>4. QED
  BY <1>1, <1>3 DEF S

\* Sums of naturals are naturals, sums of integers integers.
LEMMA SumOverType ==
  ASSUME NEW S, IsFiniteSet(S), NEW f, NEW g, IsSumOver(g, f, S),
         NEW V \in {Nat, Int}, \A x \in S : f[x] \in V
  PROVE  \A s \in SUBSET S : g[s] \in V
<1> DEFINE Bad == {s \in SUBSET S : g[s] \notin V}
<1>1. SUFFICES ASSUME Bad # {} PROVE FALSE
  OBVIOUS
<1>2. Bad \in SUBSET FiniteSubsetsOf(S)
  BY FS_Subset DEF FiniteSubsetsOf
<1>3. PICK m \in Bad : \A s \in Bad : s \subseteq m => s = m
  <2> HIDE DEF Bad
  <2>1. QED
    BY <1>1, <1>2, SmallestSet
<1> DEFINE y == CHOOSE x \in m : TRUE
<1>4. CASE m = {}
  BY <1>4 DEF IsSumOver
<1>5. CASE m # {}
  <2>1. y \in m
    BY <1>5
  <2>2. g[m] = f[y] + g[m \ {y}]
    BY <1>5 DEF IsSumOver
  <2>3. g[m \ {y}] \in V
    BY <1>3, <2>1
  <2>4. f[y] \in V
    BY <2>1
  <2> HIDE DEF y
  <2>5. f[y] + g[m \ {y}] \in V
    BY <2>3, <2>4
  <2>6. QED
    BY <2>2, <2>5
<1>6. QED
  BY <1>4, <1>5

\* Whichever element is taken first, the sum is the same.
LEMMA SumOverTakesAny ==
  ASSUME NEW S, IsFiniteSet(S), NEW f, NEW g, IsSumOver(g, f, S),
         \A x \in S : f[x] \in Int
  PROVE  \A s \in SUBSET S : \A x \in s : g[s] = f[x] + g[s \ {x}]
<1> DEFINE Bad == {s \in SUBSET S : \E x \in s : g[s] # f[x] + g[s \ {x}]}
<1>1. SUFFICES ASSUME Bad # {} PROVE FALSE
  OBVIOUS
<1>2. Bad \in SUBSET FiniteSubsetsOf(S)
  BY FS_Subset DEF FiniteSubsetsOf
<1>3. PICK m \in Bad : \A s \in Bad : s \subseteq m => s = m
  <2> HIDE DEF Bad
  <2>1. QED
    BY <1>1, <1>2, SmallestSet
<1>4. PICK x \in m : g[m] # f[x] + g[m \ {x}]
  OBVIOUS
<1> DEFINE y == CHOOSE z \in m : TRUE
           rest == m \ {x, y}
<1>5. y \in m /\ g[m] = f[y] + g[m \ {y}]
  BY <1>4 DEF IsSumOver
<1> HIDE DEF y
<1>6. x # y
  BY <1>4, <1>5
<1>7. g[m \ {y}] = f[x] + g[rest]
  <2>1. m \ {y} \in SUBSET S /\ m \ {y} # m /\ x \in m \ {y} /\ (m \ {y}) \ {x} = rest
    BY <1>5, <1>6
  <2> HIDE DEF rest
  <2>2. QED
    BY <1>3, <2>1
<1>8. g[m \ {x}] = f[y] + g[rest]
  <2>1. m \ {x} \in SUBSET S /\ m \ {x} # m /\ y \in m \ {x} /\ (m \ {x}) \ {y} = rest
    BY <1>5, <1>6
  <2> HIDE DEF rest
  <2>2. QED
    BY <1>3, <2>1
<1>9. f[x] \in Int /\ f[y] \in Int
  BY <1>5
<1>10. \A s \in SUBSET S : g[s] \in Int
  BY SumOverType
<1>11. g[rest] \in Int /\ g[m \ {x}] \in Int /\ g[m \ {y}] \in Int
  BY <1>10
<1> HIDE DEF rest
<1>12. QED
  BY <1>4, <1>5, <1>7, <1>8, <1>9, <1>11

\* The sum over nothing is nothing.
LEMMA SumOfNone ==
  ASSUME NEW f, DOMAIN f = {}
  PROVE  SumFunction(f) = 0
<1>1. IsFiniteSet(DOMAIN f)
  BY FS_EmptySet
<1>2. PICK g : IsSumOver(g, f, DOMAIN f)
  BY <1>1, SumsOverExist
<1>3. g[DOMAIN f] = 0
  BY <1>2 DEF IsSumOver
<1>4. QED
  BY <1>1, <1>2, <1>3, SumFunctionIsSum

\* The sum of a function into the naturals, or the integers, is one.
LEMMA SumType ==
  ASSUME NEW S, IsFiniteSet(S), NEW V \in {Nat, Int}, NEW f \in [S -> V]
  PROVE  SumFunction(f) \in V
<1>1. DOMAIN f = S /\ \A x \in S : f[x] \in V
  OBVIOUS
<1>2. PICK g : IsSumOver(g, f, S)
  BY SumsOverExist
<1>3. S \in SUBSET S
  OBVIOUS
<1>4. g[S] \in V
  BY <1>1, <1>2, <1>3, SumOverType
<1>5. QED
  BY <1>1, <1>2, <1>4, SumFunctionIsSum

\* One more element adds its value.
LEMMA SumOfOneMore ==
  ASSUME NEW S, IsFiniteSet(S), NEW x, x \notin S,
         NEW f \in [S -> Int], NEW h \in [S \cup {x} -> Int],
         \A y \in S : h[y] = f[y]
  PROVE  SumFunction(h) = SumFunction(f) + h[x]
<1> DEFINE T == S \cup {x}
<1>1. IsFiniteSet(T)
  BY FS_AddElement
<1>2. DOMAIN f = S /\ DOMAIN h = T
  OBVIOUS
<1> HIDE DEF T
<1>3. PICK g : IsSumOver(g, f, S)
  BY SumsOverExist
<1>4. PICK k : IsSumOver(k, h, T)
  BY <1>1, SumsOverExist
<1>5. SumFunction(f) = g[S] /\ SumFunction(h) = k[T]
  BY <1>1, <1>2, <1>3, <1>4, SumFunctionIsSum
<1>6. T \in SUBSET T /\ S \in SUBSET T /\ S \in SUBSET S /\ x \in T /\ T \ {x} = S
  BY DEF T
<1>7. \A y \in T : h[y] \in Int
  BY DEF T
<1>8. k[T] = h[x] + k[S]
  BY <1>1, <1>4, <1>6, <1>7, SumOverTakesAny
<1>9. \A y \in S \cap T : f[y] = h[y]
  OBVIOUS
<1>10. g[S] = k[S]
  BY <1>3, <1>4, <1>6, <1>9, SumsOverAgree
<1>11. k[S] \in Int /\ h[x] \in Int
  BY <1>1, <1>4, <1>6, <1>7, SumOverType
<1>12. QED
  BY <1>5, <1>8, <1>10, <1>11

\* Changing one value changes the sum by as much.
LEMMA SumOfChange ==
  ASSUME NEW S, IsFiniteSet(S), NEW x \in S, NEW f \in [S -> Int], NEW h \in [S -> Int],
         \A y \in S \ {x} : h[y] = f[y]
  PROVE  SumFunction(h) = SumFunction(f) + h[x] - f[x]
<1> DEFINE R == S \ {x}
           rest == [y \in R |-> f[y]]
<1>1. IsFiniteSet(R) /\ x \notin R /\ R \cup {x} = S
  BY FS_Subset
<1>2. rest \in [R -> Int] /\ \A y \in R : f[y] = rest[y] /\ h[y] = rest[y]
  OBVIOUS
<1> HIDE DEF R, rest
<1>3. SumFunction(f) = SumFunction(rest) + f[x]
  BY <1>1, <1>2, SumOfOneMore
<1>4. SumFunction(h) = SumFunction(rest) + h[x]
  BY <1>1, <1>2, SumOfOneMore
<1>5. SumFunction(rest) \in Int
  BY <1>1, <1>2, SumType
<1>6. f[x] \in Int /\ h[x] \in Int
  OBVIOUS
<1>7. QED
  BY <1>3, <1>4, <1>5, <1>6

\* Nothings add up to nothing.
LEMMA SumOfZeros ==
  ASSUME NEW S, IsFiniteSet(S)
  PROVE  SumFunction([x \in S |-> 0]) = 0
<1> DEFINE zeros(s) == [x \in s |-> 0]
           Bad == {s \in SUBSET S : SumFunction(zeros(s)) # 0}
<1>1. SUFFICES ASSUME Bad # {} PROVE FALSE
  <2>1. S \in SUBSET S
    OBVIOUS
  <2>2. QED
    BY <2>1
<1>2. Bad \in SUBSET FiniteSubsetsOf(S)
  BY FS_Subset DEF FiniteSubsetsOf
<1>3. PICK m \in Bad : \A s \in Bad : s \subseteq m => s = m
  <2> HIDE DEF Bad
  <2>1. QED
    BY <1>1, <1>2, SmallestSet
<1>4. CASE m = {}
  <2>1. DOMAIN zeros(m) = {}
    BY <1>4
  <2>2. SumFunction(zeros(m)) = 0
    <3> HIDE DEF zeros
    <3>1. QED
      BY <2>1, SumOfNone
  <2>3. QED
    BY <2>2
<1>5. CASE m # {}
  <2>1. PICK x \in m : TRUE
    BY <1>5
  <2> DEFINE R == m \ {x}
  <2>2. IsFiniteSet(R) /\ x \notin R /\ R \cup {x} = m /\ R \in SUBSET S /\ R # m
    BY <2>1, FS_Subset
  <2>3. SumFunction(zeros(R)) = 0
    BY <1>3, <2>2
  <2>4. /\ zeros(R) \in [R -> Int] /\ zeros(m) \in [R \cup {x} -> Int]
        /\ zeros(m)[x] = 0 /\ \A y \in R : zeros(m)[y] = zeros(R)[y]
    BY <2>1, <2>2
  <2>5. SumFunction(zeros(m)) = SumFunction(zeros(R)) + zeros(m)[x]
    <3> HIDE DEF zeros, R, Bad
    <3>1. QED
      BY <2>2, <2>4, SumOfOneMore
  <2>6. SumFunction(zeros(m)) = 0
    <3> HIDE DEF R, Bad
    <3>1. QED
      BY <2>3, <2>4, <2>5
  <2>7. QED
    BY <2>6
<1>6. QED
  BY <1>4, <1>5

\* A part of a function adds one value when it takes one more element.
LEMMA PartOfOneMore ==
  ASSUME NEW R, IsFiniteSet(R), NEW x, x \notin R, NEW f, \A y \in R \cup {x} : f[y] \in Int
  PROVE  SumFunction([y \in R \cup {x} |-> f[y]]) = SumFunction([y \in R |-> f[y]]) + f[x]
<1> DEFINE few == [y \in R |-> f[y]]
           more == [y \in R \cup {x} |-> f[y]]
<1>1. /\ few \in [R -> Int] /\ more \in [R \cup {x} -> Int]
      /\ \A y \in R : more[y] = few[y]
      /\ more[x] = f[x]
  OBVIOUS
<1> HIDE DEF few, more
<1>2. IsFiniteSet(R) /\ x \notin R
  OBVIOUS
<1>3. SumFunction(more) = SumFunction(few) + more[x]
  BY ONLY <1>1, <1>2, SumOfOneMore
<1>4. SumFunction(more) = SumFunction(few) + f[x]
  BY <1>1, <1>3
<1>5. QED
  BY <1>4 DEF few, more

\* What is left of a sum when only some are counted is at most as many times a
\* number as there are others, when none of them is more than that.
LEMMA SumOfTheRest ==
  ASSUME NEW S, IsFiniteSet(S), NEW T \in SUBSET S, NEW f, NEW m \in Nat,
         \A x \in S : f[x] \in Nat, \A x \in S \ T : f[x] <= m
  PROVE  SumFunction([x \in S |-> f[x]]) - SumFunction([x \in T |-> f[x]])
           \in 0..((Cardinality(S) - Cardinality(T)) * m)
<1> DEFINE total(s) == SumFunction([x \in s |-> f[x]])
           Over(s) == total(s) - total(T) \in 0..((Cardinality(s) - Cardinality(T)) * m)
           Bad == {s \in SUBSET S : T \subseteq s /\ ~Over(s)}
<1>1. SUFFICES ASSUME Bad # {} PROVE FALSE
  <2>1. S \in SUBSET S
    OBVIOUS
  <2>2. Over(S)
    <3> HIDE DEF Over
    <3>1. QED
      BY <2>1
  <2>3. QED
    BY <2>2
<1>2. Bad \in SUBSET FiniteSubsetsOf(S)
  <2>1. \A s \in Bad : s \in SUBSET S
    OBVIOUS
  <2> HIDE DEF Bad
  <2>2. QED
    BY <2>1, FS_Subset DEF FiniteSubsetsOf
<1>3. PICK u \in Bad : \A s \in Bad : s \subseteq u => s = u
  <2> HIDE DEF Bad
  <2>1. QED
    BY <1>1, <1>2, SmallestSet
<1>4. u \in SUBSET S /\ T \subseteq u /\ ~Over(u)
  OBVIOUS
<1>5. \A s \in SUBSET S : IsFiniteSet(s) /\ Cardinality(s) \in Nat /\ total(s) \in Nat
  <2> TAKE s \in SUBSET S
  <2>1. IsFiniteSet(s) /\ Cardinality(s) \in Nat
    BY FS_Subset, FS_CardinalityType
  <2> DEFINE part == [x \in s |-> f[x]]
  <2>2. part \in [s -> Nat]
    OBVIOUS
  <2> HIDE DEF part
  <2>3. SumFunction(part) \in Nat
    BY <2>1, <2>2, SumType
  <2>4. QED
    BY <2>1, <2>3 DEF part
<1>6. CASE u = T
  <2>1. total(T) \in Nat /\ Cardinality(T) \in Nat
    BY <1>5
  <2> HIDE DEF total
  <2>2. (Cardinality(T) - Cardinality(T)) * m = 0 /\ total(T) - total(T) = 0
    BY <2>1
  <2>3. QED
    BY <1>4, <1>6, <2>2
<1>7. CASE u # T
  <2>1. PICK x \in u : x \notin T
    BY <1>4, <1>7
  <2> DEFINE R == u \ {x}
  <2>2. R \in SUBSET S /\ T \subseteq R /\ R # u /\ R \subseteq u /\ x \notin R /\ R \cup {x} = u
    BY <1>4, <2>1
  <2>3. Over(R)
    <3> HIDE DEF Over, R
    <3>1. QED
      BY <1>3, <2>2
  <2>4. f[x] \in Nat /\ f[x] <= m
    BY <1>4, <2>1
  <2>5. total(u) = total(R) + f[x]
    <3>1. \A y \in R \cup {x} : f[y] \in Int
      BY <1>4, <2>1
    <3> HIDE DEF R
    <3>2. SumFunction([y \in R \cup {x} |-> f[y]]) = SumFunction([y \in R |-> f[y]]) + f[x]
      BY <1>5, <2>2, <3>1, PartOfOneMore
    <3>3. QED
      BY <2>2, <3>2
  <2>6. Cardinality(u) = Cardinality(R) + 1
    <3> HIDE DEF R
    <3>1. QED
      BY <1>5, <2>2, FS_AddElement
  <2>7. /\ total(R) \in Nat /\ total(T) \in Nat
        /\ Cardinality(R) \in Nat /\ Cardinality(T) \in Nat
    BY <1>5, <2>2
  <2> HIDE DEF total, R
  <2>8. PICK left : left = Cardinality(R) - Cardinality(T)
    OBVIOUS
  <2>9. left \in Int /\ Cardinality(u) - Cardinality(T) = left + 1
    BY <2>6, <2>7, <2>8
  <2>10. (left + 1) * m = left * m + m
    BY <2>9
  <2>11. left * m \in Int
    BY <2>9
  <2>12. total(R) - total(T) \in 0..(left * m)
    BY <2>3, <2>8
  <2>13. QED
    BY <1>4, <2>4, <2>5, <2>7, <2>9, <2>10, <2>11, <2>12
<1>8. QED
  BY <1>6, <1>7

\* A total is the sum of the totals of the classes its elements fall into.
LEMMA SumByClass ==
  ASSUME NEW S, IsFiniteSet(S), NEW K, IsFiniteSet(K), NEW f \in [S -> Int], NEW cls \in [S -> K]
  PROVE  SumFunction([k \in K |-> SumFunction([x \in {y \in S : cls[y] = k} |-> f[x]])])
           = SumFunction(f)
<1> DEFINE part(s) == [x \in s |-> f[x]]
           class(s, k) == {y \in s : cls[y] = k}
           rows(s) == [k \in K |-> SumFunction(part(class(s, k)))]
           Bad == {s \in SUBSET S : SumFunction(rows(s)) # SumFunction(part(s))}
<1>1. SUFFICES ASSUME Bad # {} PROVE FALSE
  <2>1. S \in SUBSET S /\ part(S) = f
    OBVIOUS
  <2>2. SumFunction(rows(S)) = SumFunction(part(S))
    <3> HIDE DEF part, rows
    <3>1. QED
      BY <2>1
  <2>3. QED
    BY <2>1, <2>2
<1>2. Bad \in SUBSET FiniteSubsetsOf(S)
  BY FS_Subset DEF FiniteSubsetsOf
<1>3. PICK m \in Bad : \A s \in Bad : s \subseteq m => s = m
  <2> HIDE DEF Bad
  <2>1. QED
    BY <1>1, <1>2, SmallestSet
<1>4. \A s \in SUBSET S : part(s) \in [s -> Int] /\ IsFiniteSet(s)
  BY FS_Subset
<1>5. \A s \in SUBSET S : rows(s) \in [K -> Int]
  <2> TAKE s \in SUBSET S
  <2>1. ASSUME NEW k \in K PROVE SumFunction(part(class(s, k))) \in Int
    <3>1. class(s, k) \in SUBSET S
      OBVIOUS
    <3>2. part(class(s, k)) \in [class(s, k) -> Int] /\ IsFiniteSet(class(s, k))
      BY <1>4, <3>1
    <3> HIDE DEF part, class
    <3>3. QED
      BY <3>2, SumType
  <2> HIDE DEF part, class
  <2>2. QED
    BY <2>1
<1>6. CASE m = {}
  <2>1. \A k \in K : SumFunction(part(class(m, k))) = 0
    <3> TAKE k \in K
    <3>1. DOMAIN part(class(m, k)) = {}
      BY <1>6
    <3> HIDE DEF part, class
    <3>2. QED
      BY <3>1, SumOfNone
  <2>2. rows(m) = [k \in K |-> 0]
    <3> HIDE DEF part, class
    <3>1. QED
      BY <2>1
  <2>3. SumFunction(rows(m)) = 0
    BY <2>2, SumOfZeros
  <2>4. DOMAIN part(m) = {}
    BY <1>6
  <2>5. SumFunction(part(m)) = 0
    <3> HIDE DEF part
    <3>1. QED
      BY <2>4, SumOfNone
  <2>6. QED
    BY <2>3, <2>5
<1>7. CASE m # {}
  <2>1. PICK x \in m : TRUE
    BY <1>7
  <2> DEFINE R == m \ {x}
             c == cls[x]
  <2>2. /\ x \notin R /\ R \cup {x} = m /\ R \in SUBSET S /\ m \in SUBSET S /\ R # m
        /\ x \in S /\ c \in K
    BY <2>1
  <2>3. SumFunction(rows(R)) = SumFunction(part(R))
    BY <1>3, <2>2
  <2>4. f[x] \in Int /\ IsFiniteSet(R)
    BY <1>4, <2>2
  <2>5. SumFunction(part(m)) = SumFunction(part(R)) + f[x]
    <3>1. SumFunction(part(R \cup {x})) = SumFunction(part(R)) + f[x]
      <4>1. \A y \in R \cup {x} : f[y] \in Int
        BY <2>2
      <4> HIDE DEF R, Bad
      <4>2. QED
        BY <2>2, <2>4, <4>1, PartOfOneMore
    <3> HIDE DEF part, R, Bad
    <3>2. QED
      BY <2>2, <3>1
  <2>6. SumFunction(part(class(m, c))) = SumFunction(part(class(R, c))) + f[x]
    <3>1. /\ class(m, c) = class(R, c) \cup {x} /\ x \notin class(R, c)
          /\ class(R, c) \in SUBSET S
      BY <2>2
    <3>2. IsFiniteSet(class(R, c))
      BY <1>4, <3>1
    <3>3. SumFunction(part(class(R, c) \cup {x})) = SumFunction(part(class(R, c))) + f[x]
      <4>1. \A y \in class(R, c) \cup {x} : f[y] \in Int
        BY <2>2
      <4> HIDE DEF class, R, Bad, c
      <4>2. QED
        BY <3>1, <3>2, <4>1, PartOfOneMore
    <3> HIDE DEF part, class, R, Bad, c
    <3>4. QED
      BY <3>1, <3>3
  <2>7. \A k \in K \ {c} : class(m, k) = class(R, k)
    BY <2>2
  <2>8. \A k \in K \ {c} : rows(m)[k] = rows(R)[k]
    <3> HIDE DEF part, class, R, Bad, c
    <3>1. QED
      BY <2>7
  <2>9. rows(m)[c] = rows(R)[c] + f[x]
    <3> HIDE DEF part, class, R, Bad, c
    <3>1. QED
      BY <2>2, <2>6
  <2>10. rows(m) \in [K -> Int] /\ rows(R) \in [K -> Int]
    BY <1>5, <2>2
  <2>11. SumFunction(rows(m)) = SumFunction(rows(R)) + rows(m)[c] - rows(R)[c]
    <3> HIDE DEF rows, R, Bad, c
    <3>1. QED
      BY <2>2, <2>8, <2>10, SumOfChange
  <2>12. SumFunction(rows(R)) \in Int /\ rows(R)[c] \in Int
    <3> HIDE DEF rows, R, Bad, c
    <3>1. QED
      BY <2>2, <2>10, SumType
  <2>13. SumFunction(rows(m)) = SumFunction(part(m))
    <3> HIDE DEF rows, part, class, R, Bad, c
    <3>1. QED
      BY <2>3, <2>4, <2>5, <2>9, <2>11, <2>12
  <2>14. QED
    BY <2>13
<1>8. QED
  BY <1>6, <1>7

\* Counting is adding up ones.
LEMMA CountIsSum ==
  ASSUME NEW S, IsFiniteSet(S)
  PROVE  SumFunction([x \in S |-> 1]) = Cardinality(S)
<1> DEFINE ones(s) == [x \in s |-> 1]
           Bad == {s \in SUBSET S : SumFunction(ones(s)) # Cardinality(s)}
<1>1. SUFFICES ASSUME Bad # {} PROVE FALSE
  <2>1. S \in SUBSET S
    OBVIOUS
  <2>2. QED
    BY <2>1
<1>2. Bad \in SUBSET FiniteSubsetsOf(S)
  BY FS_Subset DEF FiniteSubsetsOf
<1>3. PICK m \in Bad : \A s \in Bad : s \subseteq m => s = m
  <2> HIDE DEF Bad
  <2>1. QED
    BY <1>1, <1>2, SmallestSet
<1>4. CASE m = {}
  <2>1. DOMAIN ones(m) = {}
    BY <1>4
  <2>2. SumFunction(ones(m)) = 0
    <3> HIDE DEF ones
    <3>1. QED
      BY <2>1, SumOfNone
  <2>3. QED
    BY <1>4, <2>2, FS_EmptySet
<1>5. CASE m # {}
  <2>1. PICK x \in m : TRUE
    BY <1>5
  <2> DEFINE R == m \ {x}
  <2>2. IsFiniteSet(R) /\ x \notin R /\ R \cup {x} = m /\ R \in SUBSET S /\ R # m
    BY <2>1, FS_Subset
  <2>3. SumFunction(ones(R)) = Cardinality(R)
    BY <1>3, <2>2
  <2>4. /\ ones(R) \in [R -> Int] /\ ones(m) \in [R \cup {x} -> Int]
        /\ ones(m)[x] = 1 /\ \A y \in R : ones(m)[y] = ones(R)[y]
    BY <2>1, <2>2
  <2>5. SumFunction(ones(m)) = SumFunction(ones(R)) + ones(m)[x]
    <3> HIDE DEF ones, R, Bad
    <3>1. QED
      BY <2>2, <2>4, SumOfOneMore
  <2>6. Cardinality(m) = Cardinality(R) + 1
    <3> HIDE DEF R, Bad
    <3>1. QED
      BY <2>2, FS_AddElement
  <2>7. SumFunction(ones(m)) = Cardinality(m)
    <3> HIDE DEF R, Bad
    <3>1. QED
      BY <2>3, <2>4, <2>5, <2>6
  <2>8. QED
    BY <2>7
<1>6. QED
  BY <1>4, <1>5

\* A set has as many elements as its classes have together.
LEMMA CountByClass ==
  ASSUME NEW S, IsFiniteSet(S), NEW K, IsFiniteSet(K), NEW cls \in [S -> K]
  PROVE  SumFunction([k \in K |-> Cardinality({x \in S : cls[x] = k})]) = Cardinality(S)
<1> DEFINE one == [x \in S |-> 1]
           class(k) == {x \in S : cls[x] = k}
<1>1. one \in [S -> Int]
  OBVIOUS
<1>2. SumFunction([k \in K |-> SumFunction([x \in class(k) |-> one[x]])]) = SumFunction(one)
  <2> HIDE DEF one
  <2>1. QED
    BY <1>1, SumByClass
<1>3. \A k \in K : SumFunction([x \in class(k) |-> one[x]]) = Cardinality(class(k))
  <2> TAKE k \in K
  <2>1. IsFiniteSet(class(k)) /\ [x \in class(k) |-> one[x]] = [x \in class(k) |-> 1]
    BY FS_Subset
  <2> HIDE DEF one, class
  <2>2. QED
    BY <2>1, CountIsSum
<1>4. SumFunction(one) = Cardinality(S)
  BY CountIsSum
<1>5. [k \in K |-> SumFunction([x \in class(k) |-> one[x]])] = [k \in K |-> Cardinality(class(k))]
  <2> HIDE DEF one, class
  <2>1. QED
    BY <1>3
<1>6. QED
  BY <1>2, <1>4, <1>5
=============================================================================
