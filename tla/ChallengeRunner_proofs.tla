------------------------ MODULE ChallengeRunner_proofs -----------------------
(***************************************************************************)
(* Proofs about the challenge runner, for any prices, rates and tickets:   *)
(* types, stops that only tighten, one entry at a time, and the floor that *)
(* no admitted trade can break by itself.                                  *)
(***************************************************************************)
EXTENDS ChallengeRunner, FiniteSetTheorems, TLAPS

-----------------------------------------------------------------------------
(***************************************************************************)
(* Sums over the positions.  MapThenSumSet takes the elements of a set in   *)
(* some order by a recursive function; that there is one, and that it      *)
(* returns integers, follows from the well-founded order of the subsets of *)
(* a finite set.                                                           *)
(***************************************************************************)
\* Every set of subsets of a finite set has a least member.
LEMMA LeastSubset ==
    ASSUME NEW S, IsFiniteSet(S), NEW T, T \subseteq SUBSET S, T # {}
    PROVE  \E s \in T : \A u \in T : u \subseteq s => u = s
<1>1. IsWellFoundedOn(StrictSubsetOrdering(S), SUBSET S)
  BY FS_FiniteSubsetsOfFinite, FS_StrictSubsetOrderingWellFounded
<1>2. PICK s \in T : \A u \in T : ~(<<u, s>> \in StrictSubsetOrdering(S))
  BY <1>1, WFMin
<1>3. QED
  BY <1>2 DEF StrictSubsetOrdering

\* h sums F over the subsets of S, in the order of the fold.
Chosen(s) == CHOOSE x \in s : TRUE
Sums(F, S, h) ==
    h = [s \in SUBSET S |-> IF s = {} THEN 0 ELSE F[Chosen(s)] + h[s \ {Chosen(s)}]]

LEMMA ChosenIn == ASSUME NEW s, s # {} PROVE Chosen(s) \in s
BY DEF Chosen

\* What such a function returns.
LEMMA SumsAt ==
    ASSUME NEW F, NEW S, NEW h, Sums(F, S, h), NEW s \in SUBSET S
    PROVE  h[s] = IF s = {} THEN 0 ELSE F[Chosen(s)] + h[s \ {Chosen(s)}]
<1> DEFINE b(t) == IF t = {} THEN 0 ELSE F[Chosen(t)] + h[t \ {Chosen(t)}]
<1>1. h = [t \in SUBSET S |-> b(t)]
  BY DEF Sums
<1> HIDE DEF b
<1>2. h[s] = b(s)
  BY <1>1
<1>3. QED
  BY <1>2 DEF b

LEMMA SumOfAll ==
    ASSUME NEW F, NEW S, NEW h, Sums(F, S, h)
    PROVE  h[S] = IF S = {} THEN 0 ELSE F[Chosen(S)] + h[S \ {Chosen(S)}]
<1>1. S \in SUBSET S
  OBVIOUS
<1>2. QED
  BY <1>1, SumsAt

\* Two such functions agree where both are defined.
LEMMA SumsAgree ==
    ASSUME NEW S, IsFiniteSet(S), NEW F, NEW A \in SUBSET S, NEW B \in SUBSET S,
           NEW g, Sums(F, A, g), NEW h, Sums(F, B, h), NEW v, v \subseteq A, v \subseteq B
    PROVE  g[v] = h[v]
<1> DEFINE T == {s \in SUBSET S : s \subseteq A /\ s \subseteq B /\ g[s] # h[s]}
<1>1. SUFFICES ASSUME T # {} PROVE FALSE
  OBVIOUS
<1>2. PICK s \in T : \A u \in T : u \subseteq s => u = s
  <2>1. T \subseteq SUBSET S
    OBVIOUS
  <2> HIDE DEF T
  <2>2. QED
    BY <1>1, <2>1, LeastSubset
<1>3. /\ g[s] = IF s = {} THEN 0 ELSE F[Chosen(s)] + g[s \ {Chosen(s)}]
      /\ h[s] = IF s = {} THEN 0 ELSE F[Chosen(s)] + h[s \ {Chosen(s)}]
  <2>1. s \in SUBSET A /\ s \in SUBSET B
    BY <1>2
  <2> HIDE DEF T
  <2>2. QED
    BY <2>1, SumsAt
<1>4. s # {}
  <2>1. ASSUME s = {} PROVE FALSE
    <3>1. g[s] = 0 /\ h[s] = 0
      BY <1>3, <2>1
    <3>2. QED
      BY <1>2, <3>1
  <2>2. QED
    BY <2>1
<1>5. Chosen(s) \in s
  BY <1>4, ChosenIn
<1>6. s \ {Chosen(s)} \notin T
  BY <1>2, <1>5
<1>7. g[s \ {Chosen(s)}] = h[s \ {Chosen(s)}]
  BY <1>2, <1>6
<1>8. QED
  BY <1>2, <1>3, <1>4, <1>7

\* There is such a function, and it returns integers.
LEMMA SumsExist ==
    ASSUME NEW S, IsFiniteSet(S), NEW F, \A x \in S : F[x] \in Int
    PROVE  \E h \in [SUBSET S -> Int] : Sums(F, S, h)
<1> DEFINE Has(s) == \E h \in [SUBSET s -> Int] : Sums(F, s, h)
           T == {s \in SUBSET S : ~Has(s)}
<1> HIDE DEF Has
<1>1. SUFFICES ASSUME T # {} PROVE FALSE
  <2>1. T = {} => Has(S)
    OBVIOUS
  <2>2. QED
    BY <2>1 DEF Has
<1>2. PICK s \in T : \A u \in T : u \subseteq s => u = s
  <2>1. T \subseteq SUBSET S
    OBVIOUS
  <2> HIDE DEF T
  <2>2. QED
    BY <1>1, <2>1, LeastSubset
<1> DEFINE sum(u) == CHOOSE h \in [SUBSET u -> Int] : Sums(F, u, h)
           b(u) == IF u = {} THEN 0 ELSE F[Chosen(u)] + sum(u \ {Chosen(u)})[u \ {Chosen(u)}]
           g == [u \in SUBSET s |-> b(u)]
<1>3. \A u \in SUBSET s : u # s => sum(u) \in [SUBSET u -> Int] /\ Sums(F, u, sum(u))
  BY <1>2 DEF Has
<1> HIDE DEF sum
<1>4. \A u \in SUBSET s : u # {} => /\ Chosen(u) \in u /\ u \ {Chosen(u)} \in SUBSET s
                                    /\ u \ {Chosen(u)} # s
  BY ChosenIn
<1>5. \A u \in SUBSET s : u # s => b(u) = sum(u)[u]
  <2> SUFFICES ASSUME NEW u \in SUBSET s, u # s PROVE b(u) = sum(u)[u]
    OBVIOUS
  <2>1. Sums(F, u, sum(u))
    BY <1>3
  <2>2. sum(u)[u] = IF u = {} THEN 0 ELSE F[Chosen(u)] + sum(u)[u \ {Chosen(u)}]
    BY <2>1, SumOfAll
  <2>3. ASSUME u # {} PROVE sum(u)[u \ {Chosen(u)}] = sum(u \ {Chosen(u)})[u \ {Chosen(u)}]
    <3> DEFINE v == u \ {Chosen(u)}
    <3>1. v \in SUBSET s /\ v \subseteq u /\ v # s
      BY <1>4, <2>3
    <3> HIDE DEF v
    <3>2. Sums(F, v, sum(v))
      BY <1>3, <3>1
    <3>3. s \in SUBSET S
      BY <1>2
    <3>4. sum(u)[v] = sum(v)[v]
      BY <2>1, <3>1, <3>2, <3>3, SumsAgree
    <3>5. QED
      BY <3>4 DEF v
  <2>4. QED
    BY <2>2, <2>3
<1>6. \A u \in SUBSET s : b(u) \in Int
  <2> SUFFICES ASSUME NEW u \in SUBSET s, u # {} PROVE b(u) \in Int
    OBVIOUS
  <2> DEFINE v == u \ {Chosen(u)}
  <2>1. v \in SUBSET s /\ v # s /\ Chosen(u) \in S
    BY <1>2, <1>4
  <2>2. sum(v)[v] \in Int
    <3> HIDE DEF v
    <3>1. sum(v) \in [SUBSET v -> Int]
      BY <1>3, <2>1
    <3>2. QED
      BY <3>1
  <2>3. QED
    BY <2>1, <2>2
<1>7. g \in [SUBSET s -> Int]
  <2> HIDE DEF b
  <2>1. QED
    BY <1>6
<1>8. \A u \in SUBSET s : u # {} => g[u \ {Chosen(u)}] = sum(u \ {Chosen(u)})[u \ {Chosen(u)}]
  <2> SUFFICES ASSUME NEW u \in SUBSET s, u # {}
               PROVE  g[u \ {Chosen(u)}] = sum(u \ {Chosen(u)})[u \ {Chosen(u)}]
    OBVIOUS
  <2> DEFINE v == u \ {Chosen(u)}
  <2>1. v \in SUBSET s /\ v # s
    BY <1>4
  <2> HIDE DEF v
  <2>2. b(v) = sum(v)[v]
    BY <1>5, <2>1
  <2> HIDE DEF b
  <2>3. g[v] = b(v)
    BY <2>1
  <2>4. QED
    BY <2>2, <2>3 DEF v
<1>9. Sums(F, s, g)
  <2> DEFINE c(u) == IF u = {} THEN 0 ELSE F[Chosen(u)] + g[u \ {Chosen(u)}]
  <2> HIDE DEF g
  <2>1. \A u \in SUBSET s : b(u) = c(u)
    BY <1>8
  <2>2. g = [u \in SUBSET s |-> b(u)]
    BY DEF g
  <2> HIDE DEF b, c
  <2>3. g = [u \in SUBSET s |-> c(u)]
    BY <2>1, <2>2
  <2>4. QED
    BY <2>3 DEF Sums, c
<1>10. QED
  BY <1>2, <1>7, <1>9 DEF Has

\* A fold of integers is an integer.
LEMMA FoldIsInt ==
    ASSUME NEW S, IsFiniteSet(S), NEW F, \A x \in S : F[x] \in Int
    PROVE  (CHOOSE h : Sums(F, S, h))[S] \in Int
<1> DEFINE g == CHOOSE h : Sums(F, S, h)
<1>1. PICK h \in [SUBSET S -> Int] : Sums(F, S, h)
  BY SumsExist
<1>2. Sums(F, S, g)
  BY <1>1
<1> HIDE DEF g
<1>3. g[S] = h[S]
  BY <1>1, <1>2, SumsAgree
<1>4. h[S] \in Int
  BY <1>1
<1>5. QED
  BY <1>3, <1>4 DEF g

\* The sum of F over S.
Total(F, S) == (CHOOSE h : Sums(F, S, h))[S]

\* F has numbers on S; h may take any element of a subset of S out first.
Numbers(F, S) == \A x \in S : F[x] \in Int
AnyFirst(F, S, h) == \A s \in SUBSET S : \A y \in s : h[s] = F[y] + h[s \ {y}]

\* It does not depend on the order of the fold: any element may be taken out first.

LEMMA SumsRemove ==
    ASSUME NEW S, IsFiniteSet(S), NEW F, Numbers(F, S),
           NEW h, Sums(F, S, h)
    PROVE  AnyFirst(F, S, h)
<1> DEFINE Bad(t) == \E y \in t : h[t] # F[y] + h[t \ {y}]
           T == {t \in SUBSET S : Bad(t)}
<1> HIDE DEF Bad
<1>0. \A u \in SUBSET S : h[u] \in Int
  <2>1. PICK k \in [SUBSET S -> Int] : Sums(F, S, k)
    BY SumsExist DEF Numbers
  <2>2. ASSUME NEW u \in SUBSET S PROVE h[u] = k[u]
    <3>1. u \subseteq S /\ S \in SUBSET S
      OBVIOUS
    <3>2. QED
      BY <2>1, <3>1, SumsAgree
  <2>3. QED
    BY <2>1, <2>2
<1>1. SUFFICES ASSUME T # {} PROVE FALSE
  <2>1. T = {} => \A s \in SUBSET S : ~Bad(s)
    OBVIOUS
  <2>2. QED
    BY <2>1 DEF Bad, AnyFirst
<1>2. PICK t \in T : \A u \in T : u \subseteq t => u = t
  <2>1. T \subseteq SUBSET S
    OBVIOUS
  <2> HIDE DEF T
  <2>2. QED
    BY <1>1, <2>1, LeastSubset
<1>3. PICK y \in t : h[t] # F[y] + h[t \ {y}]
  BY <1>2 DEF Bad
<1> DEFINE c == Chosen(t)
<1>4. c \in t /\ t \in SUBSET S
  BY <1>2, <1>3, ChosenIn
<1> HIDE DEF c
<1>5. h[t] = F[c] + h[t \ {c}]
  <2>1. h[t] = IF t = {} THEN 0 ELSE F[Chosen(t)] + h[t \ {Chosen(t)}]
    BY <1>4, SumsAt
  <2>2. QED
    BY <1>4, <2>1 DEF c
<1>6. c # y
  BY <1>3, <1>5
<1>7. /\ t \ {c} \in SUBSET S /\ t \ {y} \in SUBSET S
      /\ t \ {c} # t /\ t \ {y} # t /\ y \in t \ {c} /\ c \in t \ {y}
  BY <1>3, <1>4, <1>6
<1>8. ~Bad(t \ {c}) /\ ~Bad(t \ {y})
  BY <1>2, <1>7
<1>9. /\ h[t \ {c}] = F[y] + h[(t \ {c}) \ {y}]
      /\ h[t \ {y}] = F[c] + h[(t \ {y}) \ {c}]
  BY <1>7, <1>8 DEF Bad
<1>10. (t \ {c}) \ {y} = (t \ {y}) \ {c} /\ (t \ {y}) \ {c} \in SUBSET S
  BY <1>4
<1> DEFINE z == h[(t \ {y}) \ {c}]
<1>11. F[c] \in Int /\ F[y] \in Int /\ z \in Int
  BY <1>0, <1>3, <1>4, <1>10 DEF Numbers
<1>12. h[t] = F[c] + (F[y] + z) /\ h[t \ {y}] = F[c] + z
  BY <1>5, <1>9, <1>10
<1> HIDE DEF z
<1>13. h[t] = F[y] + h[t \ {y}]
  BY <1>11, <1>12
<1>14. QED
  BY <1>3, <1>13

LEMMA TotalNone == ASSUME NEW F PROVE Total(F, {}) = 0
<1>1. \E h : Sums(F, {}, h)
  BY DEF Sums
<1>2. QED
  BY <1>1, SumOfAll DEF Total

LEMMA SumsMinus ==
    ASSUME NEW S, IsFiniteSet(S), NEW F, Numbers(F, S), NEW x \in S,
           NEW k, Sums(F, S, k), NEW g, Sums(F, S \ {x}, g)
    PROVE  k[S] = F[x] + g[S \ {x}]
<1>1. S \in SUBSET S /\ S \ {x} \in SUBSET S
  OBVIOUS
<1>2. AnyFirst(F, S, k)
  BY SumsRemove
<1>3. k[S] = F[x] + k[S \ {x}]
  BY <1>1, <1>2 DEF AnyFirst
<1>4. g[S \ {x}] = k[S \ {x}]
  <2> DEFINE R == S \ {x}
  <2>1. R \in SUBSET S /\ R \subseteq R /\ R \subseteq S /\ Sums(F, R, g)
    OBVIOUS
  <2> HIDE DEF R
  <2>2. g[R] = k[R]
    BY <1>1, <2>1, SumsAgree, SMTT(30)
  <2>3. QED
    BY <2>2 DEF R
<1>5. QED
  BY <1>3, <1>4

\* Sums of integers are integers, and taking an element out takes its value off.
LEMMA TotalOne ==
    ASSUME NEW S, IsFiniteSet(S), NEW F, \A x \in S : F[x] \in Int, NEW x \in S
    PROVE  Total(F, S) = F[x] + Total(F, S \ {x})
<1> DEFINE R == S \ {x}
           k == CHOOSE h : Sums(F, S, h)
           g == CHOOSE h : Sums(F, R, h)
<1>1. Sums(F, S, k)
  <2>1. \E h : Sums(F, S, h)
    BY SumsExist
  <2>2. QED
    BY <2>1
<1>2. Sums(F, R, g)
  <2>1. IsFiniteSet(R) /\ \A y \in R : F[y] \in Int
    BY FS_Subset
  <2> HIDE DEF R
  <2>2. \E h : Sums(F, R, h)
    BY <2>1, SumsExist
  <2>3. QED
    BY <2>2
<1>3. Numbers(F, S) /\ Total(F, S) = k[S] /\ Total(F, R) = g[R]
  BY DEF Numbers, Total
<1> HIDE DEF k, g
<1>4. k[S] = F[x] + g[S \ {x}]
  BY <1>1, <1>2, <1>3, SumsMinus
<1>5. QED
  BY <1>3, <1>4

LEMMA TotalType ==
    ASSUME NEW S, IsFiniteSet(S), NEW F, \A x \in S : F[x] \in Int
    PROVE  Total(F, S) \in Int
BY FoldIsInt DEF Total

\* The sum over two sets that share no element.
LEMMA TotalUnion ==
    ASSUME NEW A, IsFiniteSet(A), NEW B, IsFiniteSet(B), A \cap B = {},
           NEW F, \A x \in A \cup B : F[x] \in Int
    PROVE  Total(F, A \cup B) = Total(F, A) + Total(F, B)
<1> DEFINE Bad(s) == Total(F, s \cup B) # Total(F, s) + Total(F, B)
           T == {s \in SUBSET A : Bad(s)}
<1> HIDE DEF Bad
<1>1. SUFFICES ASSUME T # {} PROVE FALSE
  <2>1. T = {} => ~Bad(A)
    OBVIOUS
  <2>2. QED
    BY <2>1 DEF Bad
<1>2. PICK s \in T : \A u \in T : u \subseteq s => u = s
  <2>1. T \subseteq SUBSET A
    OBVIOUS
  <2> HIDE DEF T
  <2>2. QED
    BY <1>1, <2>1, LeastSubset
<1>3. Bad(s) /\ s \subseteq A
  BY <1>2
<1>4. Total(F, B) \in Int
  BY TotalType
<1>5. s # {}
  <2>1. ASSUME s = {} PROVE FALSE
    <3>1. s \cup B = B /\ Total(F, s) = 0
      BY <2>1, TotalNone
    <3>2. QED
      BY <1>3, <1>4, <3>1 DEF Bad
  <2>2. QED
    BY <2>1
<1>6. PICK x \in s : TRUE
  BY <1>5
<1> DEFINE v == s \ {x}
           w == s \cup B
<1>7. /\ v \in SUBSET A /\ v # s /\ v \subseteq s
      /\ w \ {x} = v \cup B /\ x \in w
  BY <1>3, <1>6
<1>8. /\ IsFiniteSet(s) /\ IsFiniteSet(w) /\ IsFiniteSet(v)
      /\ \A y \in w : F[y] \in Int
      /\ \A y \in s : F[y] \in Int
      /\ \A y \in v : F[y] \in Int
  BY <1>3, FS_Subset, FS_Union
<1>9. ~Bad(v)
  BY <1>2, <1>7
<1>10. Total(F, w) = F[x] + Total(F, w \ {x})
  <2> HIDE DEF v, w
  <2>1. QED
    BY <1>7, <1>8, TotalOne
<1>11. Total(F, s) = F[x] + Total(F, v)
  BY <1>8, TotalOne
<1> HIDE DEF v, w
<1>12. Total(F, v) \in Int /\ F[x] \in Int
  <2>1. Total(F, v) \in Int
    BY <1>8, TotalType
  <2>2. QED
    BY <1>6, <1>8, <2>1
<1>13. Total(F, w) = F[x] + (Total(F, v) + Total(F, B))
  BY <1>7, <1>9, <1>10 DEF Bad
<1>14. Total(F, w) # Total(F, s) + Total(F, B)
  BY <1>3 DEF Bad, w
<1>15. QED
  BY <1>4, <1>11, <1>12, <1>13, <1>14

\* Functions that agree on a set have the same sum over it.
LEMMA TotalSame ==
    ASSUME NEW S, NEW F, NEW G, \A y \in S : F[y] = G[y]
    PROVE  Total(F, S) = Total(G, S)
<1> DEFINE a(h) == [s \in SUBSET S |-> IF s = {} THEN 0 ELSE F[Chosen(s)] + h[s \ {Chosen(s)}]]
           b(h) == [s \in SUBSET S |-> IF s = {} THEN 0 ELSE G[Chosen(s)] + h[s \ {Chosen(s)}]]
<1>1. \A h : a(h) = b(h)
  <2>1. \A s \in SUBSET S : s # {} => F[Chosen(s)] = G[Chosen(s)]
    BY ChosenIn
  <2>2. QED
    BY <2>1
<1>2. \A h : (Sums(F, S, h) <=> h = a(h)) /\ (Sums(G, S, h) <=> h = b(h))
  BY DEF Sums
<1> HIDE DEF a, b
<1>3. (CHOOSE h : Sums(F, S, h)) = (CHOOSE h : Sums(G, S, h))
  <2>1. \A h : Sums(F, S, h) <=> Sums(G, S, h)
    BY <1>1, <1>2
  <2>2. QED
    BY <2>1
<1>4. QED
  BY <1>3 DEF Total

\* The floating profit is an integer, and zero when nothing is open.
LEMMA FloatingType ==
    ASSUME IsFiniteSet(Open), \A t \in Open : Gain(positions[t], price) \in Int
    PROVE  Floating \in Int
<1> DEFINE F == [t \in Open |-> Gain(positions[t], price)]
           a(h) == [s \in SUBSET Open |-> IF s = {} THEN 0 ELSE F[Chosen(s)] + h[s \ {Chosen(s)}]]
           b(h) == [s \in SUBSET Open |->
                      IF s = {} THEN 0 ELSE Gain(positions[Chosen(s)], price) + h[s \ {Chosen(s)}]]
<1>1. \A h : a(h) = b(h)
  <2> SUFFICES ASSUME NEW h PROVE a(h) = b(h)
    OBVIOUS
  <2>1. \A s \in SUBSET Open : s # {} => F[Chosen(s)] = Gain(positions[Chosen(s)], price)
    BY ChosenIn
  <2> HIDE DEF F
  <2>2. QED
    BY <2>1
<1>2. \A h : Sums(F, Open, h) <=> h = b(h)
  <2> HIDE DEF F, b
  <2>1. \A h : Sums(F, Open, h) <=> h = a(h)
    BY DEF Sums
  <2> HIDE DEF a
  <2>2. QED
    BY <1>1, <2>1
<1>3. (CHOOSE h : Sums(F, Open, h)) = (CHOOSE h : h = b(h))
  <2> HIDE DEF b
  <2>1. QED
    BY <1>2
<1>4. Floating = (CHOOSE h : h = b(h))[Open]
  BY DEF Floating, MapThenSumSet, MapThenFoldSet, Chosen
<1>5. F \in [Open -> Int]
  OBVIOUS
<1>6. (CHOOSE h : Sums(F, Open, h))[Open] \in Int
  <2> HIDE DEF F
  <2>1. QED
    BY <1>5, FoldIsInt
<1>7. QED
  BY <1>3, <1>4, <1>6

LEMMA FloatingNone == Open = {} => Floating = 0
BY DEF Floating, MapThenSumSet, MapThenFoldSet

\* So is what stopping positions out brings; one position brings its own.
LEMMA StoppedType ==
    ASSUME NEW hit, IsFiniteSet(hit), \A t \in hit : AtStop(positions[t]) \in Int
    PROVE  Stopped(hit) \in Int
<1> DEFINE F == [t \in hit |-> AtStop(positions[t])]
           a(h) == [s \in SUBSET hit |-> IF s = {} THEN 0 ELSE F[Chosen(s)] + h[s \ {Chosen(s)}]]
           b(h) == [s \in SUBSET hit |->
                      IF s = {} THEN 0 ELSE AtStop(positions[Chosen(s)]) + h[s \ {Chosen(s)}]]
<1>1. \A h : a(h) = b(h)
  <2> SUFFICES ASSUME NEW h PROVE a(h) = b(h)
    OBVIOUS
  <2>1. \A s \in SUBSET hit : s # {} => F[Chosen(s)] = AtStop(positions[Chosen(s)])
    BY ChosenIn
  <2> HIDE DEF F
  <2>2. QED
    BY <2>1
<1>2. \A h : Sums(F, hit, h) <=> h = b(h)
  <2> HIDE DEF F, b
  <2>1. \A h : Sums(F, hit, h) <=> h = a(h)
    BY DEF Sums
  <2> HIDE DEF a
  <2>2. QED
    BY <1>1, <2>1
<1>3. (CHOOSE h : Sums(F, hit, h)) = (CHOOSE h : h = b(h))
  <2> HIDE DEF b
  <2>1. QED
    BY <1>2
<1>4. Stopped(hit) = (CHOOSE h : h = b(h))[hit]
  BY DEF Stopped, MapThenSumSet, MapThenFoldSet, Chosen
<1>5. F \in [hit -> Int]
  OBVIOUS
<1>6. (CHOOSE h : Sums(F, hit, h))[hit] \in Int
  <2> HIDE DEF F
  <2>1. QED
    BY <1>5, FoldIsInt
<1>7. QED
  BY <1>3, <1>4, <1>6

LEMMA StoppedNone == Stopped({}) = 0
BY DEF Stopped, MapThenSumSet, MapThenFoldSet

\* What the positions of a set bring when they are stopped out, as a sum.
Results(P) == [t \in Tickets |-> AtStop(P[t])]

LEMMA StoppedIs ==
    ASSUME NEW P, NEW S \in SUBSET Tickets
    PROVE  MapThenSumSet(LAMBDA t : AtStop(P[t]), S) = Total(Results(P), S)
<1> DEFINE F == Results(P)
           a(h) == [s \in SUBSET S |-> IF s = {} THEN 0 ELSE F[Chosen(s)] + h[s \ {Chosen(s)}]]
           b(h) == [s \in SUBSET S |->
                      IF s = {} THEN 0 ELSE AtStop(P[Chosen(s)]) + h[s \ {Chosen(s)}]]
<1>1. \A h : a(h) = b(h)
  <2> SUFFICES ASSUME NEW h PROVE a(h) = b(h)
    OBVIOUS
  <2>1. \A s \in SUBSET S : s # {} => F[Chosen(s)] = AtStop(P[Chosen(s)])
    BY ChosenIn DEF Results
  <2> HIDE DEF F
  <2>2. QED
    BY <2>1
<1>2. \A h : Sums(F, S, h) <=> h = b(h)
  <2> HIDE DEF F, b
  <2>1. \A h : Sums(F, S, h) <=> h = a(h)
    BY DEF Sums
  <2> HIDE DEF a
  <2>2. QED
    BY <1>1, <2>1
<1>3. (CHOOSE h : Sums(F, S, h)) = (CHOOSE h : h = b(h))
  <2> HIDE DEF b
  <2>1. QED
    BY <1>2
<1>4. MapThenSumSet(LAMBDA t : AtStop(P[t]), S) = (CHOOSE h : h = b(h))[S]
  BY DEF MapThenSumSet, MapThenFoldSet, Chosen
<1>5. QED
  BY <1>3, <1>4 DEF Total

-----------------------------------------------------------------------------
(***************************************************************************)
(* Type correctness.                                                       *)
(***************************************************************************)
\* Changes of a broker position and of the runner's keep their types.
LEMMA PositionUpdates ==
    /\ \A p \in BrokerPosition : [p EXCEPT !.state = "closed"] \in BrokerPosition
    /\ \A p \in BrokerPosition, x \in Int : [p EXCEPT !.stop = x] \in BrokerPosition
BY DEF BrokerPosition

LEMMA RunnerUpdates ==
    /\ \A p \in Position, x \in Int : [p EXCEPT !.extreme = x] \in Position
    /\ \A p \in Position, x, y \in Int : [p EXCEPT !.extreme = x, !.stop = y] \in Position
    /\ NoPosition \in Position
<1>1. NoPosition \in Position
  BY DEF Position, NoPosition, Directions
<1>2. QED
  BY <1>1 DEF Position

\* Prices and reaches are integers, and the reach of a bar is positive.
LEMMA BarTypes ==
    /\ \A p \in Prices : p \in Int
    /\ \A b \in Bar : /\ b.high \in Prices /\ b.low \in Prices /\ b.close \in Prices
                      /\ b.high \in Int /\ b.low \in Int /\ b.close \in Int
                      /\ b.reach \in Nat \ {0}
<1>1. Prices \subseteq Int /\ Reaches \subseteq Nat \ {0}
  BY ConstantsOK DEF ConstantsOK
<1>2. QED
  BY <1>1 DEF Bar

\* Gains, days and sizes are numbers.
LEMMA Quotients ==
    ASSUME NEW a \in Int, NEW b \in Int, b > 0
    PROVE  a \div b \in Int /\ (a >= 0 => a \div b >= 0)
<1>1. a \div b \in Int
  OBVIOUS
<1>2. ASSUME a >= 0 PROVE a \div b >= 0
  BY <1>2
<1>3. QED
  BY <1>1, <1>2

LEMMA Products == \A a, b \in Int : a * b \in Int
OBVIOUS

LEMMA GainType == \A p \in BrokerPosition : \A x \in Int : Gain(p, x) \in Int /\ AtStop(p) \in Int
<1> SUFFICES ASSUME NEW p \in BrokerPosition, NEW x \in Int PROVE Gain(p, x) \in Int
  BY DEF AtStop, BrokerPosition
<1>1. p.volume \in Int /\ p.entry \in Int
  BY DEF BrokerPosition
<1>2. QED
  BY <1>1, Products DEF Gain

LEMMA DayType == \A b \in Nat \ {0} : Day(b) \in Nat
<1> SUFFICES ASSUME NEW b \in Nat \ {0} PROVE Day(b) \in Nat
  OBVIOUS
<1>1. b - 1 \in Nat /\ BarsPerDay \in Nat \ {0}
  BY ConstantsOK DEF ConstantsOK
<1>2. (b - 1) \div BarsPerDay \in Nat
  BY <1>1, Quotients
<1>3. QED
  BY <1>2 DEF Day

LEMMA SizeType ==
    ASSUME equity \in Int, NEW r \in Nat \ {0}
    PROVE  position_size(r) \in Nat
<1> DEFINE lots == (equity * RiskPm) \div (1000 * r)
<1>1. RiskPm \in Int
  BY ConstantsOK DEF ConstantsOK
<1>2. lots \in Int
  <2>1. equity * RiskPm \in Int /\ 1000 * r \in Nat \ {0}
    BY <1>1, Products
  <2>2. QED
    BY <2>1, Quotients
<1>3. position_size(r) \in {0, 1} \/ (lots >= 1 /\ position_size(r) = lots)
  BY DEF position_size
<1> HIDE DEF lots
<1>4. QED
  BY <1>2, <1>3

\* The account can be valued, open positions being finitely many.
LEMMA EquityType == TypeOK => Equity \in Int
<1> SUFFICES ASSUME TypeOK PROVE Equity \in Int
  OBVIOUS
<1>1. IsFiniteSet(Open)
  BY ConstantsOK, FS_Subset DEF ConstantsOK, Open
<1>2. price \in Int
  BY BarTypes DEF TypeOK
<1>3. \A t \in Open : Gain(positions[t], price) \in Int
  BY <1>2, GainType DEF TypeOK, Open
<1>4. Floating \in Int
  BY <1>1, <1>3, FloatingType
<1>5. QED
  BY <1>4 DEF Equity, TypeOK

\* A stop-out closes positions and leaves their stops and directions alone.
LEMMA StopOutKeeps ==
    ASSUME TypeOK, NEW hit \in SUBSET Tickets, StopOut(hit)
    PROVE  /\ positions' \in [Tickets -> BrokerPosition]
           /\ balance' \in Int
           /\ Open' = Open \ hit
           /\ \A t \in Tickets : /\ positions'[t].stop = positions[t].stop
                                 /\ positions'[t].direction = positions[t].direction
                                 /\ positions'[t].entry = positions[t].entry
                                 /\ positions'[t].volume = positions[t].volume
           /\ \A t \in Tickets \ hit : positions'[t] = positions[t]
<1>1. positions' = [t \in Tickets |-> IF t \in hit THEN [positions[t] EXCEPT !.state = "closed"]
                                                  ELSE positions[t]]
  BY DEF StopOut
<1>2. \A t \in Tickets : positions[t] \in BrokerPosition
  BY DEF TypeOK
<1>3. \A t \in Tickets : positions'[t] \in BrokerPosition
  BY <1>1, <1>2, PositionUpdates
<1>4. positions' \in [Tickets -> BrokerPosition]
  BY <1>1, <1>3
<1>5. \A t \in Tickets : /\ positions'[t].stop = positions[t].stop
                         /\ positions'[t].direction = positions[t].direction
                         /\ positions'[t].entry = positions[t].entry
                         /\ positions'[t].volume = positions[t].volume
                         /\ positions'[t].state = IF t \in hit THEN "closed" ELSE positions[t].state
  BY <1>1, <1>2 DEF BrokerPosition
<1>6. balance' \in Int
  <2>1. IsFiniteSet(hit)
    BY ConstantsOK, FS_Subset DEF ConstantsOK
  <2>2. \A t \in hit : AtStop(positions[t]) \in Int
    BY <1>2, GainType
  <2>3. Stopped(hit) \in Int
    BY <2>1, <2>2, StoppedType
  <2>4. QED
    BY <2>3 DEF StopOut, TypeOK
<1>7. QED
  BY <1>1, <1>4, <1>5, <1>6 DEF Open

\* What the trail computes are prices, and the new stop is the old one or tighter.
LEMMA TrailTypes ==
    ASSUME TypeOK
    PROVE  /\ Extreme \in Int /\ chandelier_trail \in Int
           /\ chandelier_trail # position.stop
              => Tighter(position.direction, chandelier_trail, position.stop)
<1>1. last.high \in Int /\ last.low \in Int /\ last.reach \in Int
  BY BarTypes DEF TypeOK
<1>2. position.extreme \in Int /\ position.stop \in Int
  BY DEF TypeOK, Position
<1>3. Extreme \in Int
  BY <1>1, <1>2 DEF Extreme
<1>4. Candidate \in Int
  BY <1>1, <1>3 DEF Candidate
<1>5. QED
  BY <1>2, <1>3, <1>4 DEF chandelier_trail

\* Moving a stop changes nothing else of any position.
LEMMA TrailKeeps ==
    ASSUME TypeOK, Trail
    PROVE  \A t \in Tickets : /\ positions'[t].state = positions[t].state
                              /\ positions'[t].direction = positions[t].direction
                              /\ positions'[t].entry = positions[t].entry
                              /\ positions'[t].volume = positions[t].volume
                              /\ t # position.id => positions'[t] = positions[t]
<1> DEFINE new == chandelier_trail
<1>1. \/ positions' = positions
      \/ /\ position.id \in Tickets
         /\ positions' = [positions EXCEPT ![position.id] = [positions[position.id] EXCEPT !.stop = new]]
  BY DEF Trail, Open
<1> HIDE DEF new
<1>2. \A t \in Tickets : LET p == [positions[t] EXCEPT !.stop = new]
                         IN /\ p.state = positions[t].state /\ p.direction = positions[t].direction
                            /\ p.entry = positions[t].entry /\ p.volume = positions[t].volume
  BY DEF TypeOK, BrokerPosition
<1>3. QED
  BY <1>1, <1>2 DEF TypeOK

\* What an order opens is a position, and so is what the runner remembers of it.
LEMMA OrderTypes ==
    ASSUME TypeOK, last.signal # "none"
    PROVE  /\ InitialStop \in Int /\ last.signal \in Directions
           /\ Ordered \in BrokerPosition
           /\ \A t \in Tickets : [id |-> t, direction |-> last.signal, stop |-> InitialStop,
                                  extreme |-> last.close] \in Position
<1>1. last.signal \in Directions
  BY DEF TypeOK, Bar
<1>2. last.close \in Int /\ last.reach \in Nat \ {0} /\ price \in Int
  BY BarTypes DEF TypeOK
<1>3. InitialStop \in Int
  BY <1>2 DEF InitialStop
<1>4. position_size(last.reach) \in Nat
  BY <1>2, SizeType DEF TypeOK
<1>5. Ordered \in BrokerPosition
  BY <1>1, <1>2, <1>3, <1>4 DEF Ordered, BrokerPosition
<1>6. QED
  BY <1>1, <1>2, <1>3, <1>5 DEF Position

\* The guard counts every result.
LEMMA GuardTypes ==
    /\ FreshGuard \in Guard
    /\ \A x \in Int : [start |-> x, realized |-> 0, losses |-> 0] \in Guard
    /\ guard \in Guard => \A x \in Int : record_trade(x) \in Guard
<1>1. InitialBalance \in Int
  BY ConstantsOK DEF ConstantsOK
<1>2. ASSUME guard \in Guard, NEW x \in Int PROVE record_trade(x) \in Guard
  <2>1. guard.realized + x \in Int
    BY <1>2 DEF Guard
  <2>2. (IF x < 0 THEN guard.losses + 1 ELSE IF x > 0 THEN 0 ELSE guard.losses) \in Nat
    BY <1>2 DEF Guard
  <2>3. QED
    BY <1>2, <2>1, <2>2 DEF record_trade, Guard
<1>3. QED
  BY <1>1, <1>2 DEF FreshGuard, Guard

\* An order may end, and may be sent again while attempts are left.
LEMMA NoTries == 0 \in 0..(Attempts - 1)
BY ConstantsOK DEF ConstantsOK

LEMMA InitTypeOK == Init => TypeOK
<1> SUFFICES ASSUME Init PROVE TypeOK
  OBVIOUS
<1>1. NoBrokerPosition \in BrokerPosition
  BY DEF NoBrokerPosition, BrokerPosition, Directions
<1>2. balance \in Int
  BY ConstantsOK DEF ConstantsOK, Init
<1>3. guard \in Guard /\ position \in Position
  BY RunnerUpdates, GuardTypes DEF Init
<1>4. price \in Prices /\ last \in Bar /\ positions \in [Tickets -> BrokerPosition]
  BY <1>1 DEF Init
<1>5. bar \in Nat \ {0} /\ seen \in Nat /\ day \in Nat /\ equity \in Int /\ step \in Steps
  BY DEF Init, Steps
<1>6. tries \in 0..(Attempts - 1) /\ entry \subseteq Tickets
  BY NoTries DEF Init
<1>7. QED
  BY <1>2, <1>3, <1>4, <1>5, <1>6 DEF TypeOK

LEMMA StepTypeOK == TypeOK /\ Remembering /\ [Next]_vars => TypeOK'
<1> SUFFICES ASSUME TypeOK, Remembering, [Next]_vars PROVE TypeOK'
  OBVIOUS
<1>1. CASE NewBar
  <2>1. /\ bar' = bar + 1 /\ last' \in Bar /\ price' = last'.close /\ UNCHANGED <<runner, order>>
        /\ StopOut(Hit(last'.high, last'.low))
    BY <1>1 DEF NewBar
  <2>2. Hit(last'.high, last'.low) \in SUBSET Tickets
    BY DEF Hit, Open
  <2>3. positions' \in [Tickets -> BrokerPosition] /\ balance' \in Int
    BY <2>1, <2>2, StopOutKeeps
  <2>4. price' \in Prices /\ bar' \in Nat \ {0}
    BY <2>1, BarTypes DEF TypeOK
  <2>5. QED
    BY <2>1, <2>3, <2>4 DEF TypeOK, runner, order
<1>2. CASE Drift
  <2>1. PICK p \in Prices : price' = p /\ StopOut(Hit(p, p))
    BY <1>2 DEF Drift
  <2>2. Hit(p, p) \in SUBSET Tickets
    BY DEF Hit, Open
  <2>3. positions' \in [Tickets -> BrokerPosition] /\ balance' \in Int
    BY <2>1, <2>2, StopOutKeeps
  <2>4. QED
    BY <1>2, <2>1, <2>3 DEF Drift, TypeOK, runner, order
<1>3. CASE Restart
  <2>1. guard' \in Guard /\ position' \in Position
    BY <1>3, RunnerUpdates, GuardTypes DEF Restart
  <2>2. seen' \in Nat /\ day' \in Nat /\ equity' \in Int /\ step' \in Steps
    BY <1>3 DEF Restart, Steps
  <2>3. QED
    BY <1>3, <2>1, <2>2, NoTries DEF Restart, TypeOK, market, account
<1>4. CASE Begin
  <2>1. Equity \in Int /\ Day(bar) \in Nat
    BY EquityType, DayType DEF TypeOK
  <2>2. guard' \in Guard /\ equity' \in Int /\ day' \in Nat /\ step' \in Steps
    BY <1>4, <2>1, GuardTypes DEF Begin, TypeOK, Steps
  <2>3. QED
    BY <1>4, <2>2 DEF Begin, TypeOK, market, account, order
<1>5. CASE Reconcile
  <2>1. ASSUME NEW t \in Open PROVE Adopted(t) \in Position
    BY DEF Adopted, Position, BrokerPosition, TypeOK, Open
  <2>2. position' \in Position /\ step' \in Steps
    BY <1>5, <2>1 DEF Reconcile, TypeOK, Steps
  <2>3. QED
    BY <1>5, <2>2 DEF Reconcile, TypeOK, market, account, order
<1>6. CASE OnPositionClosed
  <2> DEFINE p == positions[position.id]
             pnl == IF p.state = "closed" THEN AtStop(p) ELSE 0
  <2>1. PICK x \in {pnl} \cup {0} : guard' = record_trade(x)
    BY <1>6 DEF OnPositionClosed
  <2>2. position.id \in Tickets
    BY <1>6 DEF OnPositionClosed, Remembering, InTrade, TypeOK, Position
  <2>3. AtStop(p) \in Int
    <3>1. p \in BrokerPosition
      BY <2>2 DEF TypeOK
    <3> HIDE DEF p
    <3>2. QED
      BY <3>1, GainType
  <2>4. x \in Int
    BY <2>1, <2>3
  <2>5. guard' \in Guard
    BY <2>1, <2>4, GuardTypes DEF TypeOK
  <2>6. position' \in Position /\ step' \in Steps
    BY <1>6, RunnerUpdates DEF OnPositionClosed, Steps
  <2>7. QED
    BY <1>6, <2>5, <2>6 DEF OnPositionClosed, TypeOK, market, account, order
<1>7. CASE Trail
  <2> DEFINE new == chandelier_trail
  <2>1. Extreme \in Int /\ new \in Int
    BY TrailTypes
  <2> HIDE DEF new
  <2>2. position' \in {[position EXCEPT !.extreme = Extreme],
                       [position EXCEPT !.extreme = Extreme, !.stop = new]}
    BY <1>7 DEF Trail, new
  <2>3. position' \in Position
    <3>1. position \in Position
      BY DEF TypeOK
    <3>2. /\ [position EXCEPT !.extreme = Extreme] \in Position
          /\ [position EXCEPT !.extreme = Extreme, !.stop = new] \in Position
      BY <2>1, <3>1, RunnerUpdates
    <3>3. QED
      BY <2>2, <3>2
  <2>4. \/ positions' = positions
        \/ /\ position.id \in Tickets
           /\ positions' = [positions EXCEPT ![position.id] = [positions[position.id] EXCEPT !.stop = new]]
    BY <1>7 DEF Trail, new, Open
  <2>5. positions' \in [Tickets -> BrokerPosition]
    BY <2>1, <2>4, PositionUpdates DEF TypeOK
  <2>6. QED
    BY <1>7, <2>3, <2>5 DEF Trail, TypeOK, market, order, Steps
<1>8. CASE Pass
  BY <1>8, NoTries DEF Pass, EndEntry, TypeOK, market, account, Steps
<1>9. CASE Place \/ PlaceAgain
  <2>1. last.signal # "none"
    BY <1>9 DEF Place, PlaceAgain, WillEnter
  <2>2. \/ UNCHANGED positions /\ entry' = Sent
        \/ \E t \in Tickets : positions' = [positions EXCEPT ![t] = Ordered] /\ entry' = Sent \cup {t}
    BY <1>9 DEF Place, PlaceAgain, Opens, OpensNone
  <2>3. positions' \in [Tickets -> BrokerPosition]
    BY <2>1, <2>2, OrderTypes DEF TypeOK
  <2>4. entry' \subseteq Tickets
    BY <2>2 DEF Sent, TypeOK
  <2>5. position' \in Position
    BY <1>9, <2>1, OrderTypes DEF Place, PlaceAgain, TypeOK
  <2>6. step' \in Steps /\ equity' \in Int
    BY <1>9 DEF Place, PlaceAgain, EndEntry, Steps, TypeOK
  <2>7. tries' \in 0..(Attempts - 1)
    <3>1. tries' = 0 \/ (tries + 1 < Attempts /\ tries' = tries + 1)
      BY <1>9 DEF Place, PlaceAgain, EndEntry
    <3>2. tries \in 0..(Attempts - 1) /\ Attempts \in Nat
      BY ConstantsOK DEF ConstantsOK, TypeOK
    <3>3. QED
      BY <3>1, <3>2, NoTries
  <2>8. QED
    BY <1>9, <2>3, <2>4, <2>5, <2>6, <2>7 DEF Place, PlaceAgain, TypeOK, market
<1>10. CASE UNCHANGED vars
  BY <1>10 DEF vars, market, account, runner, order, TypeOK
<1>11. QED
  BY <1>1, <1>2, <1>3, <1>4, <1>5, <1>6, <1>7, <1>8, <1>9, <1>10 DEF Next

LEMMA RememberingHolds == Spec => []Remembering
<1>1. Init => Remembering
  BY DEF Init, Remembering
<1>2. Remembering /\ [Next]_vars => Remembering'
  <2> SUFFICES ASSUME Remembering, [Next]_vars PROVE Remembering'
    OBVIOUS
  <2> USE DEF Remembering, InTrade
  <2>1. CASE Reconcile
    BY <2>1 DEF Reconcile
  <2>2. CASE NewBar \/ Drift \/ UNCHANGED vars
    BY <2>2 DEF NewBar, Drift, vars, runner
  <2>3. CASE Begin
    BY <2>3 DEF Begin
  <2>4. CASE Restart \/ OnPositionClosed \/ Trail \/ Pass \/ Place
    BY <2>4 DEF Restart, OnPositionClosed, NoPosition, Trail, Pass, Place, EndEntry
  <2>5. CASE PlaceAgain
    BY <2>5 DEF PlaceAgain, EndEntry
  <2>6. QED
    BY <2>1, <2>2, <2>3, <2>4, <2>5 DEF Next
<1>3. QED
  BY <1>1, <1>2, PTL DEF Spec

\* The runner, the guard and the account keep their types, for every set of
\* prices, reaches and account rules: a sum over the open positions is a number
\* however many there are, and the guard's streak of losses never runs negative
\* (ChallengeGuard.record_trade).
THEOREM TypeCorrect == Spec => []TypeOK
<1>1. QED
  BY InitTypeOK, StepTypeOK, RememberingHolds, PTL DEF Spec
-----------------------------------------------------------------------------
(***************************************************************************)
(* Stops.                                                                  *)
(***************************************************************************)
\* Every step keeps the runner's stop abreast of the broker's and loosens none.
LEMMA StepStops ==
    ASSUME "unconfirmed" \notin Hazards, TypeOK, Remembering, Abreast, [Next]_vars
    PROVE  /\ Abreast'
           /\ \A t \in Open : ~Tighter(positions[t].direction, positions[t].stop, positions'[t].stop)
<1> DEFINE Kept == \A t \in Open :
                      ~Tighter(positions[t].direction, positions[t].stop, positions'[t].stop)
<1>0. \A t \in Tickets : positions[t] \in BrokerPosition
  BY DEF TypeOK
<1>1. ASSUME UNCHANGED positions PROVE Kept
  BY <1>0, <1>1 DEF Tighter, Open, BrokerPosition
<1>2. ASSUME NEW hit \in SUBSET Tickets, StopOut(hit), UNCHANGED position
      PROVE  Abreast' /\ Kept
  <2>1. Kept
    BY <1>0, <1>2, StopOutKeeps DEF Tighter, Open, BrokerPosition
  <2>2. Abreast'
    BY <1>2, StopOutKeeps DEF Abreast, InTrade, Open
  <2>3. QED
    BY <2>1, <2>2
<1>3. CASE NewBar \/ Drift
  <2>1. PICK high, low : StopOut(Hit(high, low))
    BY <1>3 DEF NewBar, Drift
  <2>2. Hit(high, low) \in SUBSET Tickets
    BY DEF Hit, Open
  <2>3. QED
    BY <1>2, <1>3, <2>1, <2>2 DEF NewBar, Drift, runner
<1>4. CASE Restart \/ OnPositionClosed
  <2>1. position' = NoPosition /\ UNCHANGED positions
    BY <1>4 DEF Restart, OnPositionClosed, account
  <2>2. ~InTrade'
    BY <2>1 DEF NoPosition, InTrade
  <2>3. QED
    BY <1>1, <2>1, <2>2 DEF Abreast
<1>5. CASE UNCHANGED <<positions, position>>
  BY <1>1, <1>5 DEF Abreast, InTrade, Open
<1>6. CASE Begin \/ Pass \/ UNCHANGED vars
  BY <1>5, <1>6 DEF Begin, Pass, vars, account, runner
<1>7. CASE Reconcile
  <2>1. UNCHANGED positions
    BY <1>7 DEF Reconcile, account
  <2>2. ASSUME NEW t \in Open, position' = Adopted(t) PROVE Abreast'
    <3>1. positions[t] \in BrokerPosition
      BY <1>0 DEF Open
    <3>2. QED
      BY <2>1, <2>2, <3>1 DEF Abreast, Adopted, Tighter, BrokerPosition
  <2>3. QED
    BY <1>1, <1>5, <1>7, <2>1, <2>2 DEF Reconcile
<1>8. CASE Trail
  <2> DEFINE new == chandelier_trail
             id == position.id
  <2>1. /\ new \in Int
        /\ new # position.stop => Tighter(position.direction, new, position.stop)
    BY TrailTypes
  <2> HIDE DEF new
  <2>2. position \in Position
    BY DEF TypeOK
  <2>3. CASE UNCHANGED positions /\ position' \in {[position EXCEPT !.extreme = Extreme],
                                                  [position EXCEPT !.extreme = Extreme, !.stop = new]}
    <3>1. /\ position'.id = id /\ position'.direction = position.direction
          /\ position'.stop = position.stop \/ position'.stop = new
      BY <2>2, <2>3 DEF Position
    <3>2. SUFFICES ASSUME InTrade, id \in Open
                   PROVE  /\ positions[id].direction = position.direction
                          /\ ~Tighter(positions[id].direction, positions[id].stop, position'.stop)
      BY <1>1, <2>3, <3>1 DEF Abreast, InTrade, Open
    <3>3. /\ positions[id].direction = position.direction
          /\ ~Tighter(positions[id].direction, positions[id].stop, position.stop)
      BY <3>2 DEF Abreast
    <3>4. positions[id].stop \in Int /\ position.stop \in Int
      BY <1>0, <2>2, <3>2 DEF Open, BrokerPosition, Position
    <3>5. QED
      BY <2>1, <3>1, <3>3, <3>4 DEF Tighter
  <2>4. CASE /\ new # position.stop /\ id \in Open
             /\ positions' = [positions EXCEPT ![id].stop = new]
             /\ position' = [position EXCEPT !.extreme = Extreme, !.stop = new]
    <3>1. id \in Tickets /\ id # NoTicket /\ positions[id] \in BrokerPosition
      <4>1. id \in Tickets
        BY <2>4 DEF Open
      <4>2. QED
        BY <1>0, <4>1, ConstantsOK DEF ConstantsOK
    <3>2. positions' = [positions EXCEPT ![id] = [positions[id] EXCEPT !.stop = new]]
      BY <2>4
    <3>3. /\ positions'[id].stop = new /\ positions'[id].direction = positions[id].direction
          /\ \A t \in Tickets \ {id} : positions'[t] = positions[t]
      BY <3>1, <3>2 DEF TypeOK, BrokerPosition
    <3>4. /\ positions[id].direction = position.direction
          /\ ~Tighter(positions[id].direction, positions[id].stop, position.stop)
      BY <2>4, <3>1 DEF Abreast, InTrade
    <3>5. positions[id].stop \in Int /\ position.stop \in Int
      BY <2>2, <3>1 DEF BrokerPosition, Position
    <3>6. Kept
      BY <1>0, <2>1, <2>4, <3>3, <3>4, <3>5 DEF Tighter, Open, BrokerPosition
    <3>7. position'.id = id /\ position'.direction = position.direction /\ position'.stop = new
      BY <2>2, <2>4 DEF Position
    <3>8. Abreast'
      BY <2>1, <3>3, <3>4, <3>7 DEF Abreast, Tighter
    <3>9. QED
      BY <3>6, <3>8
  <2>5. QED
    <3>1. CASE new = position.stop /\ position' = [position EXCEPT !.extreme = Extreme] /\ UNCHANGED positions
      BY <2>3, <3>1
    <3>2. QED
      BY <1>8, <2>3, <2>4, <3>1 DEF Trail, new
<1>9. CASE Place
  <2>1. CASE UNCHANGED <<positions, position>>
    BY <1>5, <2>1
  <2>2. CASE \E t \in Tickets :
               /\ positions[t].state = "none"
               /\ positions' = [positions EXCEPT ![t] = Ordered]
               /\ position' = [id |-> t, direction |-> last.signal,
                               stop |-> InitialStop, extreme |-> last.close]
    <3>1. PICK t \in Tickets :
               /\ positions[t].state = "none"
               /\ positions' = [positions EXCEPT ![t] = Ordered]
               /\ position' = [id |-> t, direction |-> last.signal,
                               stop |-> InitialStop, extreme |-> last.close]
      BY <2>2
    <3>2. InitialStop \in Int /\ Ordered.direction = last.signal /\ Ordered.stop = InitialStop
      BY <1>9, OrderTypes DEF Place, WillEnter, Ordered
    <3>3. /\ positions'[t] = Ordered /\ \A u \in Tickets \ {t} : positions'[u] = positions[u]
      BY <3>1 DEF TypeOK
    <3>4. /\ position'.id = t /\ position'.direction = last.signal /\ position'.stop = InitialStop
      BY <3>1
    <3>5. Abreast'
      BY <3>2, <3>3, <3>4 DEF Abreast, Tighter
    <3>6. Kept
      BY <1>0, <3>1, <3>3 DEF Open, Tighter, BrokerPosition
    <3>7. QED
      BY <3>5, <3>6
  <2>3. QED
    BY <1>9, <2>1, <2>2 DEF Place, Opens, OpensNone
<1>10. CASE PlaceAgain
  <2>1. UNCHANGED position /\ ~InTrade'
    BY <1>10 DEF PlaceAgain, Remembering, InTrade
  <2>2. \A t \in Open : positions'[t] = positions[t]
    BY <1>10 DEF PlaceAgain, Opens, OpensNone, Open, TypeOK
  <2>3. Kept
    BY <1>0, <2>2 DEF Tighter, Open, BrokerPosition
  <2>4. QED
    BY <2>1, <2>3 DEF Abreast
<1>11. QED
  BY <1>3, <1>4, <1>6, <1>7, <1>8, <1>9, <1>10 DEF Next

\* A stop at the broker is never loosened, provided that no move of a stop goes
\* unanswered: the runner then remembers each stop it has set (Runner._trail).
THEOREM StopsTightenHolds ==
    ASSUME "unconfirmed" \notin Hazards
    PROVE  Spec => StopsOnlyTighten
<1>1. Init => Abreast
  BY DEF Init, Abreast, InTrade, NoPosition
<1>2. TypeOK /\ Remembering /\ Abreast /\ [Next]_vars => Abreast'
  BY StepStops
<1>3. TypeOK /\ Remembering /\ Abreast /\ [Next]_vars =>
        [\A t \in Open : ~Tighter(positions[t].direction, positions[t].stop, positions'[t].stop)]_vars
  BY StepStops
<1>4. QED
  BY <1>1, <1>2, <1>3, TypeCorrect, RememberingHolds, PTL DEF Spec, StopsOnlyTighten
-----------------------------------------------------------------------------
(***************************************************************************)
(* One entry.                                                              *)
(***************************************************************************)
\* Every step keeps FlatToEnter: the runner orders only after it has found the
\* account flat, and adopts a position it finds.
LEMMA StepFlatToEnter ==
    ASSUME "unreadable" \notin Hazards, TypeOK, FlatToEnter, [Next]_vars
    PROVE  FlatToEnter'
<1>1. ASSUME NEW hit \in SUBSET Tickets, StopOut(hit), UNCHANGED <<step, order>> PROVE FlatToEnter'
  BY <1>1, StopOutKeeps DEF FlatToEnter, order
<1>2. CASE NewBar \/ Drift
  <2>1. PICK high, low : StopOut(Hit(high, low))
    BY <1>2 DEF NewBar, Drift
  <2>2. Hit(high, low) \in SUBSET Tickets
    BY DEF Hit, Open
  <2>3. QED
    BY <1>1, <1>2, <2>1, <2>2 DEF NewBar, Drift, runner
<1>3. ASSUME UNCHANGED <<positions, entry>>, step' \in {"idle", "reconcile", "trail"}, tries' = 0
      PROVE  FlatToEnter'
  BY <1>3 DEF FlatToEnter, Open
<1>4. ASSUME UNCHANGED <<positions, step, order>> PROVE FlatToEnter'
  BY <1>4 DEF FlatToEnter, Open, order
<1>5. CASE Restart \/ Pass
  BY <1>3, <1>5 DEF Restart, Pass, EndEntry, account
<1>6. CASE Begin \/ UNCHANGED vars
  BY <1>3, <1>4, <1>6 DEF Begin, vars, account, runner, order, FlatToEnter
<1>7. CASE Reconcile
  BY <1>7 DEF Reconcile, account, order, FlatToEnter, Open
<1>8. CASE OnPositionClosed
  BY <1>8 DEF OnPositionClosed, account, order, FlatToEnter, Open
<1>9. CASE Trail
  <2>1. \A t \in Tickets : positions'[t].state = positions[t].state
    BY <1>9, TrailKeeps
  <2>2. Open' = Open /\ step' = "idle" /\ UNCHANGED order
    BY <1>9, <2>1 DEF Trail, Open
  <2>3. tries = 0
    BY <1>9 DEF Trail, FlatToEnter
  <2>4. QED
    BY <2>2, <2>3 DEF FlatToEnter, order
<1>10. CASE Place \/ PlaceAgain
  <2>1. Open \subseteq Sent
    BY <1>10 DEF Place, PlaceAgain, Sent, FlatToEnter
  <2>2. Open' \subseteq entry'
    <3>1. CASE OpensNone
      BY <2>1, <3>1 DEF OpensNone, Open
    <3>2. CASE \E t \in Tickets : Opens(t)
      BY <2>1, <3>2 DEF Opens, Open
    <3>3. QED
      BY <1>10, <3>1, <3>2 DEF Place, PlaceAgain
  <2>3. \/ step' = "idle" /\ tries' = 0
        \/ step' = "enter" /\ tries' = tries + 1
    BY <1>10 DEF Place, PlaceAgain, EndEntry
  <2>4. tries + 1 # 0
    BY ConstantsOK DEF ConstantsOK, TypeOK
  <2>5. QED
    BY <2>2, <2>3, <2>4 DEF FlatToEnter
<1>11. QED
  BY <1>2, <1>5, <1>6, <1>7, <1>8, <1>9, <1>10 DEF Next

LEMMA FlatToEnterHolds ==
    ASSUME "unreadable" \notin Hazards
    PROVE  Spec => []FlatToEnter
<1>1. Init => FlatToEnter
  BY DEF Init, FlatToEnter, Open, NoBrokerPosition
<1>2. TypeOK /\ FlatToEnter /\ [Next]_vars => FlatToEnter'
  BY StepFlatToEnter
<1>3. QED
  BY <1>1, <1>2, TypeCorrect, PTL DEF Spec

\* Alike for the positions of a set: one direction and one volume.
Same(S) ==
    \A t, u \in S : /\ positions[t].direction = positions[u].direction
                    /\ positions[t].volume = positions[u].volume

\* An attempt opens one position at most, like those of the attempts before it.
LEMMA AttemptAlike ==
    ASSUME TypeOK, Alike, OpensNone \/ \E t \in Tickets : Opens(t)
    PROVE  /\ Cardinality(entry') <= tries + 1
           /\ \A u \in entry' : /\ positions'[u].direction = last.signal
                                /\ positions'[u].volume = position_size(last.reach)
<1>1. entry \subseteq Tickets /\ IsFiniteSet(Tickets) /\ tries \in Nat
  BY ConstantsOK DEF ConstantsOK, TypeOK
<1>2. IsFiniteSet(Sent) /\ Cardinality(Sent) <= tries /\ Sent \subseteq Tickets
  <2>1. CASE tries = 0
    BY <2>1, FS_EmptySet DEF Sent
  <2>2. CASE tries # 0
    BY <1>1, <2>2, FS_Subset DEF Sent, Alike
  <2>3. QED
    BY <2>1, <2>2
<1>3. \A u \in Sent : /\ positions[u].direction = last.signal
                      /\ positions[u].volume = position_size(last.reach)
  BY <1>1 DEF Sent, Alike
<1>4. CASE OpensNone
  <2>1. Cardinality(Sent) \in Nat
    BY <1>2, FS_CardinalityType
  <2>2. QED
    BY <1>1, <1>2, <1>3, <1>4, <2>1 DEF OpensNone
<1>5. ASSUME NEW t \in Tickets, Opens(t)
      PROVE  /\ Cardinality(entry') <= tries + 1
             /\ \A u \in entry' : /\ positions'[u].direction = last.signal
                                  /\ positions'[u].volume = position_size(last.reach)
  <2>1. IsFiniteSet(Sent \cup {t}) /\ Cardinality(Sent \cup {t}) <= Cardinality(Sent) + 1
    <3>1. Cardinality(Sent) \in Nat
      BY <1>2, FS_CardinalityType
    <3>2. QED
      BY <1>2, <3>1, FS_AddElement
  <2>2. Cardinality(Sent) \in Nat /\ Cardinality(Sent \cup {t}) \in Nat
    BY <1>2, <2>1, FS_CardinalityType
  <2>3. Cardinality(entry') <= tries + 1
    BY <1>1, <1>2, <1>5, <2>1, <2>2 DEF Opens
  <2>4. /\ positions'[t] = Ordered
        /\ \A u \in Tickets \ {t} : positions'[u] = positions[u]
    BY <1>5 DEF Opens, TypeOK
  <2>5. Ordered.direction = last.signal /\ Ordered.volume = position_size(last.reach)
    BY DEF Ordered
  <2>6. \A u \in entry' : /\ positions'[u].direction = last.signal
                          /\ positions'[u].volume = position_size(last.reach)
    BY <1>2, <1>3, <1>5, <2>4, <2>5 DEF Opens
  <2>7. QED
    BY <2>3, <2>6
<1>6. QED
  BY <1>4, <1>5

\* Every step keeps the positions of the last entry alike.
LEMMA StepAlike ==
    ASSUME TypeOK, FlatToEnter, Alike, [Next]_vars
    PROVE  Alike'
<1> DEFINE Kept == \A t \in Tickets : /\ positions'[t].direction = positions[t].direction
                                      /\ positions'[t].volume = positions[t].volume
<1>1. entry \subseteq Tickets
  BY DEF TypeOK
<1>2. ASSUME Kept, entry' = entry, tries' = 0 PROVE Alike'
  BY <1>1, <1>2 DEF Alike, Copies
<1>3. ASSUME Kept, UNCHANGED <<order, last, equity>> PROVE Alike'
  BY <1>1, <1>3 DEF Alike, Copies, order, position_size
<1>4. CASE NewBar \/ Drift
  <2>1. PICK high, low : StopOut(Hit(high, low))
    BY <1>4 DEF NewBar, Drift
  <2>2. Hit(high, low) \in SUBSET Tickets
    BY DEF Hit, Open
  <2>3. Kept
    BY <2>1, <2>2, StopOutKeeps
  <2>4. QED
    BY <1>2, <1>3, <1>4, <2>3 DEF NewBar, Drift, runner, order, FlatToEnter
<1>5. CASE Restart \/ Pass
  BY <1>2, <1>5 DEF Restart, Pass, EndEntry, account
<1>6. CASE Begin \/ Reconcile \/ OnPositionClosed
  BY <1>2, <1>6 DEF Begin, Reconcile, OnPositionClosed, account, order, FlatToEnter
<1>7. CASE Trail
  BY <1>2, <1>7, TrailKeeps DEF Trail, order, FlatToEnter
<1>8. CASE Place \/ PlaceAgain
  <2>1. OpensNone \/ \E t \in Tickets : Opens(t)
    BY <1>8 DEF Place, PlaceAgain
  <2>2. /\ Cardinality(entry') <= tries + 1
        /\ \A u \in entry' : /\ positions'[u].direction = last.signal
                             /\ positions'[u].volume = position_size(last.reach)
    BY <2>1, AttemptAlike
  <2>3. tries \in 0..(Attempts - 1) /\ Attempts \in Nat
    BY ConstantsOK DEF ConstantsOK, TypeOK
  <2>4. Cardinality(entry') \in Nat
    <3>1. entry' \subseteq Tickets
      BY <1>1, <2>1 DEF OpensNone, Opens, Sent
    <3>2. IsFiniteSet(entry')
      BY <3>1, FS_Subset, ConstantsOK DEF ConstantsOK
    <3>3. QED
      BY <3>2, FS_CardinalityType
  <2>5. Cardinality(entry') <= Copies
    <3>1. CASE "lost" \in Hazards
      BY <2>2, <2>3, <2>4, <3>1 DEF Copies
    <3>2. CASE "lost" \notin Hazards
      <4>1. tries = 0
        BY <2>3, <3>2 DEF Alike
      <4>2. QED
        BY <2>2, <2>4, <3>2, <4>1 DEF Copies
    <3>3. QED
      BY <3>1, <3>2
  <2>6. \/ tries' = 0
        \/ /\ "lost" \in Hazards /\ tries' = tries + 1
           /\ UNCHANGED <<last, equity>>
    BY <1>8 DEF Place, PlaceAgain, EndEntry, market
  <2>7. QED
    BY <2>2, <2>5, <2>6 DEF Alike, Copies, position_size
<1>9. CASE UNCHANGED vars
  BY <1>3, <1>9 DEF vars, market, account, runner, order
<1>10. QED
  BY <1>4, <1>5, <1>6, <1>7, <1>8, <1>9 DEF Next

\* The account holds the positions of one entry, as long as the runner can read its
\* positions: one, or up to _RETRY_ATTEMPTS copies of one order when the order may
\* go unanswered, all of one direction and volume.  Whatever is refused and however
\* the price moves, also over a restart, the runner adopts what it finds before it
\* may order again (Runner.tick, ChallengeBroker._request).
THEOREM OneEntryHolds ==
    ASSUME "unreadable" \notin Hazards
    PROVE  Spec => []OneEntry
<1>1. Init => Alike
  <2>1. Cardinality({}) = 0 /\ 0 <= Copies
    BY FS_EmptySet, ConstantsOK DEF ConstantsOK, Copies
  <2>2. QED
    BY <2>1 DEF Init, Alike
<1>2. TypeOK /\ FlatToEnter /\ Alike /\ [Next]_vars => Alike'
  BY StepAlike
<1>3. TypeOK /\ FlatToEnter /\ Alike => OneEntry
  <2> SUFFICES ASSUME TypeOK, FlatToEnter, Alike PROVE OneEntry
    OBVIOUS
  <2>1. Open \subseteq entry /\ IsFiniteSet(entry)
    BY FS_Subset, ConstantsOK DEF ConstantsOK, TypeOK, FlatToEnter
  <2>2. /\ Cardinality(Open) <= Cardinality(entry)
        /\ Cardinality(Open) \in Nat /\ Cardinality(entry) \in Nat
    BY <2>1, FS_Subset, FS_CardinalityType
  <2>3. Copies \in Nat /\ Cardinality(entry) <= Copies
    BY ConstantsOK DEF ConstantsOK, Copies, Alike
  <2>4. Cardinality(Open) <= Copies
    BY <2>2, <2>3
  <2>5. QED
    BY <2>1, <2>4 DEF OneEntry, Alike
<1>4. QED
  BY <1>1, <1>2, <1>3, TypeCorrect, FlatToEnterHolds, PTL DEF Spec
-----------------------------------------------------------------------------
(***************************************************************************)
(* The floor.                                                              *)
(***************************************************************************)
LEMMA FloorType == overall_floor \in Int /\ InitialBalance \in Int /\ 1000 * InitialBalance >= overall_floor
<1>1. InitialBalance \in Nat /\ OverallPm \in Nat
  BY ConstantsOK DEF ConstantsOK
<1>2. InitialBalance * OverallPm \in Nat
  <2>1. \A a, b \in Nat : a * b \in Nat
    OBVIOUS
  <2>2. QED
    BY <1>1, <2>1
<1>3. overall_floor = 1000 * InitialBalance - InitialBalance * OverallPm
  BY <1>1 DEF overall_floor
<1>4. QED
  BY <1>1, <1>2, <1>3

\* The stake as a sum.
LEMMA StakeIs ==
    ASSUME TypeOK, entry' \subseteq Tickets
    PROVE  /\ Stake = balance - Total(Results(positions), entry \ Open)
           /\ Stake' = balance' - Total(Results(positions'), entry' \ Open')
<1>1. entry \ Open \in SUBSET Tickets /\ entry' \ Open' \in SUBSET Tickets
  BY DEF TypeOK
<1>2. Stopped(entry \ Open) = Total(Results(positions), entry \ Open)
  BY <1>1, StoppedIs DEF Stopped
<1>3. MapThenSumSet(LAMBDA t : AtStop(positions'[t]), entry' \ Open')
      = Total(Results(positions'), entry' \ Open')
  BY <1>1, StoppedIs
<1>4. Stopped(entry \ Open)' = MapThenSumSet(LAMBDA t : AtStop(positions'[t]), entry' \ Open')
  BY DEF Stopped, MapThenSumSet, MapThenFoldSet
<1>5. QED
  BY <1>2, <1>3, <1>4 DEF Stake

LEMMA ResultTypes ==
    ASSUME TypeOK, NEW S \in SUBSET Tickets
    PROVE  /\ IsFiniteSet(S) /\ \A t \in S : Results(positions)[t] \in Int
           /\ Total(Results(positions), S) \in Int
<1>1. IsFiniteSet(S)
  BY FS_Subset, ConstantsOK DEF ConstantsOK
<1>2. \A t \in S : Results(positions)[t] \in Int
  <2>1. \A t \in Tickets : AtStop(positions[t]) \in Int
    <3>1. 0 \in Int /\ \A t \in Tickets : positions[t] \in BrokerPosition
      BY DEF TypeOK
    <3>2. QED
      BY <3>1, GainType
  <2>2. QED
    BY <2>1 DEF Results
<1>3. QED
  BY <1>1, <1>2, TotalType

LEMMA StakeType ==
    ASSUME TypeOK
    PROVE  Stake \in Int
<1>1. entry \ Open \in SUBSET Tickets /\ balance \in Int
  BY DEF TypeOK
<1>2. Stopped(entry \ Open) = Total(Results(positions), entry \ Open)
  BY <1>1, StoppedIs DEF Stopped
<1>3. QED
  BY <1>1, <1>2, ResultTypes DEF Stake

\* The stake stays what it is as long as the closed positions of the entry are
\* the same and keep their stops.
LEMMA StakeKept ==
    ASSUME TypeOK, UNCHANGED <<balance, entry>>, Open' = Open,
           \A t \in entry \ Open : positions'[t] = positions[t]
    PROVE  Stake' = Stake
<1>1. entry \subseteq Tickets /\ entry' \ Open' = entry \ Open
  BY DEF TypeOK
<1>2. \A t \in entry \ Open : Results(positions)[t] = Results(positions')[t]
  BY <1>1 DEF Results
<1>3. Total(Results(positions), entry \ Open) = Total(Results(positions'), entry \ Open)
  BY <1>2, TotalSame
<1>4. entry' \subseteq Tickets
  BY <1>1
<1>5. QED
  BY <1>1, <1>3, <1>4, StakeIs

\* Positions that are stopped out bring to the balance what the stake leaves out.
LEMMA StakeStoppedOut ==
    ASSUME TypeOK, FlatToEnter, NEW hit \in SUBSET Open, StopOut(hit), entry' = entry
    PROVE  Stake' = Stake
<1> DEFINE F == Results(positions)
           gone == entry \ Open
<1>1. hit \in SUBSET Tickets /\ gone \in SUBSET Tickets /\ hit \cup gone \in SUBSET Tickets
  BY DEF TypeOK, Open
<1>2. /\ Open' = Open \ hit
      /\ \A t \in Tickets : /\ positions'[t].stop = positions[t].stop
                            /\ positions'[t].direction = positions[t].direction
                            /\ positions'[t].entry = positions[t].entry
                            /\ positions'[t].volume = positions[t].volume
  BY <1>1, StopOutKeeps
<1>3. entry' \ Open' = hit \cup gone
  BY <1>2 DEF FlatToEnter
<1>4. \A t \in hit \cup gone : F[t] = Results(positions')[t]
  BY <1>1, <1>2 DEF Results, AtStop, Gain
<1>5. Total(F, hit \cup gone) = Total(Results(positions'), hit \cup gone)
  <2> HIDE DEF F, gone
  <2>1. QED
    BY <1>4, TotalSame
<1>6. /\ IsFiniteSet(hit) /\ IsFiniteSet(gone) /\ hit \cap gone = {}
      /\ \A t \in hit \cup gone : F[t] \in Int
      /\ Total(F, hit) \in Int /\ Total(F, gone) \in Int
  BY <1>1, ResultTypes
<1>7. Total(F, hit \cup gone) = Total(F, hit) + Total(F, gone)
  <2> HIDE DEF F, gone
  <2>1. QED
    BY <1>6, TotalUnion
<1>8. balance' = balance + Total(F, hit) /\ balance \in Int
  <2>1. Stopped(hit) = Total(F, hit)
    BY <1>1, StoppedIs DEF Stopped
  <2>2. QED
    BY <2>1 DEF StopOut, TypeOK
<1>9. /\ Stake = balance - Total(F, gone)
      /\ Stake' = balance' - Total(Results(positions'), hit \cup gone)
  <2>1. entry' \subseteq Tickets
    BY DEF TypeOK
  <2>2. QED
    BY <1>3, <2>1, StakeIs
<1> HIDE DEF F, gone
<1>10. QED
  BY <1>5, <1>6, <1>7, <1>8, <1>9

\* With no position of the entry closed yet, the stake is the balance.
LEMMA StakeFresh ==
    ASSUME TypeOK, balance' = balance, entry' \subseteq Tickets, entry' \subseteq Open'
    PROVE  Stake' = balance
<1>1. entry' \ Open' = {} /\ balance \in Int
  BY DEF TypeOK
<1>2. Stake' = balance' - Total(Results(positions'), {})
  BY <1>1, StakeIs
<1>3. Total(Results(positions'), {}) = 0
  BY TotalNone
<1>4. QED
  BY <1>1, <1>2, <1>3

\* A tighter stop brings no less.
LEMMA TighterGains ==
    ASSUME NEW p \in BrokerPosition, NEW a \in Int, NEW b \in Int,
           a = b \/ Tighter(p.direction, a, b)
    PROVE  Gain(p, b) <= Gain(p, a)
<1>1. \A v \in Nat, x, y \in Int : x <= y => v * x <= v * y
  <2>1. SUFFICES ASSUME NEW v \in Nat, NEW x \in Int, NEW y \in Int, x <= y
                 PROVE  v * x <= v * y
    OBVIOUS
  <2>2. v * (y - x) >= 0
    BY <2>1
  <2>3. v * (y - x) = v * y - v * x
    OBVIOUS
  <2>4. QED
    BY <2>2, <2>3
<1>2. p.volume \in Nat /\ p.entry \in Int /\ p.direction \in Directions
  BY DEF BrokerPosition
<1>3. CASE p.direction = "BUY"
  <2>1. b - p.entry <= a - p.entry /\ a - p.entry \in Int /\ b - p.entry \in Int
    BY <1>2, <1>3 DEF Tighter
  <2>2. QED
    BY <1>1, <1>2, <1>3, <2>1 DEF Gain
<1>4. CASE p.direction # "BUY"
  <2>1. p.entry - b <= p.entry - a /\ p.entry - a \in Int /\ p.entry - b \in Int
    BY <1>2, <1>4 DEF Tighter
  <2>2. QED
    BY <1>1, <1>2, <1>4, <2>1 DEF Gain
<1>5. QED
  BY <1>3, <1>4

\* An order that fits the budget leaves the account at the floor or above when it is
\* stopped out.
LEMMA OrderIsCovered ==
    ASSUME TypeOK, Informed, FlatToEnter, step = "enter", WillEnter
    PROVE  /\ 1000 * (balance + AtStop(Ordered)) >= overall_floor
           /\ AtStop(Ordered) = Gain(Ordered, InitialStop)
           /\ 1000 * balance >= overall_floor
<1> DEFINE v == position_size(last.reach)
           r == last.reach
<1>1. r \in Nat \ {0} /\ price \in Int /\ last.close = price /\ equity \in Int /\ balance \in Int
  BY BarTypes DEF TypeOK, Informed
<1>2. v \in Nat
  BY <1>1, SizeType
<1>3. equity = balance
  <2>1. tries = 0 \/ tries > 0
    BY DEF TypeOK
  <2>2. QED
    BY <2>1 DEF Informed, FlatToEnter
<1>4. last.signal \in Directions
  BY OrderTypes DEF WillEnter
<1>5. 1000 * (v * r) <= 1000 * equity - overall_floor
  BY DEF WillEnter, WithinBudget
<1> HIDE DEF v, r
<1>6. /\ Ordered.volume = v /\ Ordered.direction = last.signal
      /\ Ordered.entry = price /\ Ordered.stop = InitialStop
  BY DEF Ordered, v, r
<1>7. InitialStop = IF last.signal = "BUY" THEN price - r ELSE price + r
  BY <1>1 DEF InitialStop, r
<1>8. (IF last.signal = "BUY" THEN InitialStop - price ELSE price - InitialStop) = -r
  BY <1>1, <1>4, <1>7 DEF Directions
<1>9. AtStop(Ordered) = v * (-r) /\ AtStop(Ordered) = Gain(Ordered, InitialStop)
  BY <1>6, <1>8 DEF AtStop, Gain
<1>10. v * (-r) = -(v * r) /\ v * r \in Int
  BY <1>1, <1>2
<1>11. 1000 * (balance + -(v * r)) >= overall_floor
  <2>1. \A x, e, f \in Int : 1000 * x <= 1000 * e - f => 1000 * (e + -x) >= f
    OBVIOUS
  <2>2. QED
    BY <1>1, <1>3, <1>5, <1>10, <2>1, FloorType
<1>12. 1000 * balance >= overall_floor
  BY <1>1, <1>3, FloorType DEF WillEnter, can_trade
<1>13. QED
  BY <1>9, <1>10, <1>11, <1>12

\* Every step keeps Informed.
LEMMA StepInformed ==
    ASSUME "drift" \notin Hazards, TypeOK, FlatToEnter, Informed, [Next]_vars
    PROVE  Informed'
<1>1. CASE NewBar
  BY <1>1 DEF NewBar, runner, order, Informed, FlatToEnter
<1>2. CASE Restart \/ Pass
  BY <1>2 DEF Restart, Pass, EndEntry, market, Informed
<1>3. CASE Begin
  <2>1. tries = 0 /\ tries' = 0
    BY <1>3 DEF Begin, order, FlatToEnter
  <2>2. CASE step' = "reconcile" /\ equity' = Equity
    <3>1. Open = {} => Equity = balance
      BY FloatingNone DEF Equity, TypeOK
    <3>2. Open' = Open /\ balance' = balance /\ price' = price /\ last' = last
      BY <1>3 DEF Begin, market, account, Open
    <3>3. QED
      BY <2>1, <2>2, <3>1, <3>2 DEF Informed
  <2>3. CASE step' = step /\ step = "idle"
    BY <1>3, <2>1, <2>3 DEF Begin, market, Informed
  <2>4. QED
    BY <1>3, <2>2, <2>3 DEF Begin
<1>4. CASE Reconcile \/ OnPositionClosed
  BY <1>4 DEF Reconcile, OnPositionClosed, market, account, order, Informed, FlatToEnter, Open
<1>5. CASE Trail
  BY <1>5 DEF Trail, market, order, Informed, FlatToEnter
<1>6. CASE Place
  BY <1>6 DEF Place, EndEntry, market, Informed
<1>7. CASE PlaceAgain
  <2>1. tries = 0 \/ tries > 0
    BY DEF TypeOK
  <2>2. Open = Sent /\ equity = balance
    BY <1>7, <2>1 DEF PlaceAgain, Sent, Informed, FlatToEnter
  <2>3. Open' = entry'
    <3>1. CASE OpensNone
      BY <2>2, <3>1 DEF OpensNone, Open
    <3>2. CASE \E t \in Tickets : Opens(t)
      <4>1. PICK t \in Tickets : Opens(t)
        BY <3>2
      <4>2. positions'[t].state = "open" /\ \A u \in Tickets \ {t} : positions'[u] = positions[u]
        BY <4>1 DEF Opens, Ordered, TypeOK
      <4>3. Open' = Open \cup {t}
        BY <4>2 DEF Open
      <4>4. QED
        BY <2>2, <4>1, <4>3 DEF Opens
    <3>3. QED
      BY <1>7, <3>1, <3>2 DEF PlaceAgain
  <2>4. \/ step' = "idle" /\ tries' = 0
        \/ UNCHANGED equity
    BY <1>7 DEF PlaceAgain, EndEntry
  <2>5. QED
    BY <1>7, <2>2, <2>3, <2>4 DEF PlaceAgain, market, Informed
<1>8. CASE UNCHANGED vars
  BY <1>8 DEF vars, market, account, runner, order, Informed, Open
<1>9. QED
  BY <1>1, <1>2, <1>3, <1>4, <1>5, <1>6, <1>7, <1>8 DEF Next, Drift

\* Every step keeps the account covered: each position of the entry, stopped out at
\* the stop of the broker or at the one the runner remembers, leaves it at or above
\* the floor.
LEMMA StepSecure ==
    ASSUME "drift" \notin Hazards, TypeOK, Remembering, FlatToEnter, Informed, Covered,
           FloorHeld, [Next]_vars
    PROVE  Covered' /\ FloorHeld'
<1>0. /\ \A t \in Tickets : positions[t] \in BrokerPosition /\ t # NoTicket
      /\ \A t \in Open : t \in Tickets
      /\ entry \subseteq Tickets /\ Open \subseteq entry
      /\ position \in Position /\ balance \in Int /\ Stake \in Int
  BY StakeType, ConstantsOK DEF ConstantsOK, TypeOK, Open, FlatToEnter
<1>f. overall_floor' = overall_floor /\ overall_floor \in Int
  BY FloorType DEF overall_floor
<1>1. ASSUME UNCHANGED <<account, entry>> PROVE Stake' = Stake /\ Open' = Open /\ FloorHeld'
  <2>1. Stake' = Stake /\ Open' = Open
    BY <1>1, StakeKept DEF account, Open
  <2>2. QED
    BY <1>1, <1>f, <2>1 DEF FloorHeld, account
<1>2. ASSUME UNCHANGED <<account, entry>>,
             \/ position'.id = NoTicket
             \/ /\ position'.id = position.id /\ position'.stop = position.stop
                /\ position'.direction = position.direction
      PROVE  Covered'
  BY <1>0, <1>1, <1>2, <1>f DEF Covered, account
<1>3. CASE NewBar
  <2>1. PICK high, low : StopOut(Hit(high, low))
    BY <1>3 DEF NewBar
  <2> DEFINE hit == Hit(high, low)
  <2>2. hit \in SUBSET Open /\ hit \in SUBSET Tickets
    BY DEF Hit, Open
  <2>3. StopOut(hit) /\ UNCHANGED <<position, entry>>
    BY <1>3, <2>1 DEF NewBar, runner, order
  <2> HIDE DEF hit
  <2>4. Stake' = Stake
    BY <2>2, <2>3, StakeStoppedOut
  <2>5. /\ Open' = Open \ hit
        /\ \A t \in Tickets \ hit : positions'[t] = positions[t]
        /\ \A t \in Tickets : AtStop(positions'[t]) = AtStop(positions[t])
    BY <2>2, <2>3, StopOutKeeps DEF AtStop, Gain
  <2>6. ASSUME entry = {} PROVE balance' = balance
    <3>1. hit = {}
      BY <1>0, <2>2, <2>6
    <3>2. balance' = balance + Stopped({})
      BY <2>3, <3>1 DEF StopOut
    <3>3. QED
      BY <1>0, <3>2, StoppedNone
  <2>7. FloorHeld'
    BY <1>0, <1>f, <2>3, <2>4, <2>5, <2>6 DEF FloorHeld
  <2>8. Covered'
    BY <1>0, <1>f, <2>3, <2>4, <2>5 DEF Covered
  <2>9. QED
    BY <2>7, <2>8
<1>4. CASE Restart \/ OnPositionClosed
  <2>1. UNCHANGED <<account, entry>> /\ position'.id = NoTicket
    BY <1>4 DEF Restart, OnPositionClosed, order, NoPosition
  <2>2. QED
    BY <1>1, <1>2, <2>1
<1>5. CASE Begin \/ Pass \/ UNCHANGED vars
  <2>1. UNCHANGED <<account, entry, position>>
    BY <1>5 DEF Begin, Pass, vars, runner, order
  <2>2. QED
    BY <1>1, <1>2, <2>1
<1>6. CASE Reconcile
  <2>1. UNCHANGED <<account, entry>>
    BY <1>6 DEF Reconcile, order
  <2>2. ASSUME NEW t \in Open, position' = Adopted(t) PROVE Covered'
    <3>1. /\ position'.id = t /\ position'.direction = positions[t].direction
          /\ position'.stop = positions[t].stop
      BY <2>2 DEF Adopted
    <3>2. 1000 * (Stake + Gain(positions[t], positions[t].stop)) >= overall_floor
      BY <1>0, <2>2 DEF FloorHeld, AtStop
    <3>3. QED
      BY <1>1, <1>f, <2>1, <3>1, <3>2 DEF Covered, account
  <2>3. QED
    BY <1>1, <1>2, <1>6, <2>1, <2>2 DEF Reconcile
<1>7. CASE Trail
  <2> DEFINE new == chandelier_trail
             id == position.id
  <2>1. new \in Int /\ (new # position.stop => Tighter(position.direction, new, position.stop))
    BY TrailTypes
  <2> HIDE DEF new
  <2>2. UNCHANGED <<balance, entry>> /\ position.stop \in Int
    BY <1>0, <1>7 DEF Trail, order, Position
  <2>3. ASSUME id \in Open PROVE /\ 1000 * (Stake + Gain(positions[id], new)) >= overall_floor
                                 /\ 1000 * (Stake + Gain(positions[id], position.stop)) >= overall_floor
    <3>1. /\ positions[id].direction = position.direction
          /\ 1000 * (Stake + Gain(positions[id], position.stop)) >= overall_floor
      BY <2>3 DEF Covered
    <3>2. positions[id] \in BrokerPosition
      BY <1>0, <2>3
    <3>3. Gain(positions[id], position.stop) <= Gain(positions[id], new)
      BY <2>1, <2>2, <3>1, <3>2, TighterGains
    <3>4. Gain(positions[id], position.stop) \in Int /\ Gain(positions[id], new) \in Int
      BY <2>1, <2>2, <3>2, GainType
    <3>5. QED
      BY <1>0, <3>1, <3>3, <3>4, FloorType
  <2>4. position' \in {[position EXCEPT !.extreme = Extreme],
                       [position EXCEPT !.extreme = Extreme, !.stop = new]}
    BY <1>7 DEF Trail, new
  <2>5. /\ position'.id = id /\ position'.direction = position.direction
        /\ position'.stop = position.stop \/ position'.stop = new
    BY <1>0, <2>4 DEF Position
  <2>6. CASE UNCHANGED positions
    <3>1. UNCHANGED <<account, entry>>
      BY <2>2, <2>6 DEF account
    <3>2. Covered'
      BY <1>1, <1>f, <2>2, <2>3, <2>5, <2>6, <3>1 DEF Covered
    <3>3. QED
      BY <1>1, <3>1, <3>2
  <2>7. CASE id \in Open /\ positions' = [positions EXCEPT ![id].stop = new]
    <3>1. id \in Tickets /\ positions[id] \in BrokerPosition
      BY <1>0, <2>7
    <3>2. positions' = [positions EXCEPT ![id] = [positions[id] EXCEPT !.stop = new]]
      BY <2>7
    <3>3. /\ positions'[id].stop = new /\ positions'[id].direction = positions[id].direction
          /\ positions'[id].state = positions[id].state /\ positions'[id].entry = positions[id].entry
          /\ positions'[id].volume = positions[id].volume
          /\ \A t \in Tickets \ {id} : positions'[t] = positions[t]
      BY <3>1, <3>2 DEF TypeOK, BrokerPosition
    <3>4. Open' = Open
      BY <2>7, <3>3 DEF Open
    <3>5. Stake' = Stake
      BY <1>0, <2>2, <2>7, <3>3, <3>4, StakeKept
    <3>6. /\ Gain(positions'[id], new) = Gain(positions[id], new)
          /\ Gain(positions'[id], position.stop) = Gain(positions[id], position.stop)
      BY <3>3 DEF Gain
    <3>7. AtStop(positions'[id]) = Gain(positions[id], new)
      BY <3>3, <3>6 DEF AtStop
    <3>8. \A t \in entry : 1000 * (Stake + AtStop(positions'[t])) >= overall_floor
      BY <1>0, <2>3, <2>7, <3>3, <3>7 DEF FloorHeld
    <3>9. FloorHeld'
      BY <1>0, <1>f, <2>2, <2>7, <3>5, <3>8 DEF FloorHeld
    <3>10. positions[id].direction = position.direction
      BY <2>7 DEF Covered
    <3>11. Covered'
      BY <1>f, <2>2, <2>3, <2>5, <2>7, <3>3, <3>4, <3>5, <3>6, <3>10 DEF Covered
    <3>12. QED
      BY <3>9, <3>11
  <2>8. QED
    BY <1>7, <2>6, <2>7 DEF Trail, new
<1>8. CASE Place \/ PlaceAgain
  <2>1. step = "enter" /\ WillEnter /\ balance' = balance
    BY <1>8 DEF Place, PlaceAgain
  <2>2. /\ 1000 * (balance + AtStop(Ordered)) >= overall_floor
        /\ AtStop(Ordered) = Gain(Ordered, InitialStop)
        /\ 1000 * balance >= overall_floor
    BY <2>1, OrderIsCovered
  <2>3. position.id = NoTicket
    BY <2>1 DEF Remembering, InTrade
  <2>4. Sent \subseteq Open /\ Sent \subseteq entry /\ (Sent # {} => Stake = balance)
    <3>1. CASE tries = 0
      BY <3>1 DEF Sent
    <3>2. CASE tries # 0
      <4>1. Sent = entry /\ Open = entry
        BY <3>2 DEF Sent, Informed, TypeOK
      <4>2. entry \ Open = {}
        BY <4>1
      <4>3. Stake = balance
        BY <1>0, <4>2, StoppedNone DEF Stake
      <4>4. QED
        BY <4>1, <4>3
    <3>3. QED
      BY <3>1, <3>2
  <2>5. \A t \in Sent : 1000 * (balance + AtStop(positions[t])) >= overall_floor
    BY <2>4 DEF FloorHeld
  <2>6. CASE OpensNone
    <3>1. entry' = Sent /\ Open' = Open /\ UNCHANGED <<balance, positions>>
      BY <2>1, <2>6 DEF OpensNone, Open
    <3>2. Stake' = balance
      BY <1>0, <2>1, <2>4, <3>1, StakeFresh
    <3>3. FloorHeld'
      BY <1>f, <2>2, <2>5, <3>1, <3>2 DEF FloorHeld
    <3>4. \A t \in Tickets : ~Opens(t)
      BY <3>1 DEF Opens, Ordered, TypeOK
    <3>5. position' = position
      BY <1>8, <3>4 DEF Place, PlaceAgain
    <3>6. Covered'
      BY <1>0, <2>3, <3>1, <3>5 DEF Covered
    <3>7. QED
      BY <3>3, <3>6
  <2>7. ASSUME NEW t \in Tickets, Opens(t) PROVE Covered' /\ FloorHeld'
    <3>1. positions'[t] = Ordered /\ \A u \in Tickets \ {t} : positions'[u] = positions[u]
      BY <2>7 DEF Opens, TypeOK
    <3>2. Open' = Open \cup {t} /\ t \notin Open /\ entry' = Sent \cup {t}
      BY <2>7, <3>1 DEF Opens, Open, Ordered
    <3>3. Stake' = balance
      BY <1>0, <2>1, <2>4, <3>2, StakeFresh
    <3>4. \A u \in entry' : 1000 * (balance + AtStop(positions'[u])) >= overall_floor
      BY <1>0, <2>2, <2>4, <2>5, <3>1, <3>2
    <3>5. FloorHeld'
      BY <1>f, <3>2, <3>3, <3>4 DEF FloorHeld
    <3>6. \/ position' = position
          \/ \E u \in Tickets : /\ Opens(u) /\ position'.id = u
                                /\ position'.direction = last.signal /\ position'.stop = InitialStop
      BY <1>8 DEF Place, PlaceAgain
    <3>7. \A u \in Tickets : Opens(u) => u = t
      BY <3>1, <3>2 DEF Opens, Ordered, Open, TypeOK
    <3>8. Ordered.direction = last.signal
      BY DEF Ordered
    <3>9. Covered'
      BY <1>0, <1>f, <2>2, <2>3, <3>1, <3>2, <3>3, <3>6, <3>7, <3>8 DEF Covered
    <3>10. QED
      BY <3>5, <3>9
  <2>8. QED
    BY <1>8, <2>6, <2>7 DEF Place, PlaceAgain
<1>9. QED
  BY <1>3, <1>4, <1>5, <1>6, <1>7, <1>8 DEF Next, Drift

\* No admitted trade can fail the challenge by itself: with any one position of the
\* last entry stopped out at its stop, and without what other copies of the order
\* have brought, the account is at or above the overall floor.  The runner must be
\* able to read its positions, and the price it reads must be the one it trades at
\* (ChallengeGuard.risk_budget, Runner._maybe_enter); requests may be refused or go
\* unanswered, orders be repeated, and the process restarted at any point.
THEOREM FloorHolds ==
    ASSUME "unreadable" \notin Hazards, "drift" \notin Hazards
    PROVE  Spec => []FloorHeld
<1> DEFINE Inv == Informed /\ Covered /\ FloorHeld
<1>1. Init => Inv
  <2>1. SUFFICES ASSUME Init PROVE Inv
    OBVIOUS
  <2>2. Open = {} /\ entry = {}
    BY <2>1 DEF Init, Open, NoBrokerPosition
  <2>3. Informed
    BY <2>1, <2>2 DEF Init, Informed
  <2>4. FloorHeld
    BY <2>1, <2>2, FloorType DEF Init, FloorHeld
  <2>5. QED
    BY <2>2, <2>3, <2>4 DEF Covered
<1>2. TypeOK /\ Remembering /\ FlatToEnter /\ Inv /\ [Next]_vars => Inv'
  BY StepInformed, StepSecure
<1>3. Inv => FloorHeld
  OBVIOUS
<1> HIDE DEF Inv
<1>4. QED
  BY <1>1, <1>2, <1>3, TypeCorrect, RememberingHolds, FlatToEnterHolds, PTL DEF Spec
=============================================================================
