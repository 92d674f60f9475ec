-------------------------------- MODULE Facts --------------------------------
(***************************************************************************)
(* What the proofs need to know of queues, sequences that grow at the end  *)
(* and are taken from at the head, of extreme elements (the least number   *)
(* of a set, the greatest of a bounded one) and of finite sums.            *)
(***************************************************************************)
EXTENDS Integers, FiniteSets, SequencesExt, FiniteSetTheorems, WellFoundedInduction, TLAPS

\* Appending to a queue.
LEMMA AppendFacts ==
  ASSUME NEW S, NEW s \in Seq(S), NEW e \in S
  PROVE  /\ Append(s, e) \in Seq(S) /\ Len(Append(s, e)) = Len(s) + 1
         /\ DOMAIN Append(s, e) = DOMAIN s \cup {Len(s) + 1}
         /\ \A i \in DOMAIN s : Append(s, e)[i] = s[i]
         /\ Append(s, e)[Len(s) + 1] = e
         /\ ToSet(Append(s, e)) = ToSet(s) \cup {e}
<1>1. /\ Append(s, e) \in Seq(S) /\ Len(Append(s, e)) = Len(s) + 1
      /\ Len(s) \in Nat /\ DOMAIN s = 1..Len(s)
      /\ \A i \in 1..Len(s) : Append(s, e)[i] = s[i]
      /\ Append(s, e)[Len(s) + 1] = e
  OBVIOUS
<1>2. DOMAIN Append(s, e) = 1..(Len(s) + 1)
  BY <1>1
<1>3. DOMAIN Append(s, e) = DOMAIN s \cup {Len(s) + 1}
  BY <1>1, <1>2
<1>4. ToSet(Append(s, e)) = ToSet(s) \cup {e}
  BY <1>1, <1>3 DEF ToSet
<1> QED
  BY <1>1, <1>3, <1>4

\* Taking the head of a queue.
LEMMA TailFacts ==
  ASSUME NEW S, NEW s \in Seq(S), s # << >>
  PROVE  /\ Tail(s) \in Seq(S) /\ Len(Tail(s)) = Len(s) - 1 /\ Len(s) \in Nat \ {0}
         /\ \A i \in DOMAIN Tail(s) : i + 1 \in DOMAIN s /\ Tail(s)[i] = s[i + 1]
         /\ 1 \in DOMAIN s /\ Head(s) = s[1] /\ Head(s) \in S
         /\ DOMAIN Tail(s) \subseteq Nat \ {0}
         /\ ToSet(Tail(s)) \subseteq ToSet(s) /\ Head(s) \in ToSet(s)
<1>1. /\ Tail(s) \in Seq(S) /\ Len(Tail(s)) = Len(s) - 1 /\ Len(s) \in Nat \ {0}
      /\ \A i \in 1..(Len(s) - 1) : Tail(s)[i] = s[i + 1]
      /\ DOMAIN s = 1..Len(s) /\ Head(s) = s[1] /\ Head(s) \in S
  OBVIOUS
<1>2. DOMAIN Tail(s) = 1..(Len(s) - 1)
  BY <1>1
<1>3. \A i \in DOMAIN Tail(s) : i + 1 \in DOMAIN s /\ Tail(s)[i] = s[i + 1]
  BY <1>1, <1>2
<1>4. ToSet(Tail(s)) \subseteq ToSet(s) /\ Head(s) \in ToSet(s)
  BY <1>1, <1>3 DEF ToSet
<1> QED
  BY <1>1, <1>2, <1>3, <1>4

-----------------------------------------------------------------------------
(* Extreme elements.                                                       *)

\* A family of subsets of a finite set has a smallest member: none is
\* strictly below it.
LEMMA SmallestOf ==
  ASSUME NEW S, IsFiniteSet(S), NEW F \in SUBSET SUBSET S, F # {}
  PROVE  \E x \in F : \A y \in F : <<y, x>> \notin StrictSubsetOrdering(S)
<1>1. IsWellFoundedOn(StrictSubsetOrdering(S), SUBSET S)
  BY FS_StrictSubsetOrderingWellFounded, FS_FiniteSubsetsOfFinite
<1> QED
  BY <1>1, WFMin

\* A set of natural numbers has a least element.
LEMMA LeastNat ==
  ASSUME NEW S \in SUBSET Nat, S # {}
  PROVE  \E n \in S : \A m \in S : n <= m
<1>1. PICK k \in S : TRUE
  OBVIOUS
<1> DEFINE F == {0 .. m : m \in S \cap (0 .. k)}
<1>2. IsFiniteSet(0 .. k)
  BY FS_Interval
<1>3. F \in SUBSET SUBSET (0 .. k) /\ 0 .. k \in F
  OBVIOUS
<1>4. PICK x \in F : \A y \in F : <<y, x>> \notin StrictSubsetOrdering(0 .. k)
  <2>1. F # {}
    BY <1>3
  <2> HIDE DEF F
  <2> QED
    BY <1>2, <1>3, <2>1, SmallestOf
<1>5. PICK n \in S \cap (0 .. k) : x = 0 .. n
  BY <1>4
<1>6. ASSUME NEW m \in S, ~(n <= m) PROVE FALSE
  <2>1. m \in S \cap (0 .. k) /\ 0 .. m \in F
    BY <1>5, <1>6
  <2>2. 0 .. m \subseteq 0 .. n /\ n \in 0 .. n /\ n \notin 0 .. m
    BY <1>5, <1>6
  <2>3. 0 .. m # 0 .. n
    BY <2>2
  <2>4. <<0 .. m, 0 .. n>> \in StrictSubsetOrdering(0 .. k)
    BY <1>3, <1>5, <2>1, <2>2, <2>3 DEF StrictSubsetOrdering
  <2> QED
    BY <1>4, <1>5, <2>1, <2>4
<1> QED
  BY <1>5, <1>6

\* A function with natural values is least somewhere.
LEMMA LeastAt ==
  ASSUME NEW S, S # {}, NEW f \in [S -> Nat]
  PROVE  \E x \in S : \A y \in S : f[x] <= f[y]
<1> DEFINE V == {f[x] : x \in S}
<1>1. V \in SUBSET Nat /\ V # {}
  OBVIOUS
<1>2. \E n \in V : \A m \in V : n <= m
  <2> HIDE DEF V
  <2> QED
    BY <1>1, LeastNat
<1> QED
  BY <1>2

\* A bounded set of natural numbers has a greatest element.
LEMMA GreatestNat ==
  ASSUME NEW S \in SUBSET Nat, S # {}, NEW b \in Nat, \A m \in S : m <= b
  PROVE  \E n \in S : \A m \in S : m <= n
<1> DEFINE D == {b - m : m \in S}
<1>1. D \in SUBSET Nat /\ D # {}
  <2>1. \A m \in S : m \in Nat /\ b - m \in Nat
    OBVIOUS
  <2>2. PICK m \in S : TRUE
    OBVIOUS
  <2> QED
    BY <2>1, <2>2
<1>2. PICK d \in D : \A e \in D : d <= e
  BY <1>1, LeastNat
<1>3. PICK n \in S : d = b - n
  BY <1>2
<1>4. \A m \in S : b - n <= b - m
  BY <1>2, <1>3
<1> QED
  BY <1>3, <1>4

\* A function with integer values is greatest somewhere on a finite set.
LEMMA GreatestAt ==
  ASSUME NEW S, IsFiniteSet(S), S # {}, NEW f \in [S -> Int]
  PROVE  \E x \in S : \A y \in S : f[y] <= f[x]
<1> DEFINE Above(x) == {y \in S : f[y] > f[x]}
           F == {Above(x) : x \in S}
<1>1. F \in SUBSET SUBSET S /\ F # {}
  <2>1. \A x : Above(x) \in SUBSET S
    OBVIOUS
  <2> HIDE DEF Above
  <2> QED
    BY <2>1
<1>2. PICK x \in S : \A y \in F : <<y, Above(x)>> \notin StrictSubsetOrdering(S)
  <2>1. \E a \in F : \A y \in F : <<y, a>> \notin StrictSubsetOrdering(S)
    <3> HIDE DEF F
    <3> QED
      BY <1>1, SmallestOf
  <2> QED
    BY <2>1
<1>3. ASSUME NEW y \in S, ~(f[y] <= f[x]) PROVE FALSE
  <2>1. f[y] \in Int /\ f[x] \in Int /\ f[y] > f[x] /\ \A z \in S : f[z] \in Int
    BY <1>3
  <2>2. Above(y) \subseteq Above(x) /\ y \in Above(x) /\ y \notin Above(y)
    BY <2>1
  <2>3. Above(y) \in SUBSET S /\ Above(x) \in SUBSET S /\ Above(y) # Above(x)
    BY <2>2
  <2>4. <<Above(y), Above(x)>> \in StrictSubsetOrdering(S)
    <3> HIDE DEF Above
    <3> QED
      BY <2>2, <2>3 DEF StrictSubsetOrdering
  <2>5. Above(y) \in F
    OBVIOUS
  <2> QED
    BY <1>2, <2>4, <2>5
<1> QED
  BY <1>3

-----------------------------------------------------------------------------
(* Sums.                                                                   *)

\* The recursion by which SumFunctionOnSet adds up the values of f on S.
Sums(f, S, g) ==
  g = [s \in SUBSET S |->
         IF s = {} THEN 0 ELSE f[CHOOSE x \in s : TRUE] + g[s \ {CHOOSE x \in s : TRUE}]]

\* What two such recursions say of the same set is the same.
LEMMA SumsAgree ==
  ASSUME NEW f, NEW S, NEW T, NEW g, NEW h, Sums(f, S, g), Sums(f, T, h),
         NEW U, IsFiniteSet(U), U \subseteq S, U \subseteq T
  PROVE  g[U] = h[U]
<1> DEFINE F == {s \in SUBSET U : g[s] # h[s]}
<1>1. SUFFICES ASSUME F # {} PROVE FALSE
  OBVIOUS
<1>2. PICK s \in F : \A t \in F : <<t, s>> \notin StrictSubsetOrdering(U)
  <2>1. F \in SUBSET SUBSET U
    OBVIOUS
  <2> HIDE DEF F
  <2> QED
    BY <1>1, <2>1, SmallestOf
<1> DEFINE c == CHOOSE x \in s : TRUE
<1>3. /\ \A t \in SUBSET S : g[t] = IF t = {} THEN 0
                                    ELSE f[CHOOSE x \in t : TRUE] + g[t \ {CHOOSE x \in t : TRUE}]
      /\ \A t \in SUBSET T : h[t] = IF t = {} THEN 0
                                    ELSE f[CHOOSE x \in t : TRUE] + h[t \ {CHOOSE x \in t : TRUE}]
  BY DEF Sums
<1>4. s \in SUBSET S /\ s \in SUBSET T /\ s \in SUBSET U /\ g[s] # h[s]
  BY <1>2
<1>5. s # {} /\ c \in s /\ g[s] = f[c] + g[s \ {c}] /\ h[s] = f[c] + h[s \ {c}]
  BY <1>3, <1>4
<1> HIDE DEF c
<1>6. g[s \ {c}] = h[s \ {c}]
  <2>1. <<s \ {c}, s>> \in StrictSubsetOrdering(U)
    BY <1>4, <1>5 DEF StrictSubsetOrdering
  <2>2. s \ {c} \notin F
    <3> HIDE DEF F
    <3> QED
      BY <1>2, <2>1
  <2> QED
    BY <1>4, <2>2
<1> QED
  BY <1>4, <1>5, <1>6

\* A finite set has such a recursion.
LEMMA SumsExist ==
  ASSUME NEW f, NEW S, IsFiniteSet(S)
  PROVE  \E g : Sums(f, S, g)
<1> DEFINE F == {s \in SUBSET S : ~\E g : Sums(f, s, g)}
           H(s) == CHOOSE g : Sums(f, s, g)
<1>1. SUFFICES ASSUME F # {} PROVE FALSE
  <2> HIDE DEF F
  <2>1. S \notin F
    BY <1>1
  <2> QED
    BY <2>1 DEF F
<1>2. PICK m \in F : \A t \in F : <<t, m>> \notin StrictSubsetOrdering(S)
  <2>1. F \in SUBSET SUBSET S
    OBVIOUS
  <2> HIDE DEF F
  <2> QED
    BY <1>1, <2>1, SmallestOf
<1>3. m \in SUBSET S /\ ~\E g : Sums(f, m, g)
  BY <1>2
<1>4. ASSUME NEW t \in SUBSET m, t # m
      PROVE  Sums(f, t, H(t)) /\ IsFiniteSet(t)
  <2>1. <<t, m>> \in StrictSubsetOrdering(S)
    BY <1>3, <1>4 DEF StrictSubsetOrdering
  <2>2. t \notin F /\ t \in SUBSET S
    <3> HIDE DEF F
    <3> QED
      BY <1>2, <1>3, <2>1
  <2>3. \E g : Sums(f, t, g)
    BY <2>2
  <2>4. IsFiniteSet(t)
    BY <2>2, FS_Subset
  <2> QED
    BY <2>3, <2>4
<1> HIDE DEF H
<1> DEFINE c(t) == CHOOSE x \in t : TRUE
           V(t) == H(t)[t]
           step(t, r) == IF t = {} THEN 0 ELSE f[c(t)] + r
           g == [t \in SUBSET m |-> step(t, V(t \ {c(t)}))]
<1>5. ASSUME NEW t \in SUBSET m, t # m
      PROVE  V(t) = step(t, V(t \ {c(t)}))
  <2>1. H(t)[t] = IF t = {} THEN 0 ELSE f[c(t)] + H(t)[t \ {c(t)}]
    BY <1>4, <1>5 DEF Sums
  <2>2. CASE t # {}
    <3> DEFINE u == t \ {c(t)}
    <3>1. c(t) \in t
      BY <2>2
    <3>2. u \in SUBSET m /\ u # m /\ u \subseteq t
      BY <1>5, <3>1
    <3>3. Sums(f, t, H(t)) /\ Sums(f, u, H(u)) /\ IsFiniteSet(u)
      <4> HIDE DEF u
      <4> QED
        BY <1>4, <1>5, <3>2
    <3>4. H(t)[u] = H(u)[u]
      <4> HIDE DEF u
      <4> QED
        BY <3>2, <3>3, SumsAgree
    <3> QED
      BY <2>1, <2>2, <3>4
  <2>3. CASE t = {}
    BY <2>1, <2>3
  <2> QED
    BY <2>2, <2>3
<1>6. ASSUME NEW t \in SUBSET m
      PROVE  g[t] = step(t, g[t \ {c(t)}])
  <2>1. CASE t = {}
    BY <2>1
  <2>2. CASE t # {}
    <3> DEFINE u == t \ {c(t)}
    <3>1. c(t) \in t
      BY <2>2
    <3>2. u \in SUBSET m /\ u # m
      BY <1>6, <3>1
    <3>3. V(u) = step(u, V(u \ {c(u)})) /\ g[u] = step(u, V(u \ {c(u)}))
      <4> HIDE DEF u, V, step
      <4> QED
        BY <1>5, <3>2
    <3>4. g[t] = step(t, V(u))
      <4> HIDE DEF V, step, c
      <4> QED
        BY <1>6
    <3> HIDE DEF u, V, step, g, c
    <3> QED
      BY <3>3, <3>4 DEF u
  <2> QED
    BY <2>1, <2>2
<1>7. Sums(f, m, g)
  <2>1. DOMAIN g = SUBSET m
    OBVIOUS
  <2>2. g = [t \in SUBSET m |-> g[t]]
    OBVIOUS
  <2>3. g = [t \in SUBSET m |-> step(t, g[t \ {c(t)}])]
    <3> HIDE DEF g, step, c
    <3> QED
      BY <1>6, <2>2
  <2> HIDE DEF g
  <2> QED
    BY <2>3 DEF Sums
<1> QED
  BY <1>3, <1>7

\* A sum takes an element off, and goes on.
LEMMA SumStep ==
  ASSUME NEW f, NEW S, IsFiniteSet(S)
  PROVE  /\ S = {} => SumFunctionOnSet(f, S) = 0
         /\ S # {} => SumFunctionOnSet(f, S)
                        = f[CHOOSE x \in S : TRUE] + SumFunctionOnSet(f, S \ {CHOOSE x \in S : TRUE})
<1> DEFINE G(T) == CHOOSE g : Sums(f, T, g)
           c == CHOOSE x \in S : TRUE
<1>1. ASSUME NEW T
      PROVE  SumFunctionOnSet(f, T) = G(T)[T]
  BY DEF SumFunctionOnSet, FoldFunctionOnSet, MapThenFoldSet, Sums
<1>2. ASSUME NEW T, IsFiniteSet(T)
      PROVE  Sums(f, T, G(T))
  <2>1. \E g : Sums(f, T, g)
    BY <1>2, SumsExist
  <2> QED
    BY <2>1
<1> HIDE DEF G
<1>3. G(S)[S] = IF S = {} THEN 0 ELSE f[c] + G(S)[S \ {c}]
  BY <1>2 DEF Sums
<1>4. ASSUME S # {}
      PROVE  G(S)[S \ {c}] = G(S \ {c})[S \ {c}]
  <2>1. IsFiniteSet(S \ {c})
    BY FS_RemoveElement
  <2> HIDE DEF c
  <2>2. Sums(f, S, G(S)) /\ Sums(f, S \ {c}, G(S \ {c}))
    BY <1>2, <2>1
  <2> QED
    BY <2>1, <2>2, SumsAgree
<1> HIDE DEF c
<1> QED
  BY <1>1, <1>3, <1>4 DEF c

\* A finite sum of integers is one, and it does not matter in which order it
\* is added up: any element may be the one that is added to the others.
LEMMA SumAdds ==
  ASSUME NEW f, NEW S, IsFiniteSet(S), \A x \in S : f[x] \in Int
  PROVE  /\ SumFunctionOnSet(f, S) \in Int
         /\ \A x \in S : SumFunctionOnSet(f, S) = f[x] + SumFunctionOnSet(f, S \ {x})
<1> DEFINE V(T) == SumFunctionOnSet(f, T)
           Good(T) == V(T) \in Int /\ \A x \in T : V(T) = f[x] + V(T \ {x})
           F == {T \in SUBSET S : ~Good(T)}
<1>1. SUFFICES ASSUME F # {} PROVE FALSE
  <2> HIDE DEF F
  <2>1. S \notin F
    BY <1>1
  <2> QED
    BY <2>1 DEF F
<1>2. PICK T \in F : \A U \in F : <<U, T>> \notin StrictSubsetOrdering(S)
  <2>1. F \in SUBSET SUBSET S
    OBVIOUS
  <2> HIDE DEF F
  <2> QED
    BY <1>1, <2>1, SmallestOf
<1> HIDE DEF V
<1>3. T \in SUBSET S /\ ~Good(T)
  BY <1>2
<1>4. ASSUME NEW U \in SUBSET T, U # T
      PROVE  Good(U)
  <2>1. <<U, T>> \in StrictSubsetOrdering(S)
    BY <1>3, <1>4 DEF StrictSubsetOrdering
  <2>2. U \notin F /\ U \in SUBSET S
    <3> HIDE DEF F
    <3> QED
      BY <1>2, <1>3, <2>1
  <2> QED
    BY <2>2
<1>5. IsFiniteSet(T)
  BY <1>3, FS_Subset
<1> DEFINE c == CHOOSE x \in T : TRUE
<1>6. CASE T = {}
  <2>1. V(T) = 0
    BY <1>5, <1>6, SumStep DEF V
  <2> QED
    BY <1>3, <1>6, <2>1
<1>7. CASE T # {}
  <2>1. c \in T /\ V(T) = f[c] + V(T \ {c})
    BY <1>5, <1>7, SumStep DEF V
  <2> HIDE DEF c
  <2>2. Good(T \ {c}) /\ f[c] \in Int
    BY <1>3, <1>4, <2>1
  <2>3. V(T) \in Int
    BY <2>1, <2>2
  <2>4. ASSUME NEW x \in T
        PROVE  V(T) = f[x] + V(T \ {x})
    <3>1. CASE x = c
      BY <2>1, <3>1
    <3>2. CASE x # c
      <4> DEFINE U == (T \ {c}) \ {x}
      <4>1. U = (T \ {x}) \ {c} /\ x \in T \ {c} /\ c \in T \ {x}
        BY <2>1, <3>2
      <4>2. Good(T \ {x}) /\ Good(U) /\ f[x] \in Int
        <5>1. T \ {x} # T /\ U # T /\ U \in SUBSET T
          BY <2>1
        <5> HIDE DEF U, Good
        <5> QED
          BY <1>3, <1>4, <5>1
      <4>3. V(T \ {c}) = f[x] + V(U)
        BY <2>2, <4>1
      <4>4. V(T \ {x}) = f[c] + V(U)
        BY <4>1, <4>2
      <4>5. V(U) \in Int
        BY <4>2
      <4> HIDE DEF U
      <4> QED
        BY <2>1, <2>2, <4>2, <4>3, <4>4, <4>5
    <3> QED
      BY <3>1, <3>2
  <2> QED
    BY <1>3, <2>3, <2>4
<1> QED
  BY <1>6, <1>7

\* A sum over one more element.
LEMMA SumOneMore ==
  ASSUME NEW f, NEW S, IsFiniteSet(S), NEW y, y \notin S, \A x \in S \cup {y} : f[x] \in Int
  PROVE  /\ SumFunctionOnSet(f, S \cup {y}) = f[y] + SumFunctionOnSet(f, S)
         /\ SumFunctionOnSet(f, S) \in Int
<1>1. IsFiniteSet(S \cup {y}) /\ (S \cup {y}) \ {y} = S
  BY FS_AddElement
<1> DEFINE T == S \cup {y}
<1>2. y \in T /\ \A x \in T : f[x] \in Int
  OBVIOUS
<1> HIDE DEF T
<1>3. SumFunctionOnSet(f, T) = f[y] + SumFunctionOnSet(f, T \ {y})
  BY <1>1, <1>2, SumAdds DEF T
<1> QED
  BY <1>1, <1>3, SumAdds DEF T

\* No sum over the empty set, and the sum depends on the values only.
LEMMA SumSame ==
  ASSUME NEW f, NEW g, NEW S, IsFiniteSet(S), \A x \in S : f[x] = g[x]
  PROVE  SumFunctionOnSet(f, S) = SumFunctionOnSet(g, S)
<1> DEFINE F == {T \in SUBSET S : SumFunctionOnSet(f, T) # SumFunctionOnSet(g, T)}
<1>1. SUFFICES ASSUME F # {} PROVE FALSE
  <2> HIDE DEF F
  <2>1. S \notin F
    BY <1>1
  <2> QED
    BY <2>1 DEF F
<1>2. PICK T \in F : \A U \in F : <<U, T>> \notin StrictSubsetOrdering(S)
  <2>1. F \in SUBSET SUBSET S
    OBVIOUS
  <2> HIDE DEF F
  <2> QED
    BY <1>1, <2>1, SmallestOf
<1>3. T \in SUBSET S /\ SumFunctionOnSet(f, T) # SumFunctionOnSet(g, T) /\ IsFiniteSet(T)
  BY <1>2, FS_Subset
<1> DEFINE c == CHOOSE x \in T : TRUE
<1>4. T # {} /\ c \in T
  BY <1>3, SumStep
<1>5. /\ SumFunctionOnSet(f, T) = f[c] + SumFunctionOnSet(f, T \ {c})
      /\ SumFunctionOnSet(g, T) = g[c] + SumFunctionOnSet(g, T \ {c})
  BY <1>3, <1>4, SumStep
<1> HIDE DEF c
<1>6. <<T \ {c}, T>> \in StrictSubsetOrdering(S)
  BY <1>3, <1>4 DEF StrictSubsetOrdering
<1>7. T \ {c} \notin F /\ T \ {c} \in SUBSET S
  <2> HIDE DEF F
  <2> QED
    BY <1>2, <1>3, <1>6
<1> QED
  BY <1>3, <1>4, <1>5, <1>7
=============================================================================
