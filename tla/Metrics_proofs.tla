--------------------------- MODULE Metrics_proofs ---------------------------
(***************************************************************************)
(* What is read of the floor, for every floor and every window of time: an *)
(* order or a work with what is shown below it, the report, and the        *)
(* history of a machine.                                                   *)
(***************************************************************************)
EXTENDS Metrics, Floor_proofs, FiniteSetTheorems

-----------------------------------------------------------------------------
(***************************************************************************)
(* Sums over finite sets.  Induction is over the number of elements: of    *)
(* what a statement fails for, there would be a smallest.                  *)
(***************************************************************************)
\* Numbers have a least one: what stands in for induction below.
LEMMA LeastNumber ==
  ASSUME NEW T \in SUBSET Nat, T # {}
  PROVE  \E x \in T : \A y \in T : x <= y
<1> DEFINE R == OpToRel(<, Nat)
<1>1. IsWellFoundedOn(R, Nat)
  BY NatLessThanWellFounded
<1>2. \A i, j \in Nat : i < j => <<i, j>> \in R
  BY DEF OpToRel
<1>. HIDE DEF R
<1>3. PICK x \in T : \A y \in T : ~ (<<y, x>> \in R)
  BY <1>1, WFMin
<1>4. \A y \in T : y \in Nat /\ x \in Nat /\ ~(y < x)
  BY <1>2, <1>3
<1>. QED
  BY <1>4

\* Of finite sets one is the smallest.
LEMMA SmallestSet ==
  ASSUME NEW U, U # {}, \A s \in U : IsFiniteSet(s)
  PROVE  \E s \in U : \A t \in U : Cardinality(s) <= Cardinality(t)
<1>. DEFINE C == {Cardinality(s) : s \in U}
<1>1. C \in SUBSET Nat /\ C # {}
  BY FS_CardinalityType
<1>2. PICK n \in C : \A k \in C : n <= k
  <2>. HIDE DEF C
  <2>. QED
    BY <1>1, LeastNumber
<1>. QED
  BY <1>2

\* What holds of the empty set and goes on holding as elements are added holds of
\* a finite set.
LEMMA SetInduction ==
  ASSUME NEW T, IsFiniteSet(T), NEW G, {} \in G,
         \A s \in SUBSET T : s \in G => \A x \in T \ s : s \cup {x} \in G
  PROVE  T \in G
<1>. DEFINE U == {T \ s : s \in (SUBSET T) \cap G}
<1>1. U # {} /\ \A u \in U : IsFiniteSet(u)
  BY FS_Subset
<1>2. PICK u \in U : \A v \in U : Cardinality(u) <= Cardinality(v)
  <2>. HIDE DEF U
  <2>. QED
    BY <1>1, SmallestSet
<1>3. PICK s \in (SUBSET T) \cap G : u = T \ s
  OBVIOUS
<1>4. ASSUME NEW x \in u
      PROVE  FALSE
  <2>1. s \cup {x} \in (SUBSET T) \cap G
    BY <1>3
  <2>2. T \ (s \cup {x}) = u \ {x}
    BY <1>3
  <2>3. u \ {x} \in U
    BY <2>1, <2>2
  <2>4. Cardinality(u \ {x}) = Cardinality(u) - 1 /\ Cardinality(u) \in Nat
    BY <1>1, FS_RemoveElement, FS_CardinalityType
  <2>. QED
    BY <1>2, <2>3, <2>4
<1>5. s = T
  BY <1>3, <1>4
<1>. QED
  BY <1>3, <1>5

-----------------------------------------------------------------------------
\* The element a sum takes first.
Chosen(s) == CHOOSE x \in s : TRUE

\* g is the sum of f over each of the sets of B.
Adds(g, f, B) ==
  g = [s \in B |-> IF s = {} THEN 0 ELSE f[Chosen(s)] + g[s \ {Chosen(s)}]]

LEMMA ChosenRest ==
  ASSUME NEW s, IsFiniteSet(s), s # {}
  PROVE  /\ Chosen(s) \in s
         /\ IsFiniteSet(s \ {Chosen(s)})
         /\ Cardinality(s) \in Nat
         /\ Cardinality(s \ {Chosen(s)}) = Cardinality(s) - 1
<1>1. Chosen(s) \in s
  BY DEF Chosen
<1>. QED
  BY <1>1, FS_RemoveElement, FS_CardinalityType

LEMMA SumUnfolds ==
  ASSUME NEW f, NEW S
  PROVE  SumFunctionOnSet(f, S) = (CHOOSE g : Adds(g, f, SUBSET S))[S]
BY DEF SumFunctionOnSet, FoldFunctionOnSet, MapThenFoldSet, Adds, Chosen

LEMMA SumsExist ==
  ASSUME NEW f, NEW S, IsFiniteSet(S)
  PROVE  \E g : Adds(g, f, SUBSET S)
<1>. DEFINE B(n) == {s \in SUBSET S : Cardinality(s) <= n}
            Bad == {n \in Nat : ~\E g : Adds(g, f, B(n))}
<1>1. Cardinality(S) \in Nat /\ \A s \in SUBSET S : IsFiniteSet(s) /\ Cardinality(s) \in Nat
                                                    /\ Cardinality(s) <= Cardinality(S)
  BY FS_CardinalityType, FS_Subset
<1>2. Bad = {}
  <2>. SUFFICES ASSUME Bad # {}
                PROVE  FALSE
    OBVIOUS
  <2>0. Bad \in SUBSET Nat
    OBVIOUS
  <2>1. PICK n \in Bad : \A k \in Bad : n <= k
    <3>. HIDE DEF Bad
    <3>. QED
      BY <2>0, LeastNumber
  <2>2. n \in Nat /\ ~\E g : Adds(g, f, B(n))
    OBVIOUS
  <2>3. n # 0
    <3>1. SUFFICES ASSUME n = 0
                   PROVE  FALSE
      OBVIOUS
    <3>2. \A s \in B(0) : s = {}
      BY <1>1, FS_EmptySet
    <3>3. Adds([s \in B(0) |-> 0], f, B(0))
      BY <3>2 DEF Adds
    <3>. QED
      BY <2>2, <3>1, <3>3
  <2>4. n - 1 \in Nat /\ n - 1 \notin Bad
    <3>. HIDE DEF Bad
    <3>. QED
      BY <2>1, <2>2, <2>3
  <2>5. PICK g : Adds(g, f, B(n - 1))
    BY <2>4
  <2>. DEFINE h == [s \in B(n) |-> IF s = {} THEN 0 ELSE f[Chosen(s)] + g[s \ {Chosen(s)}]]
  <2>6. ASSUME NEW s \in B(n), s # {}
        PROVE  g[s \ {Chosen(s)}] = h[s \ {Chosen(s)}]
    <3>. DEFINE t == s \ {Chosen(s)}
    <3>1. t \in B(n - 1) /\ t \in B(n)
      <4>1. t \in SUBSET S /\ Cardinality(t) = Cardinality(s) - 1 /\ Cardinality(s) <= n
            /\ Cardinality(s) \in Nat
        BY <1>1, <2>6, ChosenRest
      <4>. QED
        BY <2>2, <4>1
    <3>2. g[t] = IF t = {} THEN 0 ELSE f[Chosen(t)] + g[t \ {Chosen(t)}]
      <4>. HIDE DEF t, B
      <4>. QED
        BY <2>5, <3>1 DEF Adds
    <3>. QED
      BY <3>1, <3>2
  <2>7. Adds(h, f, B(n))
    BY <2>6 DEF Adds
  <2>. QED
    BY <2>2, <2>7
<1>3. \E g : Adds(g, f, B(Cardinality(S)))
  BY <1>1, <1>2
<1>4. B(Cardinality(S)) = SUBSET S
  BY <1>1
<1>. QED
  BY <1>3, <1>4

Alike(f, h, S) == \A x \in S : f[x] = h[x]

\* Sums that take the same values agree where both are.
LEMMA SumsAgree ==
  ASSUME NEW f, NEW h, NEW S, NEW T, NEW g, NEW k, IsFiniteSet(S), S \subseteq T,
         Adds(g, f, SUBSET S), Adds(k, h, SUBSET T), Alike(f, h, S)
  PROVE  g[S] = k[S]
<1>. DEFINE U == {s \in SUBSET S : g[s] # k[s]}
<1>1. U = {}
  <2>. SUFFICES ASSUME U # {}
                PROVE  FALSE
    OBVIOUS
  <2>0. \A s \in U : IsFiniteSet(s)
    BY FS_Subset
  <2>1. PICK s \in U : \A t \in U : Cardinality(s) <= Cardinality(t)
    <3>. HIDE DEF U
    <3>. QED
      BY <2>0, SmallestSet
  <2>2. s \in SUBSET S /\ s \in SUBSET T /\ g[s] # k[s] /\ IsFiniteSet(s)
    BY <2>0
  <2>3. /\ g[s] = IF s = {} THEN 0 ELSE f[Chosen(s)] + g[s \ {Chosen(s)}]
        /\ k[s] = IF s = {} THEN 0 ELSE h[Chosen(s)] + k[s \ {Chosen(s)}]
    BY <2>2 DEF Adds
  <2>4. s # {}
    BY <2>2, <2>3
  <2>5. Chosen(s) \in S /\ s \ {Chosen(s)} \in SUBSET S
    BY <2>2, <2>4, ChosenRest
  <2>6. s \ {Chosen(s)} \notin U
    <3>1. Cardinality(s) \in Nat /\ Cardinality(s \ {Chosen(s)}) = Cardinality(s) - 1
      BY <2>2, <2>4, ChosenRest
    <3>2. ~(Cardinality(s) <= Cardinality(s \ {Chosen(s)}))
      BY <3>1
    <3>. HIDE DEF U
    <3>. QED
      BY <2>1, <3>2, Zenon
  <2>. QED
    BY <2>2, <2>3, <2>4, <2>5, <2>6 DEF Alike
<1>. QED
  BY <1>1

\* A sum over nothing, and over anything else.
LEMMA SumOfNone ==
  ASSUME NEW f
  PROVE  SumFunctionOnSet(f, {}) = 0
<1>. DEFINE g == CHOOSE k : Adds(k, f, SUBSET {})
<1>1. Adds(g, f, SUBSET {})
  BY FS_EmptySet, SumsExist
<1>2. SumFunctionOnSet(f, {}) = g[{}]
  BY SumUnfolds
<1>. HIDE DEF g
<1>. QED
  BY <1>1, <1>2 DEF Adds

LEMMA SumTakesChosen ==
  ASSUME NEW f, NEW S, IsFiniteSet(S), S # {}
  PROVE  SumFunctionOnSet(f, S) = f[Chosen(S)] + SumFunctionOnSet(f, S \ {Chosen(S)})
<1>. DEFINE rest == S \ {Chosen(S)}
            g == CHOOSE k : Adds(k, f, SUBSET S)
            h == CHOOSE k : Adds(k, f, SUBSET rest)
<1>1. IsFiniteSet(rest)
  BY ChosenRest
<1>2. Adds(g, f, SUBSET S) /\ Adds(h, f, SUBSET rest)
  BY <1>1, SumsExist
<1>3. SumFunctionOnSet(f, S) = g[S] /\ SumFunctionOnSet(f, rest) = h[rest]
  BY SumUnfolds
<1>. HIDE DEF g, h
<1>4. g[S] = f[Chosen(S)] + g[rest]
  BY <1>2 DEF Adds
<1>5. h[rest] = g[rest]
  <2>1. rest \subseteq S /\ Alike(f, f, rest)
    BY DEF Alike
  <2>. HIDE DEF rest
  <2>. QED
    BY <1>1, <1>2, <2>1, SumsAgree
<1>. QED
  BY <1>3, <1>4, <1>5

LEMMA SameSum ==
  ASSUME NEW f, NEW h, NEW S, IsFiniteSet(S), Alike(f, h, S)
  PROVE  SumFunctionOnSet(f, S) = SumFunctionOnSet(h, S)
<1>. DEFINE g == CHOOSE a : Adds(a, f, SUBSET S)
            k == CHOOSE a : Adds(a, h, SUBSET S)
<1>1. Adds(g, f, SUBSET S) /\ Adds(k, h, SUBSET S)
  BY SumsExist
<1>2. SumFunctionOnSet(f, S) = g[S] /\ SumFunctionOnSet(h, S) = k[S]
  BY SumUnfolds
<1>. HIDE DEF g, k
<1>. QED
  BY <1>1, <1>2, SumsAgree DEF Alike

-----------------------------------------------------------------------------
Numeric(f, S) == \A x \in S : f[x] \in Int

\* It does not matter which element a sum takes first.
LEMMA SumTakes ==
  ASSUME NEW f, NEW S, IsFiniteSet(S), Numeric(f, S)
  PROVE  /\ SumFunctionOnSet(f, S) \in Int
         /\ \A x \in S : SumFunctionOnSet(f, S) = f[x] + SumFunctionOnSet(f, S \ {x})
<1>. DEFINE Sum(s) == SumFunctionOnSet(f, s)
            Good(s) == Sum(s) \in Int /\ \A x \in s : Sum(s) = f[x] + Sum(s \ {x})
            U == {s \in SUBSET S : ~Good(s)}
<1>1. U = {}
  <2>. SUFFICES ASSUME U # {}
                PROVE  FALSE
    OBVIOUS
  <2>0. \A s \in U : IsFiniteSet(s)
    BY FS_Subset
  <2>1. PICK s \in U : \A t \in U : Cardinality(s) <= Cardinality(t)
    <3>. HIDE DEF U
    <3>. QED
      BY <2>0, SmallestSet
  <2>2. s \in SUBSET S /\ IsFiniteSet(s) /\ ~Good(s)
    BY <2>0
  <2>3. ASSUME NEW t \in SUBSET s, t # s
        PROVE  Good(t)
    <3>1. Cardinality(s) \in Nat /\ Cardinality(t) \in Nat /\ Cardinality(t) < Cardinality(s)
      BY <2>2, <2>3, FS_Subset, FS_CardinalityType
    <3>2. ~(Cardinality(s) <= Cardinality(t)) /\ t \in SUBSET S
      BY <2>2, <3>1
    <3>. HIDE DEF Good
    <3>. QED
      BY <2>1, <3>2
  <2>. DEFINE c == Chosen(s)
              r == s \ {c}
  <2>4. s # {}
    <3>1. Sum({}) = 0
      BY SumOfNone
    <3>2. Good({})
      BY <3>1
    <3>. HIDE DEF Good
    <3>. QED
      BY <2>2, <3>2
  <2>5. c \in s /\ f[c] \in Int /\ Sum(s) = f[c] + Sum(r)
    BY <2>2, <2>4, ChosenRest, SumTakesChosen DEF Numeric
  <2>6. Good(r) /\ Sum(s) \in Int
    <3>1. Good(r)
      <4>. HIDE DEF Good, c
      <4>. QED
        BY <2>3, <2>5
    <3>. HIDE DEF Sum, r
    <3>. QED
      BY <2>5, <3>1 DEF Good
  <2>. HIDE DEF c
  <2>7. ASSUME NEW x \in s
        PROVE  Sum(s) = f[x] + Sum(s \ {x})
    <3>1. CASE x = c
      BY <2>5, <3>1
    <3>2. CASE x # c
      <4>1. Sum(r) = f[x] + Sum(r \ {x}) /\ Sum(r \ {x}) \in Int
        <5>1. x \in r /\ r \ {x} \in SUBSET s /\ r \ {x} # s
          BY <2>5, <3>2
        <5>2. Good(r \ {x})
          <6>. HIDE DEF Good, r
          <6>. QED
            BY <2>3, <5>1
        <5>. HIDE DEF Sum, r
        <5>. QED
          BY <2>6, <5>1, <5>2 DEF Good
      <4>2. Sum(s \ {x}) = f[c] + Sum(r \ {x})
        <5>1. c \in s \ {x} /\ (s \ {x}) \ {c} = r \ {x}
          BY <2>5, <3>2
        <5>2. Good(s \ {x})
          <6>. HIDE DEF Good
          <6>. QED
            BY <2>3
        <5>. HIDE DEF Sum, r
        <5>. QED
          BY <5>1, <5>2 DEF Good
      <4>3. f[x] \in Int
        BY <2>2 DEF Numeric
      <4>. HIDE DEF Sum, r
      <4>. QED
        BY <2>5, <4>1, <4>2, <4>3 DEF Good
    <3>. QED
      BY <3>1, <3>2
  <2>. QED
    BY <2>2, <2>6, <2>7
<1>. QED
  BY <1>1

LEMMA SumStep ==
  ASSUME NEW f, NEW S, IsFiniteSet(S), NEW x, x \notin S, Numeric(f, S), f[x] \in Int
  PROVE  /\ SumFunctionOnSet(f, S) \in Int
         /\ SumFunctionOnSet(f, S \cup {x}) = SumFunctionOnSet(f, S) + f[x]
<1>1. IsFiniteSet(S \cup {x}) /\ Numeric(f, S \cup {x})
  BY FS_AddElement DEF Numeric
<1>2. x \in S \cup {x} /\ (S \cup {x}) \ {x} = S
  OBVIOUS
<1>3. SumFunctionOnSet(f, S \cup {x}) = f[x] + SumFunctionOnSet(f, S)
  BY <1>1, <1>2, SumTakes
<1>4. SumFunctionOnSet(f, S) \in Int
  BY SumTakes
<1>. QED
  BY <1>3, <1>4

\* The sum of a sum.
LEMMA SumAdds ==
  ASSUME NEW f, NEW g, NEW h, NEW S, IsFiniteSet(S), Numeric(f, S), Numeric(g, S),
         \A x \in S : h[x] = f[x] + g[x]
  PROVE  SumFunctionOnSet(h, S) = SumFunctionOnSet(f, S) + SumFunctionOnSet(g, S)
<1>. DEFINE Good(s) == SumFunctionOnSet(h, s) = SumFunctionOnSet(f, s) + SumFunctionOnSet(g, s)
            G == {s \in SUBSET S : Good(s)}
<1>1. Good({})
  <2>1. SumFunctionOnSet(f, {}) = 0 /\ SumFunctionOnSet(g, {}) = 0 /\ SumFunctionOnSet(h, {}) = 0
    BY SumOfNone
  <2>. QED
    BY <2>1
<1>2. ASSUME NEW s \in SUBSET S, Good(s), NEW x \in S \ s
      PROVE  Good(s \cup {x})
  <2>1. /\ IsFiniteSet(s) /\ x \notin s /\ Numeric(f, s) /\ Numeric(g, s) /\ Numeric(h, s)
        /\ f[x] \in Int /\ g[x] \in Int /\ h[x] \in Int /\ h[x] = f[x] + g[x]
    BY FS_Subset DEF Numeric
  <2>2. /\ SumFunctionOnSet(f, s) \in Int
        /\ SumFunctionOnSet(f, s \cup {x}) = SumFunctionOnSet(f, s) + f[x]
    BY <2>1, SumStep
  <2>3. /\ SumFunctionOnSet(g, s) \in Int
        /\ SumFunctionOnSet(g, s \cup {x}) = SumFunctionOnSet(g, s) + g[x]
    BY <2>1, SumStep
  <2>4. SumFunctionOnSet(h, s \cup {x}) = SumFunctionOnSet(h, s) + h[x]
    BY <2>1, SumStep
  <2>. QED
    BY <1>2, <2>1, <2>2, <2>3, <2>4
<1>3. {} \in G /\ \A s \in SUBSET S : s \in G => \A x \in S \ s : s \cup {x} \in G
  <2>. HIDE DEF Good
  <2>. QED
    BY <1>1, <1>2
<1>4. S \in G
  <2>. HIDE DEF G
  <2>. QED
    BY <1>3, SetInduction
<1>. QED
  BY <1>4

\* The sum over two sets without a common element.
LEMMA SumSplits ==
  ASSUME NEW f, NEW S, NEW T, IsFiniteSet(S), IsFiniteSet(T), S \cap T = {},
         Numeric(f, S), Numeric(f, T)
  PROVE  SumFunctionOnSet(f, S \cup T) = SumFunctionOnSet(f, S) + SumFunctionOnSet(f, T)
<1>. DEFINE Good(s) == SumFunctionOnSet(f, S \cup s) = SumFunctionOnSet(f, S) + SumFunctionOnSet(f, s)
            G == {s \in SUBSET T : Good(s)}
<1>0. SumFunctionOnSet(f, S) \in Int
  BY SumTakes
<1>1. Good({})
  <2>1. SumFunctionOnSet(f, {}) = 0 /\ S \cup {} = S
    BY SumOfNone
  <2>. QED
    BY <1>0, <2>1
<1>2. ASSUME NEW s \in SUBSET T, Good(s), NEW x \in T \ s
      PROVE  Good(s \cup {x})
  <2>1. /\ IsFiniteSet(s) /\ x \notin s /\ Numeric(f, s) /\ f[x] \in Int
        /\ IsFiniteSet(S \cup s) /\ x \notin S \cup s /\ Numeric(f, S \cup s)
    BY FS_Subset, FS_Union DEF Numeric
  <2>2. /\ SumFunctionOnSet(f, s) \in Int
        /\ SumFunctionOnSet(f, s \cup {x}) = SumFunctionOnSet(f, s) + f[x]
    BY <2>1, SumStep
  <2>3. SumFunctionOnSet(f, (S \cup s) \cup {x}) = SumFunctionOnSet(f, S \cup s) + f[x]
    BY <2>1, SumStep
  <2>4. S \cup (s \cup {x}) = (S \cup s) \cup {x}
    OBVIOUS
  <2>5. SumFunctionOnSet(f, S \cup (s \cup {x})) = SumFunctionOnSet(f, S \cup s) + f[x]
    BY <2>3, <2>4, Zenon
  <2>. QED
    BY <1>0, <1>2, <2>1, <2>2, <2>5
<1>3. {} \in G /\ \A s \in SUBSET T : s \in G => \A x \in T \ s : s \cup {x} \in G
  <2>. HIDE DEF Good
  <2>. QED
    BY <1>1, <1>2
<1>4. T \in G
  <2>. HIDE DEF G
  <2>. QED
    BY <1>3, SetInduction
<1>. QED
  BY <1>4

Names(name, S) == {name[x] : x \in S}

\* The sum does not care for names.
LEMMA SumRenames ==
  ASSUME NEW f, NEW g, NEW S, IsFiniteSet(S), NEW name, Numeric(f, S),
         \A x, y \in S : name[x] = name[y] => x = y,
         \A x \in S : g[name[x]] = f[x]
  PROVE  /\ SumFunctionOnSet(g, Names(name, S)) = SumFunctionOnSet(f, S)
         /\ IsFiniteSet(Names(name, S))
<1>. DEFINE Good(s) == /\ SumFunctionOnSet(g, Names(name, s)) = SumFunctionOnSet(f, s)
                       /\ IsFiniteSet(Names(name, s))
            G == {s \in SUBSET S : Good(s)}
<1>1. Good({})
  <2>1. SumFunctionOnSet(f, {}) = 0 /\ SumFunctionOnSet(g, {}) = 0 /\ Names(name, {}) = {}
    BY SumOfNone DEF Names
  <2>. QED
    BY <2>1, FS_EmptySet
<1>2. ASSUME NEW s \in SUBSET S, Good(s), NEW x \in S \ s
      PROVE  Good(s \cup {x})
  <2>1. /\ IsFiniteSet(s) /\ x \notin s /\ Numeric(f, s) /\ f[x] \in Int
        /\ name[x] \notin Names(name, s) /\ g[name[x]] = f[x]
    BY FS_Subset DEF Numeric, Names
  <2>2. Numeric(g, Names(name, s))
    BY DEF Numeric, Names
  <2>3. Names(name, s \cup {x}) = Names(name, s) \cup {name[x]}
    BY DEF Names
  <2>4. /\ SumFunctionOnSet(f, s) \in Int
        /\ SumFunctionOnSet(f, s \cup {x}) = SumFunctionOnSet(f, s) + f[x]
    BY <2>1, SumStep
  <2>5. SumFunctionOnSet(g, Names(name, s) \cup {name[x]}) = SumFunctionOnSet(g, Names(name, s)) + g[name[x]]
    BY <1>2, <2>1, <2>2, SumStep
  <2>6. IsFiniteSet(Names(name, s) \cup {name[x]})
    BY <1>2, FS_AddElement
  <2>. QED
    BY <1>2, <2>1, <2>3, <2>4, <2>5, <2>6
<1>3. {} \in G /\ \A s \in SUBSET S : s \in G => \A x \in S \ s : s \cup {x} \in G
  <2>. HIDE DEF Good
  <2>. QED
    BY <1>1, <1>2
<1>4. S \in G
  <2>. HIDE DEF G
  <2>. QED
    BY <1>3, SetInduction
<1>. QED
  BY <1>4

\* What is never negative adds up to what is not.
LEMMA SumNotNegative ==
  ASSUME NEW f, NEW S, IsFiniteSet(S), \A x \in S : f[x] \in Nat
  PROVE  SumFunctionOnSet(f, S) \in Nat
<1>. DEFINE Good(s) == SumFunctionOnSet(f, s) \in Nat
            G == {s \in SUBSET S : Good(s)}
<1>1. Good({})
  BY SumOfNone
<1>2. ASSUME NEW s \in SUBSET S, Good(s), NEW x \in S \ s
      PROVE  Good(s \cup {x})
  <2>1. IsFiniteSet(s) /\ x \notin s /\ Numeric(f, s) /\ f[x] \in Int /\ f[x] \in Nat
    BY FS_Subset DEF Numeric
  <2>2. SumFunctionOnSet(f, s \cup {x}) = SumFunctionOnSet(f, s) + f[x]
    BY <2>1, SumStep
  <2>. QED
    BY <1>2, <2>1, <2>2
<1>3. {} \in G /\ \A s \in SUBSET S : s \in G => \A x \in S \ s : s \cup {x} \in G
  <2>. HIDE DEF Good
  <2>. QED
    BY <1>1, <1>2
<1>4. S \in G
  <2>. HIDE DEF G
  <2>. QED
    BY <1>3, SetInduction
<1>. QED
  BY <1>4

\* A set has as many elements as it counts.
LEMMA SumCounts ==
  ASSUME NEW f, NEW S, IsFiniteSet(S), \A x \in S : f[x] = 1
  PROVE  SumFunctionOnSet(f, S) = Cardinality(S)
<1>. DEFINE Good(s) == SumFunctionOnSet(f, s) = Cardinality(s)
            G == {s \in SUBSET S : Good(s)}
<1>1. Good({})
  BY SumOfNone, FS_EmptySet
<1>2. ASSUME NEW s \in SUBSET S, Good(s), NEW x \in S \ s
      PROVE  Good(s \cup {x})
  <2>1. IsFiniteSet(s) /\ x \notin s /\ Numeric(f, s) /\ f[x] \in Int /\ f[x] = 1
    BY FS_Subset DEF Numeric
  <2>2. SumFunctionOnSet(f, s \cup {x}) = SumFunctionOnSet(f, s) + f[x]
    BY <2>1, SumStep
  <2>3. Cardinality(s \cup {x}) = Cardinality(s) + 1
    BY <2>1, FS_AddElement
  <2>. QED
    BY <1>2, <2>1, <2>2, <2>3
<1>3. {} \in G /\ \A s \in SUBSET S : s \in G => \A x \in S \ s : s \cup {x} \in G
  <2>. HIDE DEF Good
  <2>. QED
    BY <1>1, <1>2
<1>4. S \in G
  <2>. HIDE DEF G
  <2>. QED
    BY <1>3, SetInduction
<1>. QED
  BY <1>4

Joined(part, M) == UNION {part[m] : m \in M}

\* The sum over the parts of a set.
LEMMA SumOfParts ==
  ASSUME NEW f, NEW M, IsFiniteSet(M), NEW part, NEW h,
         \A m \in M : /\ IsFiniteSet(part[m]) /\ Numeric(f, part[m])
                      /\ h[m] = SumFunctionOnSet(f, part[m]),
         \A m, n \in M : m # n => part[m] \cap part[n] = {}
  PROVE  /\ SumFunctionOnSet(h, M) = SumFunctionOnSet(f, Joined(part, M))
         /\ IsFiniteSet(Joined(part, M))
<1>. DEFINE Good(s) == /\ SumFunctionOnSet(h, s) = SumFunctionOnSet(f, Joined(part, s))
                       /\ IsFiniteSet(Joined(part, s))
            G == {s \in SUBSET M : Good(s)}
<1>1. Good({})
  <2>1. SumFunctionOnSet(f, {}) = 0 /\ SumFunctionOnSet(h, {}) = 0 /\ Joined(part, {}) = {}
    BY SumOfNone DEF Joined
  <2>. QED
    BY <2>1, FS_EmptySet
<1>2. ASSUME NEW s \in SUBSET M, Good(s), NEW x \in M \ s
      PROVE  Good(s \cup {x})
  <2>1. /\ IsFiniteSet(s) /\ x \notin s /\ IsFiniteSet(part[x])
        /\ Numeric(f, part[x]) /\ h[x] = SumFunctionOnSet(f, part[x])
    BY FS_Subset
  <2>2. Joined(part, s) \cap part[x] = {} /\ Numeric(f, Joined(part, s))
    BY DEF Numeric, Joined
  <2>3. Joined(part, s \cup {x}) = Joined(part, s) \cup part[x]
    BY DEF Joined
  <2>4. Numeric(h, s) /\ h[x] \in Int
    <3>1. \A m \in M : h[m] \in Int
      BY SumTakes
    <3>. QED
      BY <3>1 DEF Numeric
  <2>5. SumFunctionOnSet(h, s \cup {x}) = SumFunctionOnSet(h, s) + h[x]
    BY <2>1, <2>4, SumStep
  <2>6. SumFunctionOnSet(f, Joined(part, s) \cup part[x]) = SumFunctionOnSet(f, Joined(part, s)) + h[x]
    BY <1>2, <2>1, <2>2, SumSplits
  <2>7. IsFiniteSet(Joined(part, s) \cup part[x])
    BY <1>2, <2>1, FS_Union
  <2>. QED
    BY <1>2, <2>3, <2>5, <2>6, <2>7
<1>3. {} \in G /\ \A s \in SUBSET M : s \in G => \A x \in M \ s : s \cup {x} \in G
  <2>. HIDE DEF Good
  <2>. QED
    BY <1>1, <1>2
<1>4. M \in G
  <2>. HIDE DEF G
  <2>. QED
    BY <1>3, SetInduction
<1>. QED
  BY <1>4

-----------------------------------------------------------------------------
(***************************************************************************)
(* What stays true of a work between two statements of the reader.         *)
(***************************************************************************)
\* Completed works stay so and keep their attempts; what was tried stays tried.
LEMMA WorkStays ==
  ASSUME FloorAssumption, FloorInv, [Next]_vars, NEW v \in Works
  PROVE  /\ work[v].status = "COMPLETADO" =>
              work'[v].status = "COMPLETADO" /\ AttemptsOf(v)' = AttemptsOf(v)
         /\ AttemptsOf(v) # {} => AttemptsOf(v)' # {}
<1> DEFINE Stays == /\ work[v].status = "COMPLETADO" =>
                         work'[v].status = "COMPLETADO" /\ AttemptsOf(v)' = AttemptsOf(v)
                    /\ AttemptsOf(v) # {} => AttemptsOf(v)' # {}
<1>1. ASSUME attempts' = attempts, work'[v].status = work[v].status
      PROVE  Stays
  BY <1>1 DEF AttemptsOf
<1>2. ASSUME NEW w \in Works, NEW m \in Machines, AssignMachine(w, m)
      PROVE  Stays
  BY <1>1, <1>2 DEF AssignMachine, FloorInv, TypeOK, WorkRow
<1>3. ASSUME NEW m \in Machines, NEW s \in States, NEW t \in Times, ChangeState(m, s, t)
      PROVE  Stays
  BY <1>1, <1>3 DEF ChangeState
<1>4. ASSUME NEW m \in Machines, NEW row \in MachineRow, UpdateMachine(m, row)
      PROVE  Stays
  BY <1>1, <1>4 DEF UpdateMachine
<1>5. ASSUME NEW w \in Works, NEW t \in Times, StartWork(w, t)
      PROVE  Stays
  <2> DEFINE a == [work |-> w, number |-> LastNumber(w) + 1, machine |-> work[w].machine,
                   start |-> t, end |-> Open, result |-> Open]
  <2>1. attempts' = attempts \cup {a} /\ a.work = w
    BY <1>5 DEF StartWork, BeginAttempt
  <2>2. /\ work[w].status = "PENDIENTE"
        /\ work' = [work EXCEPT ![w].status = "EN_PROCESO"]
    BY <1>5 DEF StartWork, BeginAttempt
  <2>3. AttemptsOf(v) \subseteq AttemptsOf(v)' /\ (v # w => AttemptsOf(v)' = AttemptsOf(v))
    BY <2>1 DEF AttemptsOf
  <2>4. v # w => work'[v].status = work[v].status
    BY <2>2 DEF FloorInv, TypeOK
  <2>5. QED
    BY <2>2, <2>3, <2>4
<1>6. ASSUME NEW w \in Works, NEW r \in Results, NEW t \in Times, FinishWork(w, r, t)
      PROVE  Stays
  <2>1. PICK a \in OpenAttempts(w), s \in OrderStatusesAfter(w, r) :
               EndAttempt(a, OpenPeriods(a.machine), r, t, s)
    BY <1>6 DEF FinishWork
  <2> DEFINE b == [a EXCEPT !.end = t, !.result = r]
  <2>2. a \in attempts /\ a \in Attempt /\ a.work = w /\ b.work = w
    BY DEF OpenAttempts, FloorInv, TypeOK, Attempt
  <2>3. /\ work[w].status = "EN_PROCESO"
        /\ work' = [work EXCEPT ![w].status = StatusAfter(r)]
        /\ attempts' = (attempts \ {a}) \cup {b}
    BY <1>6, <2>1, <2>2 DEF FinishWork, EndAttempt
  <2>4. v # w => AttemptsOf(v)' = AttemptsOf(v) /\ work'[v].status = work[v].status
    BY <2>2, <2>3 DEF AttemptsOf, FloorInv, TypeOK
  <2>5. b \in AttemptsOf(w)'
    BY <2>2, <2>3 DEF AttemptsOf
  <2>6. QED
    BY <2>3, <2>4, <2>5
<1>7. CASE UNCHANGED vars
  BY <1>1, <1>7 DEF vars
<1>8. QED
  BY <1>2, <1>3, <1>4, <1>5, <1>6, <1>7 DEF Next

\* A completed work has its success, the last of its attempts, all of them ended.
LEMMA CompleteHasSuccess ==
  ASSUME FloorInv, NEW w \in Works, work[w].status = "COMPLETADO"
  PROVE  \E a \in AttemptsOf(w) :
           /\ a.result = "EXITOSO"
           /\ \A b \in AttemptsOf(w) : b.end # Open /\ b.number <= a.number
<1>1. OpenAttempts(w) = {}
  BY DEF FloorInv, RunningWork
<1>2. \A b \in AttemptsOf(w) : b.end # Open
  BY <1>1 DEF OpenAttempts, AttemptsOf
<1>3. PICK a \in AttemptsOf(w) : a.result = "EXITOSO"
  BY DEF FloorInv, CompletedBySuccess
<1>4. QED
  BY <1>2, <1>3 DEF FloorInv, CompletedBySuccess

-----------------------------------------------------------------------------
(***************************************************************************)
(* The inductive invariant: what was read bounds from below what the next  *)
(* statement will read.                                                    *)
(***************************************************************************)
ViewRow ==
  [id : Orders, order : OrderStatuses, completed : Nat, of : SUBSET Works,
   works : UNION {[ws -> WorkStatuses] : ws \in SUBSET Works},
   attempts : SUBSET Attempt, left : SUBSET Works]

ViewTypeOK ==
  /\ at \in {"idle", "order", "works", "attempts", "shown", "report"}
  /\ at \notin {"idle", "report"} =>
       /\ view \in ViewRow
       /\ view.works \in [view.of -> WorkStatuses]
       /\ view.of \subseteq WorksOf(view.id)
       /\ view.left \subseteq view.of

\* An order's works are all asked for; a work's order is not looked at.
AsksForAll ==
  \/ view.of = WorksOf(view.id)
  \/ view.order = "PENDIENTE" /\ view.completed = 0

\* Before the works are read: the order is not ahead of the works as they are.
OrderBehind ==
  /\ view.order = "COMPLETADO" => CompleteOf(view.id) = WorksOf(view.id)
  /\ view.completed <= Cardinality(CompleteOf(view.id))

\* After: it is not ahead of the works shown.
OrderShown ==
  /\ view.order = "COMPLETADO" => ShownComplete = view.of
  /\ view.completed <= Cardinality(ShownComplete)

\* A work is not ahead of itself, nor of its attempts read or still to be read.
AttemptsShown(w) == {a \in view.attempts : a.work = w}
WorkBehind(w) ==
  /\ view.works[w] = "COMPLETADO" =>
       /\ work[w].status = "COMPLETADO"
       /\ w \notin view.left => AttemptsShown(w) = AttemptsOf(w)
  /\ view.works[w] = "EN_PROCESO" =>
       /\ AttemptsOf(w) # {}
       /\ w \notin view.left => AttemptsShown(w) # {}
  /\ w \in view.left => AttemptsShown(w) = {}

ViewInv ==
  /\ FloorInv
  /\ ViewTypeOK
  /\ at = "order" => view.of = WorksOf(view.id)
  /\ at \in {"order", "works"} => view.attempts = {} /\ view.left = view.of
  /\ at = "works" => AsksForAll /\ OrderBehind
  /\ at \in {"attempts", "shown"} => OrderShown /\ \A w \in view.of : WorkBehind(w)
  /\ at = "shown" => view.left = {}

LEMMA CountOfCompleteGrows ==
  ASSUME IsFiniteSet(Works), NEW S \in SUBSET Works, NEW T \in SUBSET S
  PROVE  /\ Cardinality(T) \in Nat /\ Cardinality(S) \in Nat
         /\ Cardinality(T) <= Cardinality(S)
<1>1. IsFiniteSet(S)
  BY FS_Subset
<1>2. IsFiniteSet(T) /\ Cardinality(T) <= Cardinality(S)
  BY <1>1, FS_Subset
<1>3. QED
  BY <1>1, <1>2, FS_CardinalityType

-----------------------------------------------------------------------------
\* Whatever the floor does between two statements.
LEMMA FloorKeepsView ==
  ASSUME FloorAssumption, IsFiniteSet(Works), ViewInv, [Next]_vars, UNCHANGED viewVars
  PROVE  ViewInv'
<1> USE DEF viewVars
<1>1. FloorInv /\ FloorInv'
  BY NextKeeps DEF ViewInv
<1>2. ViewTypeOK'
  BY DEF ViewInv, ViewTypeOK, WorksOf
<1>3. \A o : /\ WorksOf(o)' = WorksOf(o)
             /\ CompleteOf(o) \subseteq CompleteOf(o)'
             /\ CompleteOf(o)' \subseteq WorksOf(o) /\ WorksOf(o) \subseteq Works
  <2>1. \A w \in Works : work[w].status = "COMPLETADO" => work'[w].status = "COMPLETADO"
    BY <1>1, WorkStays
  <2>2. QED
    BY <2>1 DEF WorksOf, CompleteOf
<1>4. ASSUME at = "works"
      PROVE  (AsksForAll /\ OrderBehind)'
  <2>1. AsksForAll'
    BY <1>3, <1>4 DEF ViewInv, AsksForAll
  <2>2. CompleteOf(view.id) \subseteq CompleteOf(view.id)' /\ CompleteOf(view.id)' \subseteq Works
    BY <1>3
  <2>3. Cardinality(CompleteOf(view.id)) <= Cardinality(CompleteOf(view.id)')
        /\ Cardinality(CompleteOf(view.id)) \in Nat /\ Cardinality(CompleteOf(view.id)') \in Nat
    BY <2>2, CountOfCompleteGrows
  <2>4. view.completed \in Nat
    BY <1>4 DEF ViewInv, ViewTypeOK, ViewRow
  <2>5. view.completed <= Cardinality(CompleteOf(view.id)')
    BY <1>4, <2>3, <2>4 DEF ViewInv, OrderBehind
  <2>6. OrderBehind'
    BY <1>3, <1>4, <2>5 DEF ViewInv, OrderBehind
  <2>7. QED
    BY <2>1, <2>6
<1>5. ASSUME at \in {"attempts", "shown"}
      PROVE  (OrderShown /\ \A w \in view.of : WorkBehind(w))'
  <2>1. OrderShown'
    BY <1>5 DEF ViewInv, OrderShown, ShownComplete
  <2>2. ASSUME NEW w \in view.of PROVE WorkBehind(w)'
    <3>1. w \in Works /\ WorkBehind(w)
      BY <1>5, <2>2 DEF ViewInv, ViewTypeOK, WorksOf
    <3>2. AttemptsShown(w)' = AttemptsShown(w)
      BY DEF AttemptsShown
    <3>3. QED
      BY <1>1, <3>1, <3>2, WorkStays DEF WorkBehind
  <2>3. QED
    BY <2>1, <2>2
<1>6. QED
  BY <1>1, <1>2, <1>3, <1>4, <1>5 DEF ViewInv

\* Each statement of the reader, on the tables as they are.
LEMMA ReaderKeepsView ==
  ASSUME FloorAssumption, IsFiniteSet(Works), ViewInv, UNCHANGED vars, Reader
  PROVE  ViewInv'
<1> USE DEF Goto, After
<1>1. FloorInv /\ FloorInv'
  BY NextKeeps DEF ViewInv
<1>2. work' = work /\ order' = order /\ attempts' = attempts
  BY DEF vars
<1>3. \A o : /\ WorksOf(o)' = WorksOf(o) /\ WorksOf(o) \subseteq Works
             /\ CompleteOf(o)' = CompleteOf(o) /\ CompleteOf(o) \subseteq Works
  BY <1>2 DEF WorksOf, CompleteOf
<1>4. ASSUME NEW o \in Orders, NEW ws \in SUBSET WorksOf(o), view' = Empty(o, ws),
             at' \in {"order", "works"}, at' = "order" => ws = WorksOf(o)
      PROVE  ViewInv'
  <2>1. /\ view'.id = o /\ view'.order = "PENDIENTE" /\ view'.completed = 0
        /\ view'.of = ws /\ view'.attempts = {} /\ view'.left = ws
        /\ view'.works = [w \in ws |-> "PENDIENTE"]
    BY <1>4 DEF Empty
  <2>2. ws \in SUBSET Works
    BY <1>3
  <2>3. view' \in ViewRow
    BY <1>4, <2>2 DEF Empty, ViewRow, OrderStatuses, WorkStatuses
  <2>4. ViewTypeOK'
    BY <1>3, <1>4, <2>1, <2>3 DEF ViewTypeOK, WorkStatuses
  <2>5. Cardinality(CompleteOf(o)) \in Nat
    BY <1>3, CountOfCompleteGrows
  <2>6. (AsksForAll /\ OrderBehind)'
    BY <1>3, <2>1, <2>5 DEF AsksForAll, OrderBehind
  <2>7. QED
    BY <1>1, <1>3, <1>4, <2>1, <2>4, <2>6 DEF ViewInv
<1>5. ASSUME NEW o \in Orders, GetOrder(o)
      PROVE  ViewInv'
  BY <1>4, <1>5 DEF GetOrder
<1>6. ASSUME NEW w \in Works, GetWork(w)
      PROVE  ViewInv'
  <2>1. OrderOf[w] \in Orders /\ {w} \in SUBSET WorksOf(OrderOf[w])
    BY DEF FloorAssumption, WorksOf
  <2>2. QED
    BY <1>4, <1>6, <2>1 DEF GetWork
<1>7. CASE ReadOrder
  <2>1. /\ at = "order" /\ at' = "works" /\ view \in ViewRow /\ view.of = WorksOf(view.id)
        /\ view' = [view EXCEPT !.order = order[view.id],
                                !.completed = Cardinality(CompleteOf(view.id))]
    BY <1>7 DEF ReadOrder, ViewInv, ViewTypeOK
  <2>2. Cardinality(CompleteOf(view.id)) \in Nat
    BY <1>3, CountOfCompleteGrows
  <2>3. view.id \in Orders /\ order[view.id] \in OrderStatuses
    BY <1>1, <2>1 DEF ViewRow, FloorInv, TypeOK
  <2>4. /\ view'.id = view.id /\ view'.of = view.of /\ view'.works = view.works
        /\ view'.attempts = view.attempts /\ view'.left = view.left
        /\ view'.order = order[view.id] /\ view'.completed = Cardinality(CompleteOf(view.id))
        /\ view' \in ViewRow
    BY <2>1, <2>2, <2>3 DEF ViewRow
  <2>5. ViewTypeOK'
    BY <1>3, <2>1, <2>4 DEF ViewInv, ViewTypeOK
  <2>6. order[view.id] = "COMPLETADO" => CompleteOf(view.id) = WorksOf(view.id)
    BY <1>1 DEF FloorInv, CompleteOrderIsDone, CompleteOf, WorksOf
  <2>7. (AsksForAll /\ OrderBehind)'
    BY <1>3, <2>1, <2>2, <2>4, <2>6 DEF AsksForAll, OrderBehind
  <2>8. QED
    BY <1>1, <2>1, <2>4, <2>5, <2>7 DEF ViewInv
<1>8. CASE ReadWorks
  <2>1. /\ at = "works" /\ at' = "attempts" /\ view \in ViewRow
        /\ view.of \subseteq Works /\ view.of \subseteq WorksOf(view.id)
        /\ view' = [view EXCEPT !.works = [w \in view.of |-> work[w].status]]
    BY <1>8, <1>3 DEF ReadWorks, ViewInv, ViewTypeOK
  <2>2. [w \in view.of |-> work[w].status] \in [view.of -> WorkStatuses]
    BY <1>1, <2>1 DEF FloorInv, TypeOK, WorkRow
  <2>3. /\ view'.id = view.id /\ view'.of = view.of /\ view'.order = view.order
        /\ view'.attempts = view.attempts /\ view'.left = view.left
        /\ view'.completed = view.completed
        /\ view'.works = [w \in view.of |-> work[w].status]
    BY <2>1 DEF ViewRow
  <2>4. view' \in ViewRow
    BY <2>1, <2>2 DEF ViewRow
  <2>5. ViewTypeOK'
    BY <1>3, <2>1, <2>2, <2>3, <2>4 DEF ViewInv, ViewTypeOK
  <2>6. ShownComplete' = {w \in view.of : work[w].status = "COMPLETADO"}
    BY <2>3 DEF ShownComplete
  <2>7. OrderShown'
    <3>1. CASE view.of = WorksOf(view.id)
      <4>1. ShownComplete' = CompleteOf(view.id)
        BY <2>6, <3>1 DEF CompleteOf
      <4>2. QED
        BY <2>1, <2>3, <3>1, <4>1 DEF ViewInv, OrderBehind, OrderShown
    <3>2. CASE view.order = "PENDIENTE" /\ view.completed = 0
      <4>1. Cardinality(ShownComplete') \in Nat
        BY <2>1, <2>6, CountOfCompleteGrows
      <4>2. QED
        BY <2>3, <3>2, <4>1 DEF OrderShown
    <3>3. QED
      BY <2>1, <3>1, <3>2 DEF ViewInv, AsksForAll
  <2>8. ASSUME NEW w \in view.of PROVE WorkBehind(w)'
    <3>1. view'.works[w] = work[w].status /\ w \in view'.left /\ AttemptsShown(w)' = {}
      BY <2>1, <2>3 DEF ViewInv, AttemptsShown
    <3>2. work[w].status = "EN_PROCESO" => AttemptsOf(w) # {}
      BY <1>1, <2>1 DEF FloorInv, RunningWork, OpenAttempts, AttemptsOf
    <3>3. AttemptsOf(w)' = AttemptsOf(w)
      BY <1>2 DEF AttemptsOf
    <3>4. QED
      BY <1>2, <3>1, <3>2, <3>3 DEF WorkBehind
  <2>9. QED
    BY <1>1, <2>1, <2>3, <2>5, <2>7, <2>8 DEF ViewInv
<1>9. ASSUME NEW w \in Works, ReadAttempts(w)
      PROVE  ViewInv'
  <2>1. /\ at = "attempts" /\ at' = IF view.left = {w} THEN "shown" ELSE "attempts"
        /\ view \in ViewRow /\ w \in view.left
        /\ view' = [view EXCEPT !.attempts = @ \cup AttemptsOf(w), !.left = @ \ {w}]
    BY <1>9 DEF ReadAttempts, ViewInv, ViewTypeOK
  <2>2. AttemptsOf(w) \subseteq Attempt
    BY <1>1 DEF FloorInv, TypeOK, AttemptsOf
  <2>3. /\ view'.id = view.id /\ view'.of = view.of /\ view'.order = view.order
        /\ view'.attempts = view.attempts \cup AttemptsOf(w) /\ view'.left = view.left \ {w}
        /\ view'.completed = view.completed /\ view'.works = view.works
        /\ view' \in ViewRow
    BY <2>1, <2>2 DEF ViewRow
  <2>4. ViewTypeOK'
    BY <1>3, <2>1, <2>3 DEF ViewInv, ViewTypeOK
  <2>5. OrderShown'
    BY <2>1, <2>3 DEF ViewInv, OrderShown, ShownComplete
  <2>6. ASSUME NEW v \in view.of PROVE WorkBehind(v)'
    <3>1. WorkBehind(v)
      BY <2>1 DEF ViewInv
    <3>2. AttemptsShown(v)' = IF v = w THEN AttemptsShown(v) \cup AttemptsOf(v) ELSE AttemptsShown(v)
      BY <2>3 DEF AttemptsShown, AttemptsOf
    <3>3. AttemptsOf(v)' = AttemptsOf(v)
      BY <1>2 DEF AttemptsOf
    <3>4. CASE v = w
      <4>1. AttemptsShown(v)' = AttemptsOf(v) /\ v \notin view'.left
        BY <2>1, <2>3, <3>1, <3>2, <3>4 DEF WorkBehind
      <4>2. QED
        BY <1>2, <2>3, <3>1, <3>3, <4>1 DEF WorkBehind
    <3>5. CASE v # w
      BY <1>2, <2>3, <3>1, <3>2, <3>3, <3>5 DEF WorkBehind
    <3>6. QED
      BY <3>4, <3>5
  <2>7. at' = "shown" => view'.left = {}
    BY <2>1, <2>3
  <2>8. QED
    BY <1>1, <2>1, <2>3, <2>4, <2>5, <2>6, <2>7 DEF ViewInv
<1>10. CASE Leave
  BY <1>1, <1>10 DEF Leave, ViewInv, ViewTypeOK
<1>11. QED
  BY <1>5, <1>6, <1>7, <1>8, <1>9, <1>10 DEF Reader

-----------------------------------------------------------------------------
\* A report leaves nothing to be read.
LEMMA ReportKeepsView ==
  ASSUME ViewInv, ReadReport
  PROVE  ViewInv'
<1>1. at' = "report" /\ view' = NoView /\ UNCHANGED vars
  BY DEF ReadReport, Goto
<1>2. FloorInv'
  BY <1>1, FloorAssumption, NextKeeps DEF ViewInv
<1>. QED
  BY <1>1, <1>2 DEF ViewInv, ViewTypeOK

\* The invariant of the reader and the floor together, whatever it asks for.
THEOREM ViewIsInvariant ==
  ASSUME IsFiniteSet(Works) PROVE MetricsSpec => []ViewInv
<1>1. ViewInit => ViewInv
  BY FloorAssumption, InitFloorInv DEF ViewInit, ViewInv, ViewTypeOK
<1>2. ViewInv /\ [MetricsNext]_<<vars, viewVars>> => ViewInv'
  <2> SUFFICES ASSUME ViewInv, [MetricsNext]_<<vars, viewVars>>
               PROVE  ViewInv'
    OBVIOUS
  <2>1. CASE [Next]_vars /\ UNCHANGED viewVars
    BY <2>1, FloorAssumption, FloorKeepsView
  <2>2. CASE Reader
    <3>1. UNCHANGED vars
      BY <2>2 DEF Reader, GetOrder, GetWork, ReadOrder, ReadWorks, ReadAttempts, Leave, Goto
    <3>2. QED
      BY <2>2, <3>1, FloorAssumption, ReaderKeepsView
  <2>3. CASE ReadReport
    BY <2>3, ReportKeepsView
  <2>4. QED
    BY <2>1, <2>2, <2>3 DEF MetricsNext, ViewNext
<1>3. QED
  BY <1>1, <1>2, PTL DEF MetricsSpec

\* The reader of OrderView is one that asks for no report.
THEOREM ViewIsOfMetrics == ViewSpec => MetricsSpec
<1>1. ViewNext => MetricsNext
  BY DEF MetricsNext
<1>. QED
  BY <1>1, PTL DEF ViewSpec, MetricsSpec

\* What is shown of an order is not ahead of the works shown with it.
THEOREM OrdersAgree ==
  ASSUME IsFiniteSet(Works) PROVE MetricsSpec => []OrderAgrees
<1>1. ViewInv => OrderAgrees
  BY DEF ViewInv, OrderShown, OrderAgrees
<1>2. MetricsSpec => []ViewInv
  BY ViewIsInvariant
<1>3. QED
  BY <1>1, <1>2, PTL

\* What is shown of a work is not ahead of the attempts shown with it.
THEOREM WorksAgree ==
  ASSUME IsFiniteSet(Works) PROVE MetricsSpec => []WorkAgrees
<1>1. ViewInv => WorkAgrees
  <2> SUFFICES ASSUME ViewInv, at = "shown", NEW w \in view.of
               PROVE  /\ view.works[w] = "COMPLETADO" =>
                           \E a \in AttemptsShown(w) :
                              /\ a.result = "EXITOSO"
                              /\ \A b \in AttemptsShown(w) : b.end # Open /\ b.number <= a.number
                      /\ view.works[w] = "EN_PROCESO" => AttemptsShown(w) # {}
    BY DEF WorkAgrees, AttemptsShown
  <2>1. WorkBehind(w) /\ w \notin view.left /\ w \in Works
    BY DEF ViewInv, ViewTypeOK, WorksOf
  <2>2. CASE view.works[w] = "COMPLETADO"
    <3>1. work[w].status = "COMPLETADO" /\ AttemptsShown(w) = AttemptsOf(w)
      BY <2>1, <2>2 DEF WorkBehind
    <3>2. QED
      BY <2>1, <2>2, <3>1, CompleteHasSuccess DEF ViewInv
  <2>3. CASE view.works[w] # "COMPLETADO"
    BY <2>1, <2>3 DEF WorkBehind
  <2>4. QED
    BY <2>2, <2>3
<1>2. MetricsSpec => []ViewInv
  BY ViewIsInvariant
<1>3. QED
  BY <1>1, <1>2, PTL

-----------------------------------------------------------------------------
(***************************************************************************)
(* What the figures of a report rest on beside FloorInv: there are         *)
(* finitely many rows, and a machine starts one attempt at a time.  The    *)
(* periods say so (Tiled), but two attempts could be one and the same of   *)
(* them.                                                                   *)
(***************************************************************************)
OneStartEach ==
  \A a, b \in attempts : a.machine = b.machine /\ a.start = b.start => a = b

TablesInv == FloorInv /\ IsFiniteSet(attempts) /\ IsFiniteSet(history) /\ OneStartEach

\* A period is replaced by one or two.
LEMMA ReplaceStaysFinite ==
  ASSUME FloorInv, IsFiniteSet(history), NEW m, NEW t, NEW new,
         ReplacePeriod(OpenPeriods(m), t, new)
  PROVE  IsFiniteSet(history')
<1>1. CASE history' = history \cup {new}
  BY <1>1, FS_AddElement
<1>2. ASSUME NEW p, NEW q, history' = (history \ {p}) \cup {q, new}
      PROVE  IsFiniteSet(history')
  <2>1. history' = ((history \ {p}) \cup {q}) \cup {new}
    BY <1>2
  <2>2. IsFiniteSet((history \ {p}) \cup {q})
    BY FS_RemoveElement, FS_AddElement
  <2>. QED
    BY <2>1, <2>2, FS_AddElement
<1>3. \/ history' = history \cup {new}
      \/ \E p, q : history' = (history \ {p}) \cup {q, new}
  <2>1. OneOpenPeriod
    BY DEF FloorInv
  <2>2. CASE history' = history \cup {new}
    BY <2>2
  <2>3. ASSUME NEW p \in history, history' = (history \ {p}) \cup {[p EXCEPT !.end = t], new}
        PROVE  \E x, q : history' = (history \ {x}) \cup {q, new}
    <3>. DEFINE q == [p EXCEPT !.end = t]
    <3>1. history' = (history \ {p}) \cup {q, new}
      BY <2>3
    <3>. HIDE DEF q
    <3>. QED
      BY <3>1
  <2>4. \/ PeriodsOf(m) = {} /\ OpenPeriods(m) = {} /\ history' = history \cup {new}
        \/ \E p \in history :
             /\ p.machine = m /\ p.end = Open /\ OpenPeriods(m) = {p}
             /\ history' = (history \ {p}) \cup {[p EXCEPT !.end = t], new}
    BY <2>1, ReplaceCases
  <2>. QED
    BY <2>2, <2>3, <2>4
<1>. QED
  BY <1>1, <1>2, <1>3

\* What has started on a machine started before anything that starts now.
LEMMA StartsAreLater ==
  ASSUME FloorAssumption, FloorInv, NEW m, NEW t \in Times, FreeBefore(OpenPeriods(m), t),
         NEW a \in attempts, a.machine = m
  PROVE  a.start < t
<1>. DEFINE h == PeriodOf(a)
<1>1. h \in history /\ h.machine = m /\ h.start = a.start /\ h.end = a.end
  BY DEF FloorInv, HistoryMatchesAttempts, PeriodOf
<1>. HIDE DEF h
<1>2. PICK p \in OpenPeriods(m) : OpenPeriods(m) = {p}
  BY <1>1 DEF FloorInv, OneOpenPeriod
<1>3. p \in history /\ p.machine = m /\ p.end = Open /\ p.start < t
  BY DEF OpenPeriods, FreeBefore
<1>4. /\ h.start \in Nat /\ p.start \in Nat /\ t \in Nat
      /\ h.end # Open => h.end \in Nat
  BY <1>1, <1>3 DEF FloorInv, TypeOK, Period, FloorAssumption
<1>5. CASE h = p
  BY <1>1, <1>3, <1>5
<1>6. CASE h # p
  <2>1. h.end # Open /\ h.end <= p.start
    BY <1>1, <1>3, <1>6 DEF FloorInv, Tiled
  <2>2. h.start < h.end
    BY <1>1, <2>1 DEF FloorInv, Tiled
  <2>. QED
    BY <1>1, <1>3, <1>4, <2>1, <2>2
<1>. QED
  BY <1>5, <1>6

LEMMA StartKeepsTables ==
  ASSUME FloorAssumption, TablesInv, NEW w \in Works, NEW t \in Times, StartWork(w, t)
  PROVE  IsFiniteSet(attempts') /\ IsFiniteSet(history') /\ OneStartEach'
<1>. DEFINE m == work[w].machine
            n == [work |-> w, number |-> LastNumber(w) + 1, machine |-> m,
                  start |-> t, end |-> Open, result |-> Open]
<1>1. attempts' = attempts \cup {n} /\ ReplacePeriod(OpenPeriods(m), t, NewPeriod(m, "TRABAJANDO", w, t))
  BY DEF StartWork, BeginAttempt
<1>2. IsFiniteSet(attempts') /\ IsFiniteSet(history')
  BY <1>1, FS_AddElement, ReplaceStaysFinite DEF TablesInv
<1>3. \A a \in attempts : a.machine = m => a.start < t
  BY StartsAreLater DEF TablesInv, StartWork
<1>4. n.machine = m /\ n.start = t /\ t \in Nat
  BY DEF FloorAssumption
<1>5. \A a \in attempts : a.start \in Nat
  BY DEF TablesInv, FloorInv, TypeOK, Attempt, FloorAssumption
<1>. HIDE DEF n, m
<1>6. \A a \in attempts : a.machine = m => a.start # t
  BY <1>3, <1>4, <1>5
<1>7. OneStartEach'
  BY <1>1, <1>4, <1>6 DEF OneStartEach, TablesInv
<1>. QED
  BY <1>2, <1>7

LEMMA FinishKeepsTables ==
  ASSUME FloorAssumption, TablesInv, NEW w \in Works, NEW r \in Results, NEW t \in Times,
         FinishWork(w, r, t)
  PROVE  IsFiniteSet(attempts') /\ IsFiniteSet(history') /\ OneStartEach'
<1>1. PICK a \in OpenAttempts(w) : \E s : EndAttempt(a, OpenPeriods(a.machine), r, t, s)
  BY DEF FinishWork
<1>. DEFINE n == [a EXCEPT !.end = t, !.result = r]
<1>2. /\ attempts' = (attempts \ {a}) \cup {n} /\ a \in attempts
      /\ ReplacePeriod(OpenPeriods(a.machine), t, NewPeriod(a.machine, "DISPONIBLE", NoWork, t))
  BY <1>1 DEF EndAttempt, OpenAttempts
<1>3. IsFiniteSet(attempts') /\ IsFiniteSet(history')
  BY <1>2, FS_RemoveElement, FS_AddElement, ReplaceStaysFinite DEF TablesInv
<1>4. n.machine = a.machine /\ n.start = a.start
  BY <1>2 DEF TablesInv, FloorInv, TypeOK, Attempt
<1>. HIDE DEF n
<1>5. OneStartEach'
  BY <1>2, <1>4 DEF OneStartEach, TablesInv
<1>. QED
  BY <1>3, <1>5

LEMMA NextKeepsTables ==
  ASSUME FloorAssumption, TablesInv, [Next]_vars
  PROVE  TablesInv'
<1>1. FloorInv'
  BY NextKeeps DEF TablesInv
<1>2. IsFiniteSet(attempts') /\ IsFiniteSet(history') /\ OneStartEach'
  <2>1. CASE UNCHANGED <<attempts, history>>
    BY <2>1 DEF TablesInv, OneStartEach
  <2>2. ASSUME NEW w \in Works, NEW t \in Times, StartWork(w, t)
        PROVE  IsFiniteSet(attempts') /\ IsFiniteSet(history') /\ OneStartEach'
    BY <2>2, StartKeepsTables
  <2>3. ASSUME NEW w \in Works, NEW r \in Results, NEW t \in Times, FinishWork(w, r, t)
        PROVE  IsFiniteSet(attempts') /\ IsFiniteSet(history') /\ OneStartEach'
    BY <2>3, FinishKeepsTables
  <2>4. ASSUME NEW m \in Machines, NEW s \in States, NEW t \in Times, ChangeState(m, s, t)
        PROVE  IsFiniteSet(attempts') /\ IsFiniteSet(history') /\ OneStartEach'
    <3>1. attempts' = attempts /\ ReplacePeriod(OpenPeriods(m), t, NewPeriod(m, s, NoWork, t))
      BY <2>4 DEF ChangeState
    <3>. QED
      BY <3>1, ReplaceStaysFinite DEF TablesInv, OneStartEach
  <2>. QED
    BY <2>1, <2>2, <2>3, <2>4 DEF Next, vars, AssignMachine, UpdateMachine
<1>. QED
  BY <1>1, <1>2 DEF TablesInv

\* The tables a report is read from: the readers change none.
THEOREM TablesStayInOrder == MetricsSpec => []TablesInv
<1>1. ViewInit => TablesInv
  <2>1. Init => TablesInv
    BY FloorAssumption, InitFloorInv, FS_EmptySet DEF Init, TablesInv, OneStartEach
  <2>. QED
    BY <2>1 DEF ViewInit
<1>2. TablesInv /\ [MetricsNext]_<<vars, viewVars>> => TablesInv'
  <2>1. [MetricsNext]_<<vars, viewVars>> => [Next]_vars
    BY DEF MetricsNext, ViewNext, Reader, GetOrder, GetWork, ReadOrder, ReadWorks, ReadAttempts,
           Leave, ReadReport, Goto
  <2>. QED
    BY <2>1, FloorAssumption, NextKeepsTables
<1>. QED
  BY <1>1, <1>2, PTL DEF MetricsSpec

-----------------------------------------------------------------------------
(***************************************************************************)
(* Windows.                                                                *)
(***************************************************************************)
IsWindow(w) == w.from \in Int /\ w.to \in Int /\ w.from < w.to

LEMMA WindowBounds ==
  ASSUME NEW w \in Windows
  PROVE  IsWindow(w)
<1>1. PICK f \in Instants \cup {Absent}, t \in Instants \cup {Absent}, now \in Instants :
        w = [from |-> WindowStart(f, WindowEnd(t, now)), to |-> WindowEnd(t, now)]
  BY DEF Windows
<1>2. Instants \subseteq Int /\ DefaultSpan \in Int
  BY MetricsAssumption DEF MetricsAssumption
<1>3. WindowEnd(t, now) \in Int
  BY <1>2 DEF WindowEnd
<1>4. WindowStart(f, WindowEnd(t, now)) \in Int
  BY <1>2, <1>3 DEF WindowStart
<1>5. w.to > w.from
  BY DEF Windows
<1>. QED
  BY <1>1, <1>3, <1>4, <1>5 DEF IsWindow

\* The times of a row: it starts before it ends, unless it is open.
TimesOf(h) ==
  /\ h.start \in Nat
  /\ h.end # Open => h.end \in Nat /\ h.start < h.end

LEMMA RowTimes ==
  ASSUME FloorAssumption, FloorInv
  PROVE  (\A h \in history : TimesOf(h)) /\ (\A a \in attempts : TimesOf(a))
<1>1. \A h \in history : TimesOf(h)
  BY DEF FloorInv, TypeOK, Period, FloorAssumption, Tiled, TimesOf
<1>2. \A a \in attempts : PeriodOf(a) \in history /\ PeriodOf(a).start = a.start /\ PeriodOf(a).end = a.end
  BY DEF FloorInv, HistoryMatchesAttempts, PeriodOf
<1>. QED
  BY <1>1, <1>2 DEF TimesOf

-----------------------------------------------------------------------------
(***************************************************************************)
(* The history of a machine.                                               *)
(***************************************************************************)

\* The open period is the last to start, and the only one that nothing follows.
LEMMA OpenIsLast ==
  ASSUME FloorAssumption, FloorInv, NEW m, NEW p \in PeriodsOf(m), p.end = Open
  PROVE  \A h \in PeriodsOf(m) : h # p => h.end # Open /\ h.start < h.end /\ h.end <= p.start
<1>1. \A h \in PeriodsOf(m) : h \in history /\ h.machine = m
  BY DEF PeriodsOf
<1>. QED
  BY <1>1 DEF FloorInv, Tiled

LEMMA FirstShownIsCurrent ==
  ASSUME FloorAssumption, FloorInv, NEW m, NEW from
  PROVE  FirstShown(History(m, from, Absent)) = Current(m)
<1>. DEFINE shown == History(m, from, Absent)
<1>1. shown \subseteq PeriodsOf(m) /\ \A h \in PeriodsOf(m) : h.end = Open => h \in shown
  BY DEF History
<1>2. Current(m) = {h \in PeriodsOf(m) : h.end = Open}
  BY DEF Current, OpenPeriods, PeriodsOf
<1>3. \A h \in PeriodsOf(m) : TimesOf(h)
  BY RowTimes DEF PeriodsOf
<1>. HIDE DEF shown
<1>4. CASE PeriodsOf(m) = {}
  <2>1. shown = {} /\ Current(m) = {}
    BY <1>1, <1>2, <1>4
  <2>2. FirstShown({}) = {}
    BY DEF FirstShown
  <2>. QED
    BY <2>1, <2>2 DEF shown
<1>5. CASE PeriodsOf(m) # {}
  <2>1. PICK p \in PeriodsOf(m) : p.end = Open
    BY <1>5 DEF FloorInv, OneOpenPeriod, OpenPeriods, PeriodsOf
  <2>2. p \in shown /\ TimesOf(p)
    BY <1>1, <1>3, <2>1
  <2>3. \A h \in PeriodsOf(m) : h # p => h.end # Open /\ h.start < p.start
    <3>1. \A h \in PeriodsOf(m) : h # p => h.end # Open /\ h.start < h.end /\ h.end <= p.start
      BY <2>1, OpenIsLast
    <3>. QED
      BY <1>3, <2>2, <3>1 DEF TimesOf
  <2>4. \A h \in shown : h.start <= p.start
    BY <1>1, <1>3, <2>2, <2>3 DEF TimesOf
  <2>5. \A h \in shown : h # p => ~(p.start <= h.start)
    BY <1>1, <1>3, <2>2, <2>3 DEF TimesOf
  <2>6. FirstShown(shown) = {p}
    BY <2>2, <2>4, <2>5 DEF FirstShown
  <2>7. Current(m) = {p}
    BY <1>2, <2>1, <2>3
  <2>. QED
    BY <2>6, <2>7 DEF shown
<1>. QED
  BY <1>4, <1>5

\* The history asked for a window holds what a report of it counts, and begins
\* with the machine's current state.
THEOREM HistoriesAgree == MetricsSpec => []HistoryAgrees
<1>1. TablesInv => HistoryAgrees
  <2>. SUFFICES ASSUME FloorInv, NEW m \in Machines
                PROVE  /\ \A w \in Windows :
                            LET counted == {h \in PeriodsOf(m) : Counted(h, w)}
                                shown   == History(m, w.from, w.to) IN
                            /\ counted \subseteq shown
                            /\ \A h \in shown \ counted : h.start = w.to \/ h.end = w.from
                       /\ \A from \in Instants \cup {Absent} :
                            FirstShown(History(m, from, Absent)) = Current(m)
    BY DEF TablesInv, HistoryAgrees
  <2>1. ASSUME NEW w \in Windows, NEW h \in PeriodsOf(m)
        PROVE  /\ Counted(h, w) => h \in History(m, w.from, w.to)
               /\ h \in History(m, w.from, w.to) /\ ~Counted(h, w) => h.start = w.to \/ h.end = w.from
    <3>1. IsWindow(w)
      BY WindowBounds
    <3>2. w.from # Absent /\ w.to # Absent
      BY <3>1, MetricsAssumption DEF IsWindow, MetricsAssumption
    <3>3. TimesOf(h)
      BY FloorAssumption, RowTimes DEF PeriodsOf
    <3>4. CASE h.end = Open
      BY <3>1, <3>2, <3>3, <3>4 DEF IsWindow, TimesOf, Counted, History
    <3>5. CASE h.end # Open
      BY <3>1, <3>2, <3>3, <3>5 DEF IsWindow, TimesOf, Counted, History
    <3>. QED
      BY <3>4, <3>5
  <2>2. \A w \in Windows : History(m, w.from, w.to) \subseteq PeriodsOf(m)
    BY DEF History
  <2>3. \A from \in Instants \cup {Absent} : FirstShown(History(m, from, Absent)) = Current(m)
    BY FloorAssumption, FirstShownIsCurrent
  <2>. QED
    BY <2>1, <2>2, <2>3
<1>. QED
  BY <1>1, TablesStayInOrder, PTL

-----------------------------------------------------------------------------
(***************************************************************************)
(* The part of a period that falls in a window.                            *)
(***************************************************************************)
Clipped(h, w) == IF Counted(h, w) THEN Length(h, w) ELSE 0

LEMMA ClippedIsTime ==
  ASSUME NEW h, TimesOf(h), NEW w, IsWindow(w)
  PROVE  Clipped(h, w) \in Nat
<1>1. CASE h.end = Open
  BY <1>1 DEF TimesOf, IsWindow, Clipped, Counted, Length, Greatest
<1>2. CASE h.end # Open
  BY <1>2 DEF TimesOf, IsWindow, Clipped, Counted, Length, Greatest, Least
<1>. QED
  BY <1>1, <1>2

\* Of two windows that meet, each has its own part.
LEMMA ClippedAdds ==
  ASSUME NEW h, TimesOf(h), NEW v, NEW w, NEW u, IsWindow(v), IsWindow(w), v.to = w.from,
         u.from = v.from, u.to = w.to
  PROVE  Clipped(h, u) = Clipped(h, v) + Clipped(h, w)
<1>1. CASE h.end = Open
  BY <1>1 DEF TimesOf, IsWindow, Clipped, Counted, Length, Greatest
<1>2. CASE h.end # Open
  BY <1>2 DEF TimesOf, IsWindow, Clipped, Counted, Length, Greatest, Least
<1>. QED
  BY <1>1, <1>2

\* What adds nothing may be left out of a sum.
LEMMA SumDrops ==
  ASSUME NEW f, NEW g, NEW S, NEW T, IsFiniteSet(T), S \subseteq T, Alike(f, g, S), Numeric(f, S),
         \A x \in T \ S : g[x] = 0
  PROVE  SumFunctionOnSet(f, S) = SumFunctionOnSet(g, T)
<1>1. IsFiniteSet(S) /\ IsFiniteSet(T \ S)
  BY FS_Subset
<1>2. Numeric(g, T \ S) /\ Numeric(g, S)
  BY DEF Numeric, Alike
<1>3. SumFunctionOnSet(g, T \ S) = 0
  <2>1. \A x \in T \ S : g[x] = g[x] + g[x]
    OBVIOUS
  <2>2. SumFunctionOnSet(g, T \ S) = SumFunctionOnSet(g, T \ S) + SumFunctionOnSet(g, T \ S)
    BY <1>1, <1>2, <2>1, SumAdds
  <2>3. SumFunctionOnSet(g, T \ S) \in Int
    BY <1>1, <1>2, SumTakes
  <2>. QED
    BY <2>2, <2>3
<1>4. S \cup (T \ S) = T /\ S \cap (T \ S) = {}
  OBVIOUS
<1>5. SumFunctionOnSet(g, S \cup (T \ S)) = SumFunctionOnSet(g, S) + SumFunctionOnSet(g, T \ S)
  BY <1>1, <1>2, <1>4, SumSplits
<1>6. SumFunctionOnSet(g, T) = SumFunctionOnSet(g, S) + 0
  BY <1>3, <1>4, <1>5
<1>7. SumFunctionOnSet(f, S) = SumFunctionOnSet(g, S)
  BY <1>1, SameSum
<1>8. SumFunctionOnSet(g, S) \in Int
  BY <1>1, <1>2, SumTakes
<1>. QED
  BY <1>6, <1>7, <1>8

\* The seconds of a machine, as a sum over all its periods.
InStates(m, states, w) ==
  [h \in PeriodsOf(m) |-> IF h.state \in states THEN Clipped(h, w) ELSE 0]

LEMMA PeriodsAreFinite ==
  ASSUME TablesInv, NEW m
  PROVE  IsFiniteSet(PeriodsOf(m)) /\ \A h \in PeriodsOf(m) : TimesOf(h)
<1>1. PeriodsOf(m) \subseteq history
  BY DEF PeriodsOf
<1>. QED
  BY <1>1, FloorAssumption, RowTimes, FS_Subset DEF TablesInv

LEMMA SecondsAreClipped ==
  ASSUME TablesInv, NEW m, NEW states, NEW w, IsWindow(w)
  PROVE  /\ Numeric(InStates(m, states, w), PeriodsOf(m))
         /\ \A h \in PeriodsOf(m) : InStates(m, states, w)[h] \in Nat
         /\ Seconds(m, states, w) = SumFunctionOnSet(InStates(m, states, w), PeriodsOf(m))
         /\ Seconds(m, states, w) \in Nat
<1>. DEFINE g == InStates(m, states, w)
            S == {p \in PeriodsOf(m) : p.state \in states /\ Counted(p, w)}
            f == [h \in S |-> Length(h, w)]
<1>1. \A h \in PeriodsOf(m) : Clipped(h, w) \in Nat
  BY PeriodsAreFinite, ClippedIsTime
<1>2. \A h \in PeriodsOf(m) : g[h] \in Nat
  BY <1>1 DEF InStates
<1>3. Numeric(g, PeriodsOf(m))
  BY <1>2 DEF Numeric
<1>4. S \subseteq PeriodsOf(m)
  OBVIOUS
<1>5. Alike(f, g, S) /\ \A h \in PeriodsOf(m) \ S : g[h] = 0
  BY DEF InStates, Clipped, Alike
<1>6. Numeric(f, S)
  BY <1>2, <1>4, <1>5 DEF Numeric, Alike
<1>7. Seconds(m, states, w) = SumFunctionOnSet(f, S)
  BY DEF Seconds, SumFunction
<1>. HIDE DEF f, g, S
<1>8. SumFunctionOnSet(f, S) = SumFunctionOnSet(g, PeriodsOf(m))
  BY <1>4, <1>5, <1>6, PeriodsAreFinite, SumDrops
<1>9. SumFunctionOnSet(g, PeriodsOf(m)) \in Nat
  BY <1>2, PeriodsAreFinite, SumNotNegative
<1>. QED
  BY <1>2, <1>3, <1>7, <1>8, <1>9 DEF g

LEMMA SecondsAdd ==
  ASSUME TablesInv, NEW m, NEW states, NEW v, NEW w, NEW u, IsWindow(v), IsWindow(w), IsWindow(u),
         v.to = w.from, u.from = v.from, u.to = w.to
  PROVE  Seconds(m, states, u) = Seconds(m, states, v) + Seconds(m, states, w)
<1>. DEFINE P == PeriodsOf(m)
            f == InStates(m, states, v)
            g == InStates(m, states, w)
            h == InStates(m, states, u)
<1>1. \A x \in P : h[x] = f[x] + g[x]
  <2>1. ASSUME NEW x \in P
        PROVE  Clipped(x, u) = Clipped(x, v) + Clipped(x, w)
    BY PeriodsAreFinite, ClippedAdds
  <2>. QED
    BY <2>1 DEF InStates
<1>2. /\ Numeric(f, P) /\ Numeric(g, P) /\ IsFiniteSet(P)
      /\ Seconds(m, states, u) = SumFunctionOnSet(h, P)
      /\ Seconds(m, states, v) = SumFunctionOnSet(f, P)
      /\ Seconds(m, states, w) = SumFunctionOnSet(g, P)
  BY SecondsAreClipped, PeriodsAreFinite
<1>. HIDE DEF P, f, g, h
<1>. QED
  BY <1>1, <1>2, SumAdds

-----------------------------------------------------------------------------
(***************************************************************************)
(* Figures of windows that meet.                                           *)
(***************************************************************************)
FigureNames == {"recorded", "working", "completed", "failed", "revenue", "unpriced"}

Won(as) == {a \in as : a.result = "EXITOSO"}
PriceOf == [a \in attempts |-> Price[a.work]]

LEMMA EndedAreAttempts ==
  ASSUME TablesInv, NEW m, NEW w
  PROVE  Ended(m, w) \subseteq attempts /\ IsFiniteSet(Ended(m, w))
<1>1. Ended(m, w) \subseteq attempts
  BY DEF Ended
<1>. QED
  BY <1>1, FS_Subset DEF TablesInv

\* What is paid for some attempts.
LEMMA RevenueIsSum ==
  ASSUME TablesInv, NEW as, as \subseteq attempts
  PROVE  /\ SumFunction([a \in PaidFor(as) |-> Price[a.work]]) = SumFunctionOnSet(PriceOf, PaidFor(as))
         /\ Numeric(PriceOf, PaidFor(as))
         /\ IsFiniteSet(PaidFor(as))
         /\ SumFunctionOnSet(PriceOf, PaidFor(as)) \in Int
<1>. DEFINE S == PaidFor(as)
            f == [a \in S |-> Price[a.work]]
<1>1. S \subseteq attempts
  BY DEF PaidFor
<1>2. \A a \in S : f[a] = PriceOf[a] /\ PriceOf[a] \in Int
  <2>1. \A a \in attempts : a.work \in Works
    BY DEF TablesInv, FloorInv, TypeOK, Attempt
  <2>2. \A w \in Works : Price[w] # NoPrice => Price[w] \in Int
    BY MetricsAssumption DEF MetricsAssumption
  <2>3. \A a \in S : Price[a.work] # NoPrice
    BY DEF PaidFor
  <2>. QED
    BY <1>1, <2>1, <2>2, <2>3 DEF PriceOf
<1>3. IsFiniteSet(S)
  BY <1>1, FS_Subset DEF TablesInv
<1>4. Alike(f, PriceOf, S) /\ Numeric(PriceOf, S)
  BY <1>2 DEF Alike, Numeric
<1>5. SumFunction(f) = SumFunctionOnSet(f, S)
  BY DEF SumFunction
<1>. HIDE DEF f, S
<1>6. SumFunctionOnSet(f, S) = SumFunctionOnSet(PriceOf, S)
  BY <1>3, <1>4, SameSum
<1>7. SumFunctionOnSet(PriceOf, S) \in Int
  BY <1>3, <1>4, SumTakes
<1>. QED
  BY <1>3, <1>4, <1>5, <1>6, <1>7 DEF f, S

\* The figures of some attempts.
LEMMA FiguresOf ==
  ASSUME TablesInv, NEW m, NEW w, IsWindow(w)
  PROVE  LET ended == Ended(m, w) IN
         /\ Figures(m, w).recorded = Seconds(m, States, w)
         /\ Figures(m, w).working = Seconds(m, {"TRABAJANDO"}, w)
         /\ Figures(m, w).completed = Cardinality(Won(ended))
         /\ Figures(m, w).failed = Cardinality(ended \ Won(ended))
         /\ Figures(m, w).revenue = SumFunctionOnSet(PriceOf, PaidFor(ended))
         /\ Figures(m, w).unpriced = Cardinality(Won(ended) \ PaidFor(ended))
<1>. DEFINE ended == Ended(m, w)
<1>1. SumFunction([a \in PaidFor(ended) |-> Price[a.work]]) = SumFunctionOnSet(PriceOf, PaidFor(ended))
  BY EndedAreAttempts, RevenueIsSum
<1>. QED
  BY <1>1 DEF Figures, Won

LEMMA FiguresAreNumbers ==
  ASSUME TablesInv, NEW m, NEW w, IsWindow(w), NEW f \in FigureNames
  PROVE  Figures(m, w)[f] \in Int
<1>. DEFINE ended == Ended(m, w)
<1>1. ended \subseteq attempts /\ IsFiniteSet(ended)
  BY EndedAreAttempts
<1>. HIDE DEF ended
<1>2. /\ Won(ended) \in SUBSET ended
      /\ (ended \ Won(ended)) \in SUBSET ended
      /\ (Won(ended) \ PaidFor(ended)) \in SUBSET ended
  BY DEF Won
<1>3. /\ Cardinality(Won(ended)) \in Nat
      /\ Cardinality(ended \ Won(ended)) \in Nat
      /\ Cardinality(Won(ended) \ PaidFor(ended)) \in Nat
  BY <1>1, <1>2, FS_Subset, FS_CardinalityType
<1>4. Seconds(m, States, w) \in Nat /\ Seconds(m, {"TRABAJANDO"}, w) \in Nat
  BY SecondsAreClipped
<1>5. SumFunctionOnSet(PriceOf, PaidFor(ended)) \in Int
  BY <1>1, RevenueIsSum
<1>. QED
  BY <1>3, <1>4, <1>5, FiguresOf DEF FigureNames, ended

\* Sizes of what two sets without a common element have of a kind.
LEMMA CountsAdd ==
  ASSUME NEW S, NEW T, IsFiniteSet(S), IsFiniteSet(T), S \cap T = {}
  PROVE  Cardinality(S \cup T) = Cardinality(S) + Cardinality(T)
<1>1. Cardinality(S \cup T) = Cardinality(S) + Cardinality(T) - Cardinality(S \cap T)
  BY FS_Union
<1>2. Cardinality(S \cap T) = 0 /\ Cardinality(S) \in Nat /\ Cardinality(T) \in Nat
  BY FS_EmptySet, FS_CardinalityType
<1>. QED
  BY <1>1, <1>2

\* No attempt ends in two windows that meet, or between them.
LEMMA EndedSplits ==
  ASSUME TablesInv, NEW m, NEW v, NEW w, NEW u, IsWindow(v), IsWindow(w),
         v.to = w.from, u.from = v.from, u.to = w.to
  PROVE  /\ Ended(m, u) = Ended(m, v) \cup Ended(m, w)
         /\ Ended(m, v) \cap Ended(m, w) = {}
<1>1. \A a \in attempts : a.end # Open => a.end \in Nat
  BY FloorAssumption, RowTimes DEF TablesInv, TimesOf
<1>. QED
  BY <1>1 DEF Ended, IsWindow

LEMMA FiguresAdd ==
  ASSUME TablesInv, NEW m, NEW v, NEW w, NEW u, IsWindow(v), IsWindow(w), IsWindow(u),
         v.to = w.from, u.from = v.from, u.to = w.to, NEW f \in FigureNames
  PROVE  Figures(m, u)[f] = Figures(m, v)[f] + Figures(m, w)[f]
<1>. DEFINE A == Ended(m, v)
            B == Ended(m, w)
            C == Ended(m, u)
<1>1. C = A \cup B /\ A \cap B = {}
  BY EndedSplits
<1>2. /\ A \subseteq attempts /\ B \subseteq attempts
      /\ IsFiniteSet(A) /\ IsFiniteSet(B)
  BY EndedAreAttempts
<1>. HIDE DEF A, B, C
<1>3. /\ Won(C) = Won(A) \cup Won(B)
      /\ C \ Won(C) = (A \ Won(A)) \cup (B \ Won(B))
      /\ PaidFor(C) = PaidFor(A) \cup PaidFor(B)
      /\ Won(C) \ PaidFor(C) = (Won(A) \ PaidFor(A)) \cup (Won(B) \ PaidFor(B))
  BY <1>1 DEF Won, PaidFor
<1>4. /\ Won(A) \cap Won(B) = {}
      /\ (A \ Won(A)) \cap (B \ Won(B)) = {}
      /\ PaidFor(A) \cap PaidFor(B) = {}
      /\ (Won(A) \ PaidFor(A)) \cap (Won(B) \ PaidFor(B)) = {}
  BY <1>1 DEF Won, PaidFor
<1>5. \A D \in SUBSET A : IsFiniteSet(D)
  BY <1>2, FS_Subset
<1>6. \A D \in SUBSET B : IsFiniteSet(D)
  BY <1>2, FS_Subset
<1>7. \A D \in {A, B} : Won(D) \in SUBSET D /\ (D \ Won(D)) \in SUBSET D
                        /\ (Won(D) \ PaidFor(D)) \in SUBSET D
  BY DEF Won
<1>8. Cardinality(Won(C)) = Cardinality(Won(A)) + Cardinality(Won(B))
  BY <1>3, <1>4, <1>5, <1>6, <1>7, CountsAdd
<1>9. Cardinality(C \ Won(C)) = Cardinality(A \ Won(A)) + Cardinality(B \ Won(B))
  BY <1>3, <1>4, <1>5, <1>6, <1>7, CountsAdd
<1>10. Cardinality(Won(C) \ PaidFor(C))
         = Cardinality(Won(A) \ PaidFor(A)) + Cardinality(Won(B) \ PaidFor(B))
  BY <1>3, <1>4, <1>5, <1>6, <1>7, CountsAdd
<1>11. SumFunctionOnSet(PriceOf, PaidFor(C))
         = SumFunctionOnSet(PriceOf, PaidFor(A)) + SumFunctionOnSet(PriceOf, PaidFor(B))
  <2>1. /\ Numeric(PriceOf, PaidFor(A)) /\ IsFiniteSet(PaidFor(A))
        /\ Numeric(PriceOf, PaidFor(B)) /\ IsFiniteSet(PaidFor(B))
    BY <1>2, RevenueIsSum
  <2>2. SumFunctionOnSet(PriceOf, PaidFor(A) \cup PaidFor(B))
          = SumFunctionOnSet(PriceOf, PaidFor(A)) + SumFunctionOnSet(PriceOf, PaidFor(B))
    BY <1>4, <2>1, SumSplits
  <2>. QED
    BY <1>3, <2>2
<1>12. Seconds(m, States, u) = Seconds(m, States, v) + Seconds(m, States, w)
  BY SecondsAdd
<1>13. Seconds(m, {"TRABAJANDO"}, u)
         = Seconds(m, {"TRABAJANDO"}, v) + Seconds(m, {"TRABAJANDO"}, w)
  BY SecondsAdd
<1>14. CASE f \in {"recorded", "working"}
  BY <1>12, <1>13, <1>14, FiguresOf
<1>15. CASE f = "completed"
  BY <1>8, <1>15, FiguresOf DEF A, B, C
<1>16. CASE f = "failed"
  BY <1>9, <1>16, FiguresOf DEF A, B, C
<1>17. CASE f = "unpriced"
  BY <1>10, <1>17, FiguresOf DEF A, B, C
<1>18. CASE f = "revenue"
  BY <1>11, <1>18, FiguresOf DEF A, B, C
<1>. QED
  BY <1>14, <1>15, <1>16, <1>17, <1>18 DEF FigureNames

\* What the service adds up over the machines.
LEMMA SummaryIsSum ==
  ASSUME NEW w
  PROVE  /\ DOMAIN Summary(w) = FigureNames
         /\ \A f \in FigureNames :
              Summary(w)[f] = SumFunctionOnSet([m \in Machines |-> Figures(m, w)[f]], Machines)
         /\ Summary(w) = [f \in FigureNames |-> Summary(w)[f]]
  BY DEF Summary, FigureNames, SumFunction

\* Reports of two windows that meet add up to that of both.
THEOREM ReportsAddUp ==
  ASSUME IsFiniteSet(Machines) PROVE MetricsSpec => []WindowsAddUp
<1>1. TablesInv => WindowsAddUp
  <2>. SUFFICES ASSUME TablesInv, NEW v \in Windows, NEW w \in Windows, v.to = w.from
                PROVE  Summary([from |-> v.from, to |-> w.to])
                         = [f \in DOMAIN Summary(v) |-> Summary(v)[f] + Summary(w)[f]]
    BY DEF WindowsAddUp
  <2>. DEFINE u == [from |-> v.from, to |-> w.to]
  <2>1. IsWindow(v) /\ IsWindow(w)
    BY WindowBounds
  <2>2. IsWindow(u) /\ u.from = v.from /\ u.to = w.to
    BY <2>1 DEF IsWindow
  <2>. HIDE DEF u
  <2>3. ASSUME NEW f \in FigureNames
        PROVE  Summary(u)[f] = Summary(v)[f] + Summary(w)[f]
    <3>. DEFINE a == [m \in Machines |-> Figures(m, v)[f]]
                b == [m \in Machines |-> Figures(m, w)[f]]
                c == [m \in Machines |-> Figures(m, u)[f]]
    <3>1. \A m \in Machines : c[m] = a[m] + b[m]
      BY <2>1, <2>2, FiguresAdd
    <3>2. Numeric(a, Machines) /\ Numeric(b, Machines)
      BY <2>1, FiguresAreNumbers DEF Numeric
    <3>3. /\ Summary(u)[f] = SumFunctionOnSet(c, Machines)
          /\ Summary(v)[f] = SumFunctionOnSet(a, Machines)
          /\ Summary(w)[f] = SumFunctionOnSet(b, Machines)
      BY SummaryIsSum
    <3>. HIDE DEF a, b, c
    <3>. QED
      BY <3>1, <3>2, <3>3, SumAdds
  <2>4. /\ Summary(u) = [f \in FigureNames |-> Summary(u)[f]]
        /\ DOMAIN Summary(v) = FigureNames
    BY SummaryIsSum
  <2>5. Summary(u) = [f \in DOMAIN Summary(v) |-> Summary(v)[f] + Summary(w)[f]]
    BY <2>3, <2>4
  <2>. QED
    BY <2>5 DEF u
<1>. QED
  BY <1>1, TablesStayInOrder, PTL

-----------------------------------------------------------------------------
(***************************************************************************)
(* The time gone by.  From the last period back to any other, the parts of *)
(* the periods since add up to the time since.                             *)
(***************************************************************************)
Since(m, t) == {h \in PeriodsOf(m) : h.start >= t}
Left(w, t) == Greatest(0, w.to - Greatest(w.from, t))

LEMMA SumOfOne ==
  ASSUME NEW f, NEW x, f[x] \in Int
  PROVE  SumFunctionOnSet(f, {x}) = f[x]
<1>1. IsFiniteSet({}) /\ Numeric(f, {}) /\ x \notin {} /\ {} \cup {x} = {x}
  BY FS_EmptySet DEF Numeric
<1>2. SumFunctionOnSet(f, {} \cup {x}) = SumFunctionOnSet(f, {}) + f[x]
  BY <1>1, SumStep
<1>3. SumFunctionOnSet(f, {}) = 0
  BY SumOfNone
<1>. QED
  BY <1>1, <1>2, <1>3

\* A period and what is left after it.
LEMMA LeftAfter ==
  ASSUME NEW p, TimesOf(p), NEW w, IsWindow(w)
  PROVE  /\ p.end = Open => Clipped(p, w) = Left(w, p.start)
         /\ p.end # Open => Clipped(p, w) + Left(w, p.end) = Left(w, p.start)
<1>1. CASE p.end = Open
  BY <1>1 DEF TimesOf, IsWindow, Clipped, Counted, Length, Greatest, Left
<1>2. CASE p.end # Open
  BY <1>2 DEF TimesOf, IsWindow, Clipped, Counted, Length, Greatest, Least, Left
<1>. QED
  BY <1>1, <1>2

\* What comes since a period is it and what comes since the next.
LEMMA SinceUnfolds ==
  ASSUME TablesInv, NEW m, NEW p \in PeriodsOf(m)
  PROVE  /\ p.end = Open => Since(m, p.start) = {p}
         /\ p.end # Open =>
              \E q \in PeriodsOf(m) :
                /\ q.start = p.end
                /\ p \notin Since(m, q.start)
                /\ Since(m, p.start) = Since(m, q.start) \cup {p}
<1>1. \A h \in PeriodsOf(m) : TimesOf(h) /\ h \in history /\ h.machine = m
  BY PeriodsAreFinite DEF PeriodsOf
<1>2. ASSUME p.end = Open
      PROVE  Since(m, p.start) = {p}
  <2>1. \A h \in PeriodsOf(m) : h # p => h.end # Open /\ h.start < h.end /\ h.end <= p.start
    BY <1>2, FloorAssumption, OpenIsLast DEF TablesInv
  <2>. QED
    BY <1>1, <2>1 DEF Since, TimesOf
<1>3. ASSUME p.end # Open
      PROVE  \E q \in PeriodsOf(m) : /\ q.start = p.end
                                     /\ p \notin Since(m, q.start)
                                     /\ Since(m, p.start) = Since(m, q.start) \cup {p}
  <2>1. PICK q \in PeriodsOf(m) : q.start = p.end
    BY <1>1, <1>3 DEF TablesInv, FloorInv, Tiled
  <2>2. \A h \in PeriodsOf(m) : h # p => p.end <= h.start \/ (h.end # Open /\ h.end <= p.start)
    BY <1>1 DEF TablesInv, FloorInv, Tiled
  <2>3. p \notin Since(m, q.start)
    BY <1>1, <1>3, <2>1 DEF Since, TimesOf
  <2>4. \A h \in PeriodsOf(m) : h \in Since(m, p.start) <=> h = p \/ h \in Since(m, q.start)
    BY <1>1, <1>3, <2>1, <2>2 DEF Since, TimesOf
  <2>5. Since(m, p.start) = Since(m, q.start) \cup {p}
    BY <2>4 DEF Since
  <2>. QED
    BY <2>1, <2>3, <2>5
<1>. QED
  BY <1>2, <1>3

LEMMA SinceIsLeft ==
  ASSUME TablesInv, NEW m, NEW w, IsWindow(w), NEW g, \A h \in PeriodsOf(m) : g[h] = Clipped(h, w)
  PROVE  \A p \in PeriodsOf(m) : SumFunctionOnSet(g, Since(m, p.start)) = Left(w, p.start)
<1>. DEFINE Good(p) == SumFunctionOnSet(g, Since(m, p.start)) = Left(w, p.start)
            Bad == {p \in PeriodsOf(m) : ~Good(p)}
            U == {Since(m, p.start) : p \in Bad}
<1>0. \A t : Since(m, t) \subseteq PeriodsOf(m) /\ IsFiniteSet(Since(m, t)) /\ Numeric(g, Since(m, t))
  <2>1. \A h \in PeriodsOf(m) : g[h] \in Int
    BY PeriodsAreFinite, ClippedIsTime
  <2>2. \A t : Since(m, t) \subseteq PeriodsOf(m)
    BY DEF Since
  <2>. QED
    BY <2>1, <2>2, PeriodsAreFinite, FS_Subset DEF Numeric
<1>. SUFFICES ASSUME Bad # {}
              PROVE  FALSE
  OBVIOUS
<1>1. PICK s \in U : \A t \in U : Cardinality(s) <= Cardinality(t)
  <2>1. U # {} /\ \A t \in U : IsFiniteSet(t)
    BY <1>0
  <2>. HIDE DEF U
  <2>. QED
    BY <2>1, SmallestSet
<1>2. PICK p \in Bad : s = Since(m, p.start)
  OBVIOUS
<1>3. p \in PeriodsOf(m) /\ ~Good(p)
  OBVIOUS
<1>4. TimesOf(p) /\ g[p] = Clipped(p, w) /\ g[p] \in Int
  BY <1>3, PeriodsAreFinite, ClippedIsTime
<1>5. CASE p.end = Open
  <2>1. Since(m, p.start) = {p}
    BY <1>3, <1>5, SinceUnfolds
  <2>2. SumFunctionOnSet(g, {p}) = g[p]
    BY <1>4, SumOfOne
  <2>3. Clipped(p, w) = Left(w, p.start)
    BY <1>4, <1>5, LeftAfter
  <2>. QED
    BY <1>3, <1>4, <2>1, <2>2, <2>3
<1>6. CASE p.end # Open
  <2>1. PICK q \in PeriodsOf(m) : /\ q.start = p.end
                                  /\ p \notin Since(m, q.start)
                                  /\ Since(m, p.start) = Since(m, q.start) \cup {p}
    BY <1>3, <1>6, SinceUnfolds
  <2>2. Cardinality(Since(m, q.start)) \in Nat /\ Cardinality(s) = Cardinality(Since(m, q.start)) + 1
    BY <1>0, <1>2, <2>1, FS_AddElement, FS_CardinalityType
  <2>3. ~(Cardinality(s) <= Cardinality(Since(m, q.start)))
    BY <2>2
  <2>4. q \notin Bad
    <3>. HIDE DEF Bad
    <3>. QED
      BY <1>1, <2>3
  <2>5. SumFunctionOnSet(g, Since(m, q.start)) = Left(w, p.end)
    BY <2>1, <2>4
  <2>6. SumFunctionOnSet(g, Since(m, q.start) \cup {p}) = SumFunctionOnSet(g, Since(m, q.start)) + g[p]
    BY <1>0, <1>4, <2>1, SumStep
  <2>7. SumFunctionOnSet(g, Since(m, p.start)) = Left(w, p.end) + Clipped(p, w)
    BY <1>4, <2>1, <2>5, <2>6
  <2>8. Clipped(p, w) + Left(w, p.end) = Left(w, p.start) /\ Clipped(p, w) \in Int
    BY <1>4, <1>6, LeftAfter
  <2>9. Left(w, p.end) \in Int
    BY <1>4, <1>6 DEF Left, Greatest, IsWindow, TimesOf
  <2>. QED
    BY <1>3, <2>7, <2>8, <2>9
<1>. QED
  BY <1>5, <1>6

\* The hours of the states of a machine add up to the time gone by in the
\* window since its first period.
THEOREM HoursAreElapsed == MetricsSpec => []RecordedIsElapsed
<1>1. TablesInv => RecordedIsElapsed
  <2>. SUFFICES ASSUME TablesInv, NEW m \in Machines, NEW w \in Windows
                PROVE  Figures(m, w).recorded =
                         IF PeriodsOf(m) = {} THEN 0
                         ELSE LET first == CHOOSE h \in PeriodsOf(m) :
                                             \A p \in PeriodsOf(m) : h.start <= p.start
                              IN Greatest(0, w.to - Greatest(w.from, first.start))
    BY DEF RecordedIsElapsed
  <2>. DEFINE P == PeriodsOf(m)
              g == InStates(m, States, w)
  <2>1. IsWindow(w)
    BY WindowBounds
  <2>2. Figures(m, w).recorded = SumFunctionOnSet(g, P)
    BY <2>1, FiguresOf, SecondsAreClipped
  <2>3. \A h \in P : g[h] = Clipped(h, w)
    <3>1. \A h \in P : h.state \in States
      BY DEF PeriodsOf, TablesInv, FloorInv, TypeOK, Period
    <3>. QED
      BY <3>1 DEF InStates
  <2>4. CASE P = {}
    BY <2>2, <2>4, SumOfNone
  <2>5. CASE P # {}
    <3>. DEFINE Starts == {h.start : h \in P}
                First(h) == \A p \in P : h.start <= p.start
    <3>1. Starts \in SUBSET Nat /\ Starts # {}
      BY <2>5, PeriodsAreFinite DEF TimesOf
    <3>2. PICK t \in Starts : \A u \in Starts : t <= u
      <4>. HIDE DEF Starts
      <4>. QED
        BY <3>1, LeastNumber
    <3>3. \E h \in P : First(h)
      BY <3>2
    <3>. DEFINE first == CHOOSE h \in P : First(h)
    <3>4. first \in P /\ First(first)
      <4>. HIDE DEF First
      <4>. QED
        BY <3>3
    <3>. HIDE DEF first
    <3>5. P = Since(m, first.start)
      BY <3>4, PeriodsAreFinite DEF Since, TimesOf
    <3>6. SumFunctionOnSet(g, Since(m, first.start)) = Left(w, first.start)
      <4>. HIDE DEF g
      <4>. QED
        BY <2>1, <2>3, <3>4, SinceIsLeft
    <3>7. Figures(m, w).recorded = Left(w, first.start)
      <4>. HIDE DEF g, P
      <4>. QED
        BY <2>2, <3>5, <3>6
    <3>. QED
      BY <2>5, <3>7 DEF Left, first
  <2>. QED
    BY <2>4, <2>5
<1>. QED
  BY <1>1, TablesStayInOrder, PTL

-----------------------------------------------------------------------------
(***************************************************************************)
(* The attempts among the periods.                                         *)
(***************************************************************************)

\* The hours worked, read from the history, hold those of the attempts.
THEOREM HoursHoldAttempts == MetricsSpec => []AttemptsAreWorked
<1>1. TablesInv => AttemptsAreWorked
  <2>. SUFFICES ASSUME TablesInv, NEW m \in Machines, NEW w \in Windows
                PROVE  LET ran == {a \in attempts : a.machine = m /\ a.start < w.to
                                                    /\ (a.end = Open \/ a.end > w.from)} IN
                       Figures(m, w).working >=
                         SumFunction([a \in ran |-> (IF a.end = Open THEN w.to ELSE Least(a.end, w.to))
                                                    - Greatest(a.start, w.from)])
    BY DEF AttemptsAreWorked
  <2>. DEFINE P    == PeriodsOf(m)
              g    == InStates(m, {"TRABAJANDO"}, w)
              ran  == {a \in attempts : a.machine = m /\ a.start < w.to
                                        /\ (a.end = Open \/ a.end > w.from)}
              f    == [a \in ran |-> (IF a.end = Open THEN w.to ELSE Least(a.end, w.to))
                                     - Greatest(a.start, w.from)]
              name == [a \in ran |-> PeriodOf(a)]
              S    == Names(name, ran)
  <2>1. IsWindow(w)
    BY WindowBounds
  <2>2. /\ Figures(m, w).working = SumFunctionOnSet(g, P)
        /\ Numeric(g, P) /\ \A h \in P : g[h] \in Nat
        /\ IsFiniteSet(P)
    BY <2>1, FiguresOf, SecondsAreClipped, PeriodsAreFinite
  <2>3. ASSUME NEW a \in ran
        PROVE  name[a] \in P /\ g[name[a]] = f[a]
    <3>1. /\ name[a] \in history /\ name[a].machine = m /\ name[a].state = "TRABAJANDO"
          /\ name[a].start = a.start /\ name[a].end = a.end
      BY DEF PeriodOf, TablesInv, FloorInv, HistoryMatchesAttempts
    <3>2. name[a] \in P
      BY <3>1 DEF PeriodsOf
    <3>3. TimesOf(a)
      BY FloorAssumption, RowTimes DEF TablesInv
    <3>4. Counted(name[a], w)
      <4>. HIDE DEF name
      <4>. QED
        BY <2>1, <3>1, <3>3 DEF Counted, IsWindow, TimesOf
    <3>5. Length(name[a], w) = f[a]
      <4>. HIDE DEF name
      <4>. QED
        BY <3>1 DEF Length
    <3>. HIDE DEF name, f
    <3>. QED
      BY <3>1, <3>2, <3>4, <3>5 DEF InStates, Clipped
  <2>4. \A a, b \in ran : name[a] = name[b] => a = b
    <3>1. \A a \in ran : name[a].start = a.start
      BY DEF PeriodOf
    <3>. QED
      BY <3>1 DEF TablesInv, OneStartEach
  <2>5. IsFiniteSet(ran)
    <3>1. ran \subseteq attempts
      OBVIOUS
    <3>. HIDE DEF ran
    <3>. QED
      BY <3>1, FS_Subset DEF TablesInv
  <2>6. SumFunction(f) = SumFunctionOnSet(f, ran)
    BY DEF SumFunction
  <2>7. S \subseteq P
    <3>. HIDE DEF P, name, ran
    <3>. QED
      BY <2>3 DEF Names
  <2>. HIDE DEF P, g, ran, f, name
  <2>8. Numeric(f, ran)
    BY <2>2, <2>3 DEF Numeric
  <2>9. SumFunctionOnSet(g, S) = SumFunctionOnSet(f, ran) /\ IsFiniteSet(S)
    BY <2>3, <2>4, <2>5, <2>8, SumRenames
  <2>. HIDE DEF S
  <2>10. /\ IsFiniteSet(P \ S) /\ Numeric(g, S) /\ Numeric(g, P \ S)
         /\ S \cap (P \ S) = {} /\ S \cup (P \ S) = P
    BY <2>2, <2>7, FS_Subset DEF Numeric
  <2>11. SumFunctionOnSet(g, P) = SumFunctionOnSet(g, S) + SumFunctionOnSet(g, P \ S)
    <3>1. SumFunctionOnSet(g, S \cup (P \ S)) = SumFunctionOnSet(g, S) + SumFunctionOnSet(g, P \ S)
      BY <2>9, <2>10, SumSplits
    <3>. QED
      BY <2>10, <3>1
  <2>12. SumFunctionOnSet(g, P \ S) \in Nat /\ SumFunctionOnSet(g, S) \in Int
    BY <2>2, <2>9, <2>10, SumNotNegative, SumTakes
  <2>13. Figures(m, w).working >= SumFunction(f)
    BY <2>2, <2>6, <2>9, <2>11, <2>12
  <2>. QED
    BY <2>13 DEF f, ran
<1>. QED
  BY <1>1, TablesStayInOrder, PTL

-----------------------------------------------------------------------------
(***************************************************************************)
(* Successes.                                                              *)
(***************************************************************************)
CompletedWorks == {w \in Works : work[w].status = "COMPLETADO"}

\* A success has ended, and is the only one of its work.
LEMMA SuccessesAreCompletions ==
  ASSUME TablesInv
  PROVE  /\ \A a \in Won(attempts) : a.end # Open /\ a.machine \in Machines /\ a.work \in Works
         /\ \A a, b \in Won(attempts) : a.work = b.work => a = b
         /\ CompletedWorks = {a.work : a \in Won(attempts)}
<1>1. \A a \in attempts : a.work \in Works /\ a.machine \in Machines /\ a.number \in Nat
  BY DEF TablesInv, FloorInv, TypeOK, Attempt
<1>2. \A w \in Works : work[w].status = "COMPLETADO" <=> \E a \in attempts : a.work = w /\ a.result = "EXITOSO"
  BY DEF TablesInv, FloorInv, CompletedBySuccess, AttemptsOf
<1>3. ASSUME NEW a \in Won(attempts)
      PROVE  a.end # Open /\ a.machine \in Machines /\ a.work \in Works
  <2>1. a \in attempts /\ a.result = "EXITOSO"
    BY DEF Won
  <2>2. work[a.work].status = "COMPLETADO" /\ a.work \in Works
    BY <1>1, <1>2, <2>1
  <2>3. a \notin OpenAttempts(a.work)
    BY <2>2 DEF TablesInv, FloorInv, RunningWork
  <2>. QED
    BY <1>1, <2>1, <2>3 DEF OpenAttempts
<1>4. ASSUME NEW a \in Won(attempts), NEW b \in Won(attempts), a.work = b.work
      PROVE  a = b
  <2>1. /\ a \in attempts /\ a.result = "EXITOSO" /\ b \in attempts /\ b.result = "EXITOSO"
        /\ a \in AttemptsOf(a.work) /\ b \in AttemptsOf(a.work)
    BY <1>4 DEF Won, AttemptsOf
  <2>2. a.number <= b.number /\ b.number <= a.number
    BY <1>1, <2>1 DEF TablesInv, FloorInv, CompletedBySuccess
  <2>3. a.number = b.number
    BY <1>1, <2>1, <2>2
  <2>. QED
    BY <1>1, <2>1, <2>3 DEF TablesInv, FloorInv, Numbered
<1>5. CompletedWorks = {a.work : a \in Won(attempts)}
  BY <1>1, <1>2 DEF CompletedWorks, Won
<1>. QED
  BY <1>3, <1>4, <1>5

On(K, m) == {a \in K : a.machine = m}
WorksIn(K) == {a.work : a \in K}

\* What is added up over the machines, of each one's successes, is added up over
\* the works.
LEMMA SumOverMachines ==
  ASSUME TablesInv, IsFiniteSet(Machines), NEW K, K \subseteq Won(attempts), NEW f, Numeric(f, K),
         NEW g, \A a \in K : g[a.work] = f[a],
         NEW h, \A m \in Machines : h[m] = SumFunctionOnSet(f, On(K, m))
  PROVE  /\ SumFunctionOnSet(h, Machines) = SumFunctionOnSet(g, WorksIn(K))
         /\ IsFiniteSet(WorksIn(K))
<1>. DEFINE part == [m \in Machines |-> On(K, m)]
            name == [a \in K |-> a.work]
<1>1. IsFiniteSet(K)
  <2>1. K \subseteq attempts
    BY DEF Won
  <2>. QED
    BY <2>1, FS_Subset DEF TablesInv
<1>2. \A m \in Machines : /\ IsFiniteSet(part[m]) /\ Numeric(f, part[m])
                          /\ h[m] = SumFunctionOnSet(f, part[m])
  BY <1>1, FS_Subset DEF Numeric, On
<1>3. \A m, n \in Machines : m # n => part[m] \cap part[n] = {}
  BY DEF On
<1>4. Joined(part, Machines) = K
  BY SuccessesAreCompletions DEF On, Joined
<1>5. \A a, b \in K : name[a] = name[b] => a = b
  BY SuccessesAreCompletions
<1>6. (\A a \in K : g[name[a]] = f[a]) /\ Names(name, K) = WorksIn(K)
  BY DEF Names, WorksIn
<1>. HIDE DEF part, name
<1>7. SumFunctionOnSet(h, Machines) = SumFunctionOnSet(f, Joined(part, Machines))
  BY <1>2, <1>3, SumOfParts
<1>8. /\ SumFunctionOnSet(g, Names(name, K)) = SumFunctionOnSet(f, K)
      /\ IsFiniteSet(Names(name, K))
  BY <1>1, <1>5, <1>6, SumRenames
<1>. QED
  BY <1>4, <1>6, <1>7, <1>8

\* The same for their number.
LEMMA CountOverMachines ==
  ASSUME TablesInv, IsFiniteSet(Machines), NEW K, K \subseteq Won(attempts),
         NEW h, \A m \in Machines : h[m] = Cardinality(On(K, m))
  PROVE  SumFunctionOnSet(h, Machines) = Cardinality(WorksIn(K))
<1>. DEFINE f == [a \in K |-> 1]
            V == WorksIn(K)
            g == [v \in V |-> 1]
<1>1. IsFiniteSet(K)
  <2>1. K \subseteq attempts
    BY DEF Won
  <2>. QED
    BY <2>1, FS_Subset DEF TablesInv
<1>2. ASSUME NEW m \in Machines
      PROVE  h[m] = SumFunctionOnSet(f, On(K, m))
  <2>. DEFINE S == On(K, m)
  <2>1. IsFiniteSet(S) /\ \A a \in S : f[a] = 1
    BY <1>1, FS_Subset DEF On
  <2>. HIDE DEF f
  <2>2. SumFunctionOnSet(f, S) = Cardinality(S)
    <3>. HIDE DEF S
    <3>. QED
      BY <2>1, SumCounts
  <2>. QED
    BY <2>2
<1>3. Numeric(f, K) /\ (\A a \in K : g[a.work] = f[a]) /\ \A v \in V : g[v] = 1
  BY DEF Numeric, WorksIn
<1>. HIDE DEF f, g
<1>4. SumFunctionOnSet(h, Machines) = SumFunctionOnSet(g, V) /\ IsFiniteSet(V)
  BY <1>2, <1>3, SumOverMachines
<1>5. SumFunctionOnSet(g, V) = Cardinality(V)
  <2>. HIDE DEF V
  <2>. QED
    BY <1>3, <1>4, SumCounts
<1>. QED
  BY <1>4, <1>5

\* A report of everything counts each completed work once and pays for it once.
\* It is of everything when its end is after the last instant, as the clock was.
THEOREM WorksAreCountedOnce ==
  ASSUME IsFiniteSet(Machines), NEW last \in Instants, \A t \in Instants \cup Times : t <= last
  PROVE  MetricsSpec => []CompletedOnce
<1>1. (CHOOSE t \in Instants : \A u \in Instants : u <= t) = last
  <2>1. Instants \subseteq Nat
    BY MetricsAssumption DEF MetricsAssumption
  <2>2. \A t \in Instants : (\A u \in Instants : u <= t) => t = last
    BY <2>1
  <2>. QED
    BY <2>2
<1>2. TablesInv => CompletedOnce
  <2>. SUFFICES ASSUME TablesInv
                PROVE  LET all == [from |-> 0, to |-> 1 + last] IN
                       /\ Summary(all).completed = Cardinality(CompletedWorks)
                       /\ Summary(all).revenue =
                            SumFunction([w \in {v \in CompletedWorks : Price[v] # NoPrice} |-> Price[w]])
                       /\ Summary(all).unpriced = Cardinality({w \in CompletedWorks : Price[w] = NoPrice})
    BY <1>1 DEF CompletedOnce, CompletedWorks
  <2>. DEFINE all    == [from |-> 0, to |-> 1 + last]
              W      == Won(attempts)
              priced == {a \in W : Price[a.work] # NoPrice}
              other  == {a \in W : Price[a.work] = NoPrice}
  <2>1. IsWindow(all) /\ all.from = 0 /\ all.to = 1 + last /\ last \in Nat
    BY MetricsAssumption DEF IsWindow, MetricsAssumption
  <2>. HIDE DEF all
  <2>2. \A m \in Machines : Ended(m, all) = {a \in attempts : a.machine = m /\ a.end # Open}
    <3>1. \A a \in attempts : a.end # Open => a.end \in Times /\ a.end \in Nat
      BY FloorAssumption DEF TablesInv, FloorInv, TypeOK, Attempt, FloorAssumption
    <3>2. \A a \in attempts : a.end # Open => a.end <= last
      BY <3>1
    <3>. QED
      BY <2>1, <3>1, <3>2 DEF Ended
  <2>3. \A m \in Machines :
          /\ Won(Ended(m, all)) = On(W, m)
          /\ PaidFor(Ended(m, all)) = On(priced, m)
          /\ Won(Ended(m, all)) \ PaidFor(Ended(m, all)) = On(other, m)
    BY <2>2, SuccessesAreCompletions DEF Won, PaidFor, On
  <2>4. priced \subseteq W /\ other \subseteq W
    OBVIOUS
  <2>5. /\ CompletedWorks = WorksIn(W)
        /\ {v \in CompletedWorks : Price[v] # NoPrice} = WorksIn(priced)
        /\ {v \in CompletedWorks : Price[v] = NoPrice} = WorksIn(other)
    BY SuccessesAreCompletions DEF WorksIn
  <2>. HIDE DEF priced, other
  <2>6. Summary(all).completed = Cardinality(CompletedWorks)
    <3>. DEFINE h == [m \in Machines |-> Figures(m, all)["completed"]]
    <3>1. Summary(all)["completed"] = SumFunctionOnSet(h, Machines)
      BY SummaryIsSum DEF FigureNames
    <3>2. \A m \in Machines : h[m] = Cardinality(On(W, m))
      BY <2>1, <2>3, FiguresOf
    <3>. HIDE DEF h
    <3>3. SumFunctionOnSet(h, Machines) = Cardinality(WorksIn(W))
      BY <3>2, CountOverMachines
    <3>. QED
      BY <2>5, <3>1, <3>3
  <2>7. Summary(all).unpriced = Cardinality({w \in CompletedWorks : Price[w] = NoPrice})
    <3>. DEFINE h == [m \in Machines |-> Figures(m, all)["unpriced"]]
    <3>1. Summary(all)["unpriced"] = SumFunctionOnSet(h, Machines)
      BY SummaryIsSum DEF FigureNames
    <3>2. \A m \in Machines : h[m] = Cardinality(On(other, m))
      BY <2>1, <2>3, FiguresOf
    <3>. HIDE DEF h
    <3>3. SumFunctionOnSet(h, Machines) = Cardinality(WorksIn(other))
      BY <2>4, <3>2, CountOverMachines
    <3>. QED
      BY <2>5, <3>1, <3>3
  <2>8. Summary(all).revenue =
          SumFunction([w \in {v \in CompletedWorks : Price[v] # NoPrice} |-> Price[w]])
    <3>. DEFINE h == [m \in Machines |-> Figures(m, all)["revenue"]]
                V == WorksIn(priced)
                g == [v \in V |-> Price[v]]
    <3>1. Summary(all)["revenue"] = SumFunctionOnSet(h, Machines)
      BY SummaryIsSum DEF FigureNames
    <3>2. \A m \in Machines : h[m] = SumFunctionOnSet(PriceOf, On(priced, m))
      BY <2>1, <2>3, FiguresOf
    <3>3. (\A a \in priced : g[a.work] = PriceOf[a]) /\ Numeric(PriceOf, priced)
      <4>1. \A a \in priced : a \in attempts /\ a.work \in Works /\ Price[a.work] # NoPrice
        BY SuccessesAreCompletions DEF priced, Won
      <4>2. \A v \in Works : Price[v] # NoPrice => Price[v] \in Int
        BY MetricsAssumption DEF MetricsAssumption
      <4>. QED
        BY <4>1, <4>2 DEF PriceOf, Numeric, WorksIn
    <3>4. SumFunction(g) = SumFunctionOnSet(g, V)
      BY DEF SumFunction
    <3>. HIDE DEF h, g
    <3>5. SumFunctionOnSet(h, Machines) = SumFunctionOnSet(g, V)
      BY <2>4, <3>2, <3>3, SumOverMachines
    <3>. QED
      BY <2>5, <3>1, <3>4, <3>5 DEF g
  <2>. QED
    BY <2>6, <2>7, <2>8 DEF all
<1>. QED
  BY <1>2, TablesStayInOrder, PTL

=============================================================================
