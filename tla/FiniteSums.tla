------------------------------- MODULE FiniteSums ------------------------------
(***************************************************************************)
(* Sums over finite sets, for the token accounts of BudgetLedger.           *)
(*                                                                         *)
(* Total(g, S) is what MapThenSumSet computes of a function g: the value at *)
(* S of the function that takes the elements of a subset one by one, in the *)
(* order of CHOOSE.  Every lemma is an induction on subsets of S, written   *)
(* as a search for a smallest subset at which it would be false.            *)
(***************************************************************************)
EXTENDS Integers, FiniteSets, FiniteSetTheorems, WellFoundedInduction, TLAPS

Chosen(s) == CHOOSE x \in s : TRUE

\* f adds up g over every subset of S.
Adds(f, g, S) ==
    f = [s \in SUBSET S |-> IF s = {} THEN 0 ELSE g[Chosen(s)] + f[s \ {Chosen(s)}]]

Adder(g, S) == CHOOSE f : Adds(f, g, S)

Total(g, S) == Adder(g, S)[S]

--------------------------------------------------------------------------------
\* The element CHOOSE takes from a set is one of its elements.
LEMMA ChosenIsMember == ASSUME NEW s, s # {} PROVE Chosen(s) \in s
<1>1. \E x : x \in s
  OBVIOUS
<1> QED
  BY <1>1, Zenon DEF Chosen

\* Among subsets of a finite set there is a smallest one: none of the others lies
\* strictly inside it.
LEMMA SmallestSubset ==
    ASSUME NEW S, IsFiniteSet(S), NEW B \in SUBSET (SUBSET S), B # {}
    PROVE  \E T \in B : \A U \in B : U \subseteq T => U = T
<1> DEFINE sizes == {n \in Nat : \E T \in B : Cardinality(T) = n}
<1>1. \A T \in B : IsFiniteSet(T) /\ Cardinality(T) \in Nat
  BY FS_Subset, FS_CardinalityType
<1>2. sizes \subseteq Nat /\ sizes # {}
  BY <1>1
<1> HIDE DEF sizes
<1>3. PICK n \in sizes : \A m \in sizes : ~ (<<m, n>> \in OpToRel(<, Nat))
  BY <1>2, NatLessThanWellFounded, WFMin
<1>4. \A m \in sizes : n <= m
  <2>1. OpToRel(<, Nat) = {p \in Nat \X Nat : p[1] < p[2]}
    BY Zenon DEF OpToRel
  <2>2. ASSUME NEW m \in sizes PROVE ~ (m < n)
    <3>1. <<m, n>> \notin {p \in Nat \X Nat : p[1] < p[2]}
      BY <1>3, <2>1
    <3> QED
      BY <1>2, <3>1
  <2> QED
    BY <1>2, <2>2
<1>5. PICK T \in B : Cardinality(T) = n
  BY DEF sizes
<1>6. ASSUME NEW U \in B, U \subseteq T PROVE U = T
  <2>1. Cardinality(U) \in sizes
    BY <1>1 DEF sizes
  <2>2. Cardinality(U) <= Cardinality(T) /\ (Cardinality(T) = Cardinality(U) => T = U)
    BY <1>1, <1>6, FS_Subset
  <2> QED
    BY <1>1, <1>4, <1>5, <2>1, <2>2
<1> QED
  BY <1>6

\* Two functions that add up g agree wherever both are defined.
LEMMA AddersAgree ==
    ASSUME NEW g, NEW S, IsFiniteSet(S), NEW T, NEW f, Adds(f, g, S), NEW h, Adds(h, g, T)
    PROVE  \A s \in (SUBSET S) \cap (SUBSET T) : f[s] = h[s]
<1> DEFINE B == {s \in (SUBSET S) \cap (SUBSET T) : f[s] # h[s]}
<1>1. SUFFICES ASSUME B # {} PROVE FALSE
  OBVIOUS
<1>2. PICK s \in B : \A u \in B : u \subseteq s => u = s
  <2>1. B \in SUBSET (SUBSET S)
    OBVIOUS
  <2> HIDE DEF B
  <2> QED
    BY <1>1, <2>1, SmallestSubset
<1> DEFINE rest == s \ {Chosen(s)}
<1>3. /\ f[s] = IF s = {} THEN 0 ELSE g[Chosen(s)] + f[rest]
      /\ h[s] = IF s = {} THEN 0 ELSE g[Chosen(s)] + h[rest]
  BY DEF Adds
<1>4. CASE s = {}
  BY <1>3, <1>4
<1>5. CASE s # {}
  <2>1. Chosen(s) \in s
    BY <1>5, ChosenIsMember
  <2>2. rest \notin B
    BY <1>2, <2>1
  <2>3. f[rest] = h[rest]
    BY <2>2
  <2> QED
    BY <1>3, <1>5, <2>3
<1> QED
  BY <1>4, <1>5

\* Over a finite set there is a function that adds up g.
LEMMA AdderExists ==
    ASSUME NEW g, NEW S, IsFiniteSet(S)
    PROVE  Adds(Adder(g, S), g, S)
<1> DEFINE B == {T \in SUBSET S : ~Adds(Adder(g, T), g, T)}
<1>1. SUFFICES ASSUME B # {} PROVE FALSE
  OBVIOUS
<1>2. PICK T \in B : \A U \in B : U \subseteq T => U = T
  <2>1. B \in SUBSET (SUBSET S)
    OBVIOUS
  <2> HIDE DEF B
  <2> QED
    BY <1>1, <2>1, SmallestSubset
<1>3. \A U \in SUBSET T : IsFiniteSet(U) /\ (U # T => Adds(Adder(g, U), g, U))
  BY <1>2, FS_Subset
<1> DEFINE f == [s \in SUBSET T |-> IF s = {} THEN 0
                                    ELSE g[Chosen(s)] + Total(g, s \ {Chosen(s)})]
<1>4. ASSUME NEW s \in SUBSET T, s # T
      PROVE  Total(g, s) = f[s]
  <2>1. Total(g, s) = IF s = {} THEN 0 ELSE g[Chosen(s)] + Adder(g, s)[s \ {Chosen(s)}]
    BY <1>3, <1>4 DEF Adds, Total
  <2>2. ASSUME s # {} PROVE Adder(g, s)[s \ {Chosen(s)}] = Total(g, s \ {Chosen(s)})
    <3> DEFINE u == s \ {Chosen(s)}
    <3>1. u \in SUBSET T /\ u # T /\ u \in (SUBSET s) \cap (SUBSET u)
      BY <2>2, ChosenIsMember
    <3>2. Adds(Adder(g, s), g, s) /\ Adds(Adder(g, u), g, u) /\ IsFiniteSet(s)
      BY <1>3, <1>4, <3>1
    <3> HIDE DEF u
    <3>3. Adder(g, s)[u] = Adder(g, u)[u]
      BY <3>1, <3>2, AddersAgree
    <3> QED
      BY <3>3 DEF Total, u
  <2> QED
    BY <2>1, <2>2
<1>5. Adds(f, g, T)
  <2>1. ASSUME NEW s \in SUBSET T, s # {}
        PROVE  Total(g, s \ {Chosen(s)}) = f[s \ {Chosen(s)}]
    <3>1. s \ {Chosen(s)} \in SUBSET T /\ s \ {Chosen(s)} # T
      BY <2>1, ChosenIsMember
    <3> HIDE DEF f
    <3> QED
      BY <1>4, <3>1
  <2>2. f = [s \in SUBSET T |-> IF s = {} THEN 0 ELSE g[Chosen(s)] + f[s \ {Chosen(s)}]]
    <3> DEFINE e == [s \in SUBSET T |-> IF s = {} THEN 0
                                        ELSE g[Chosen(s)] + f[s \ {Chosen(s)}]]
    <3>1. ASSUME NEW s \in SUBSET T PROVE f[s] = e[s]
      BY <2>1
    <3>2. f = [s \in SUBSET T |-> f[s]] /\ e = [s \in SUBSET T |-> e[s]]
      OBVIOUS
    <3> HIDE DEF f, e
    <3>3. f = e
      BY <3>1, <3>2
    <3> QED
      BY <3>3 DEF e
  <2> QED
    BY <2>2 DEF Adds
<1> HIDE DEF f
<1>6. Adds(Adder(g, T), g, T)
  BY <1>5, Zenon DEF Adder
<1> QED
  BY <1>2, <1>6

\* The sum over no element is zero, and any other one is its first element and the rest.
LEMMA TotalUnfolds ==
    ASSUME NEW g, NEW S, IsFiniteSet(S)
    PROVE  Total(g, S) = IF S = {} THEN 0 ELSE g[Chosen(S)] + Total(g, S \ {Chosen(S)})
<1>1. Total(g, S) = IF S = {} THEN 0 ELSE g[Chosen(S)] + Adder(g, S)[S \ {Chosen(S)}]
  <2>1. Adds(Adder(g, S), g, S)
    BY AdderExists
  <2> QED
    BY <2>1 DEF Adds, Total
<1> DEFINE u == S \ {Chosen(S)}
<1>2. IsFiniteSet(u) /\ u \in (SUBSET S) \cap (SUBSET u)
  BY FS_Subset
<1> HIDE DEF u
<1>3. Adds(Adder(g, S), g, S) /\ Adds(Adder(g, u), g, u)
  <2>1. Adds(Adder(g, S), g, S)
    BY AdderExists
  <2>2. Adds(Adder(g, u), g, u)
    BY <1>2, AdderExists
  <2> QED
    BY <2>1, <2>2
<1>4. Adder(g, S)[u] = Adder(g, u)[u]
  <2>1. \A s \in (SUBSET S) \cap (SUBSET u) : Adder(g, S)[s] = Adder(g, u)[s]
    BY <1>3, AddersAgree
  <2> QED
    BY <1>2, <2>1
<1> QED
  BY <1>1, <1>4 DEF Total, u

--------------------------------------------------------------------------------
(* Sums of natural numbers. *)

\* A sum of natural numbers is one.
LEMMA TotalIsNat ==
    ASSUME NEW S, IsFiniteSet(S), NEW g, \A s \in S : g[s] \in Nat
    PROVE  Total(g, S) \in Nat
<1> DEFINE B == {T \in SUBSET S : Total(g, T) \notin Nat}
<1>1. SUFFICES ASSUME B # {} PROVE FALSE
  OBVIOUS
<1>2. PICK T \in B : \A U \in B : U \subseteq T => U = T
  <2>1. B \in SUBSET (SUBSET S)
    OBVIOUS
  <2> HIDE DEF B
  <2> QED
    BY <1>1, <2>1, SmallestSubset
<1>3. IsFiniteSet(T)
  BY FS_Subset
<1>4. Total(g, T) = IF T = {} THEN 0 ELSE g[Chosen(T)] + Total(g, T \ {Chosen(T)})
  BY <1>3, TotalUnfolds
<1>5. ASSUME T # {} PROVE Total(g, T \ {Chosen(T)}) \in Nat /\ g[Chosen(T)] \in Nat
  BY <1>2, <1>5, ChosenIsMember
<1> QED
  BY <1>4, <1>5

\* Any element may be taken out of a sum first.
LEMMA TotalRemove ==
    ASSUME NEW S, IsFiniteSet(S), NEW g, \A s \in S : g[s] \in Nat, NEW a \in S
    PROVE  Total(g, S) = g[a] + Total(g, S \ {a})
<1> DEFINE B == {T \in SUBSET S : \E y \in T : Total(g, T) # g[y] + Total(g, T \ {y})}
<1>1. SUFFICES ASSUME B # {} PROVE FALSE
  OBVIOUS
<1>2. PICK T \in B : \A U \in B : U \subseteq T => U = T
  <2>1. B \in SUBSET (SUBSET S)
    OBVIOUS
  <2> HIDE DEF B
  <2> QED
    BY <1>1, <2>1, SmallestSubset
<1>3. PICK x \in T : Total(g, T) # g[x] + Total(g, T \ {x})
  OBVIOUS
<1> DEFINE c == Chosen(T)
           U == T \ {c}
           V == T \ {x}
<1>4. IsFiniteSet(T) /\ IsFiniteSet(U) /\ IsFiniteSet(V) /\ IsFiniteSet(U \ {x})
  BY FS_Subset
<1>5. c \in T /\ c \in S /\ x \in S
  BY ChosenIsMember
<1>6. Total(g, T) = g[c] + Total(g, U)
  BY <1>4, <1>5, TotalUnfolds
<1>7. g[c] \in Nat /\ g[x] \in Nat
  BY <1>5
<1>8. Total(g, U) \in Nat /\ Total(g, V) \in Nat /\ Total(g, U \ {x}) \in Nat
  BY <1>4, TotalIsNat
<1>9. CASE c # x
  <2>1. U \notin B /\ V \notin B /\ U \in SUBSET S /\ V \in SUBSET S
    BY <1>2, <1>5
  <2>2. Total(g, U) = g[x] + Total(g, U \ {x})
    BY <1>9, <2>1
  <2>3. Total(g, V) = g[c] + Total(g, V \ {c})
    BY <1>5, <1>9, <2>1
  <2>4. V \ {c} = U \ {x}
    OBVIOUS
  <2> HIDE DEF c, U, V
  <2>5. g[c] + Total(g, U) = g[x] + Total(g, V)
    BY <1>7, <1>8, <2>2, <2>3, <2>4
  <2> QED
    BY <1>3, <1>6, <2>5 DEF V
<1> QED
  BY <1>3, <1>6, <1>9

\* A sum grows by what an element put into it is worth.
LEMMA TotalAdd ==
    ASSUME NEW S, IsFiniteSet(S), NEW x, x \notin S, NEW g, \A s \in S \cup {x} : g[s] \in Nat
    PROVE  Total(g, S \cup {x}) = g[x] + Total(g, S)
<1> DEFINE T == S \cup {x}
<1>1. IsFiniteSet(T) /\ x \in T /\ \A s \in T : g[s] \in Nat
  BY FS_AddElement
<1>2. T \ {x} = S
  OBVIOUS
<1> HIDE DEF T
<1>3. Total(g, T) = g[x] + Total(g, T \ {x})
  BY <1>1, TotalRemove
<1> QED
  BY <1>2, <1>3 DEF T

\* Only the values at the elements of the set count.
LEMMA TotalSame ==
    ASSUME NEW S, IsFiniteSet(S), NEW g, NEW h, \A s \in S : g[s] = h[s]
    PROVE  Total(g, S) = Total(h, S)
<1> DEFINE B == {T \in SUBSET S : Total(g, T) # Total(h, T)}
<1>1. SUFFICES ASSUME B # {} PROVE FALSE
  OBVIOUS
<1>2. PICK T \in B : \A U \in B : U \subseteq T => U = T
  <2>1. B \in SUBSET (SUBSET S)
    OBVIOUS
  <2> HIDE DEF B
  <2> QED
    BY <1>1, <2>1, SmallestSubset
<1>3. IsFiniteSet(T)
  BY FS_Subset
<1>4. /\ Total(g, T) = IF T = {} THEN 0 ELSE g[Chosen(T)] + Total(g, T \ {Chosen(T)})
      /\ Total(h, T) = IF T = {} THEN 0 ELSE h[Chosen(T)] + Total(h, T \ {Chosen(T)})
  BY <1>3, TotalUnfolds
<1>5. CASE T # {}
  <2>1. Chosen(T) \in T
    BY <1>5, ChosenIsMember
  <2>2. T \ {Chosen(T)} \notin B
    BY <1>2, <2>1
  <2>3. Total(g, T \ {Chosen(T)}) = Total(h, T \ {Chosen(T)})
    BY <2>2
  <2> QED
    BY <1>2, <1>4, <1>5, <2>1, <2>3
<1> QED
  BY <1>4, <1>5

\* Sums over disjoint sets add up.
LEMMA TotalUnion ==
    ASSUME NEW S, IsFiniteSet(S), NEW R, IsFiniteSet(R), S \cap R = {},
           NEW g, \A s \in S \cup R : g[s] \in Nat
    PROVE  Total(g, S \cup R) = Total(g, S) + Total(g, R)
<1> DEFINE B == {T \in SUBSET S : Total(g, T \cup R) # Total(g, T) + Total(g, R)}
<1>1. SUFFICES ASSUME B # {} PROVE FALSE
  OBVIOUS
<1>2. PICK T \in B : \A U \in B : U \subseteq T => U = T
  <2>1. B \in SUBSET (SUBSET S)
    OBVIOUS
  <2> HIDE DEF B
  <2> QED
    BY <1>1, <2>1, SmallestSubset
<1>3. IsFiniteSet(T) /\ Total(g, R) \in Nat
  BY FS_Subset, TotalIsNat
<1>4. CASE T = {}
  <2>1. Total(g, T) = 0
    BY <1>3, <1>4, TotalUnfolds
  <2>2. T \cup R = R
    BY <1>4
  <2>3. Total(g, T \cup R) = Total(g, R)
    BY <2>2, Zenon
  <2> QED
    BY <1>2, <1>3, <2>1, <2>3
<1>5. ASSUME NEW x \in T PROVE FALSE
  <2> DEFINE U == T \ {x}
  <2>1. IsFiniteSet(U) /\ IsFiniteSet(U \cup R) /\ x \notin U \cup R
    BY <1>3, FS_Subset, FS_Union
  <2>2. U \notin B
    BY <1>2
  <2>3. Total(g, U \cup R) = Total(g, U) + Total(g, R)
    BY <2>2
  <2>4. T = U \cup {x} /\ T \cup R = (U \cup R) \cup {x} /\ U \subseteq S
    OBVIOUS
  <2> HIDE DEF U, B
  <2>5. /\ \A s \in U \cup {x} : g[s] \in Nat
        /\ \A s \in (U \cup R) \cup {x} : g[s] \in Nat
    BY <1>2, <2>4 DEF B
  <2>6. Total(g, T) = g[x] + Total(g, U)
    BY <2>1, <2>4, <2>5, TotalAdd
  <2>7. Total(g, T \cup R) = g[x] + Total(g, U \cup R)
    BY <2>1, <2>4, <2>5, TotalAdd
  <2>8. Total(g, U) \in Nat /\ g[x] \in Nat
    BY <2>1, <2>5, TotalIsNat
  <2> QED
    BY <1>2, <1>3, <2>3, <2>6, <2>7, <2>8 DEF B
<1> QED
  BY <1>4, <1>5

\* A part of a set sums to no more than the whole.
LEMMA TotalSubset ==
    ASSUME NEW S, IsFiniteSet(S), NEW T \in SUBSET S, NEW g, \A s \in S : g[s] \in Nat
    PROVE  Total(g, T) <= Total(g, S)
<1>1. IsFiniteSet(T) /\ IsFiniteSet(S \ T)
  BY FS_Subset
<1>2. T \cup (S \ T) = S /\ T \cap (S \ T) = {}
  OBVIOUS
<1>3. Total(g, S) = Total(g, T) + Total(g, S \ T)
  BY <1>1, <1>2, TotalUnion
<1>4. Total(g, T) \in Nat /\ Total(g, S \ T) \in Nat
  BY <1>1, TotalIsNat
<1> QED
  BY <1>3, <1>4

\* Summing is linear: the totals of two functions add up to the total of their sum.
LEMMA TotalSum ==
    ASSUME NEW S, IsFiniteSet(S), NEW f, NEW g, NEW h,
           \A s \in S : f[s] \in Nat /\ g[s] \in Nat /\ h[s] = f[s] + g[s]
    PROVE  Total(h, S) = Total(f, S) + Total(g, S)
<1> DEFINE B == {T \in SUBSET S : Total(h, T) # Total(f, T) + Total(g, T)}
<1>1. SUFFICES ASSUME B # {} PROVE FALSE
  OBVIOUS
<1>2. PICK T \in B : \A U \in B : U \subseteq T => U = T
  <2>1. B \in SUBSET (SUBSET S)
    OBVIOUS
  <2> HIDE DEF B
  <2> QED
    BY <1>1, <2>1, SmallestSubset
<1>3. IsFiniteSet(T)
  BY FS_Subset
<1> DEFINE c == Chosen(T)
           U == T \ {c}
<1>4. /\ Total(f, T) = IF T = {} THEN 0 ELSE f[c] + Total(f, U)
      /\ Total(g, T) = IF T = {} THEN 0 ELSE g[c] + Total(g, U)
      /\ Total(h, T) = IF T = {} THEN 0 ELSE h[c] + Total(h, U)
  BY <1>3, TotalUnfolds
<1>5. ASSUME T # {} PROVE FALSE
  <2>1. c \in T /\ c \in S
    BY <1>5, ChosenIsMember
  <2>2. U \notin B
    BY <1>2, <2>1
  <2>3. Total(h, U) = Total(f, U) + Total(g, U)
    BY <2>2
  <2>4. IsFiniteSet(U) /\ \A s \in U : f[s] \in Nat /\ g[s] \in Nat
    BY <1>3, FS_Subset
  <2>5. Total(f, U) \in Nat /\ Total(g, U) \in Nat
    <3> HIDE DEF U
    <3> QED
      BY <2>4, TotalIsNat
  <2>6. f[c] \in Nat /\ g[c] \in Nat /\ h[c] = f[c] + g[c]
    BY <2>1
  <2>7. Total(h, T) # Total(f, T) + Total(g, T)
    OBVIOUS
  <2> HIDE DEF c, U
  <2> QED
    BY <1>4, <1>5, <2>3, <2>5, <2>6, <2>7
<1> QED
  BY <1>4, <1>5

\* A function that is nowhere larger has no larger sum.
LEMMA TotalMonotone ==
    ASSUME NEW S, IsFiniteSet(S), NEW g, NEW h,
           \A s \in S : g[s] \in Nat /\ h[s] \in Nat /\ g[s] <= h[s]
    PROVE  Total(g, S) <= Total(h, S)
<1> DEFINE d == [s \in S |-> h[s] - g[s]]
<1>1. \A s \in S : g[s] \in Nat /\ d[s] \in Nat /\ h[s] = g[s] + d[s]
  OBVIOUS
<1> HIDE DEF d
<1>2. Total(h, S) = Total(g, S) + Total(d, S)
  BY <1>1, TotalSum
<1>3. Total(g, S) \in Nat /\ Total(d, S) \in Nat
  BY <1>1, TotalIsNat
<1> QED
  BY <1>2, <1>3

\* A function that differs at one element only differs by that much in its sum.
LEMMA TotalUpdate ==
    ASSUME NEW S, IsFiniteSet(S), NEW x \in S, NEW g, NEW h,
           \A s \in S : g[s] \in Nat /\ h[s] \in Nat,
           \A s \in S \ {x} : h[s] = g[s]
    PROVE  Total(h, S) + g[x] = Total(g, S) + h[x]
<1>1. Total(g, S) = g[x] + Total(g, S \ {x}) /\ Total(h, S) = h[x] + Total(h, S \ {x})
  BY TotalRemove
<1>2. IsFiniteSet(S \ {x})
  BY FS_Subset
<1>3. Total(h, S \ {x}) = Total(g, S \ {x})
  BY <1>2, TotalSame
<1>4. Total(g, S \ {x}) \in Nat
  BY <1>2, TotalIsNat
<1> QED
  BY <1>1, <1>3, <1>4

\* Elements at which the function is zero may be left out.
LEMMA TotalPart ==
    ASSUME NEW S, IsFiniteSet(S), NEW T \in SUBSET S, NEW g,
           \A s \in S : g[s] \in Nat, \A s \in S \ T : g[s] = 0
    PROVE  Total(g, T) = Total(g, S)
<1> DEFINE zero == [s \in S |-> 0]
           R == S \ T
<1>1. IsFiniteSet(T) /\ IsFiniteSet(R) /\ T \cup R = S /\ T \cap R = {}
  BY FS_Subset
<1>2. \A s \in S : zero[s] = zero[s] + zero[s] /\ zero[s] \in Nat
  OBVIOUS
<1>3. \A s \in R : g[s] = zero[s] /\ zero[s] \in Nat /\ zero[s] = zero[s] + zero[s]
  OBVIOUS
<1> HIDE DEF zero, R
<1>4. Total(zero, R) = 0
  <2>1. Total(zero, R) = Total(zero, R) + Total(zero, R)
    <3>1. \A s \in R : zero[s] \in Nat /\ zero[s] \in Nat /\ zero[s] = zero[s] + zero[s]
      BY <1>3
    <3>2. IsFiniteSet(R)
      BY <1>1
    <3> QED
      BY <3>1, <3>2, TotalSum, Zenon
  <2>2. Total(zero, R) \in Nat
    BY <1>1, <1>3, TotalIsNat
  <2>3. \A n \in Nat : n = n + n => n = 0
    OBVIOUS
  <2> QED
    BY <2>1, <2>2, <2>3, Zenon
<1>5. Total(g, R) = Total(zero, R)
  BY <1>1, <1>3, TotalSame
<1>6. Total(g, S) = Total(g, T) + Total(g, R)
  BY <1>1, TotalUnion
<1>7. Total(g, T) \in Nat
  BY <1>1, TotalIsNat
<1> QED
  BY <1>4, <1>5, <1>6, <1>7
================================================================================
