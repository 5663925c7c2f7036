---------------------------- MODULE FiniteFacts ----------------------------
(***************************************************************************)
(* Facts about numbers, finite sets and sums that the proofs of several    *)
(* components need.  What would be an induction is put as the least number *)
(* for which the claim fails.                                              *)
(***************************************************************************)
EXTENDS Integers, FiniteSets, FiniteSetsExt, FiniteSetTheorems, WellFoundedInduction, TLAPS

\* A set of numbers that is not empty has a least one.
LEMMA LeastNumber ==
  ASSUME NEW D \in SUBSET Nat, D # {}
  PROVE  \E d \in D : \A e \in D : d <= e
<1>. DEFINE R == OpToRel(<, Nat)
<1>1. IsWellFoundedOn(R, Nat)
  BY NatLessThanWellFounded
<1>2. \A d, e \in Nat : <<e, d>> \notin R => d <= e
  BY DEF OpToRel
<1>. HIDE DEF R
<1>3. \E d \in D : \A e \in D : ~(<<e, d>> \in R)
  BY <1>1, WFMin, Zenon
<1>. QED  BY <1>2, <1>3

\* ... and Min is it.
LEMMA MinIsLeast ==
  ASSUME NEW D \in SUBSET Nat, D # {}
  PROVE  Min(D) \in D /\ \A e \in D : Min(D) <= e
<1>1. \E d \in D : \A e \in D : d <= e
  BY LeastNumber
<1>. QED  BY <1>1, Zenon DEF Min

\* A bounded set has a greatest number: the least of its upper bounds.
LEMMA MaxIsGreatest ==
  ASSUME NEW S \in SUBSET Nat, S # {}, NEW b \in Nat, \A t \in S : t <= b
  PROVE  Max(S) \in S /\ \A t \in S : t <= Max(S)
<1>. DEFINE U == {u \in Nat : \A t \in S : t <= u}
<1>1. U \in SUBSET Nat /\ U # {}
  OBVIOUS
<1>2. PICK m \in U : \A e \in U : m <= e
  BY <1>1, LeastNumber
<1>3. m \in Nat /\ \A t \in S : t <= m /\ t \in Nat
  OBVIOUS
<1>4. m \in S
  <2>. SUFFICES ASSUME m \notin S PROVE FALSE
    OBVIOUS
  <2>1. \A t \in S : t < m
    BY <1>3
  <2>2. m > 0
    <3>1. PICK t \in S : TRUE
      OBVIOUS
    <3>. QED  BY <1>3, <2>1, <3>1
  <2>3. m - 1 \in Nat /\ \A t \in S : t <= m - 1
    BY <1>3, <2>1, <2>2
  <2>4. m - 1 \in U
    BY <2>3
  <2>. QED  BY <1>2, <1>3, <2>4
<1>5. \E x \in S : \A y \in S : x >= y
  BY <1>3, <1>4
<1>6. Max(S) \in S /\ \A y \in S : Max(S) >= y
  BY <1>5, Zenon DEF Max
<1>. QED  BY <1>6

\* A family of subsets of a finite set that is not empty has a member none of whose
\* elements can be taken out without leaving the family.
LEMMA SmallestMember ==
  ASSUME NEW S, IsFiniteSet(S), NEW F \in SUBSET SUBSET S, F # {}
  PROVE  \E s \in F : \A x \in s : s \ {x} \notin F
<1>. DEFINE sizes == {Cardinality(s) : s \in F}
<1>1. \A s \in F : IsFiniteSet(s) /\ Cardinality(s) \in Nat
  BY FS_Subset, FS_CardinalityType
<1>2. sizes \in SUBSET Nat /\ sizes # {}
  BY <1>1
<1>3. PICK n \in sizes : \A m \in sizes : n <= m
  BY <1>2, LeastNumber
<1>4. PICK s \in F : Cardinality(s) = n
  OBVIOUS
<1>5. ASSUME NEW x \in s, s \ {x} \in F PROVE FALSE
  <2>1. Cardinality(s \ {x}) = Cardinality(s) - 1
    BY <1>1, FS_RemoveElement
  <2>2. n <= Cardinality(s \ {x})
    BY <1>3, <1>5
  <2>. QED  BY <1>1, <1>4, <2>1, <2>2
<1>. QED  BY <1>5

-----------------------------------------------------------------------------
(* Sums of the values of a function over a set of its arguments.            *)

SumOver(f, S) == MapThenSumSet(LAMBDA x : f[x], S)

\* t has the sum of f over every subset of S, whichever element is taken first.
SumTable(t, f, S) ==
  /\ t \in [SUBSET S -> Nat]
  /\ t[{}] = 0
  /\ \A s \in SUBSET S : \A x \in s : t[s] = f[x] + t[s \ {x}]

\* One more element: the sums with it are those without it and its value.
LEMMA TableGrows ==
  ASSUME NEW S, NEW a, a \notin S, NEW f, f[a] \in Nat, \A x \in S : f[x] \in Nat,
         NEW t, SumTable(t, f, S)
  PROVE  SumTable([s \in SUBSET (S \cup {a}) |-> IF a \in s THEN f[a] + t[s \ {a}] ELSE t[s]], f, S \cup {a})
<1>. DEFINE R == S \cup {a}
            u == [s \in SUBSET R |-> IF a \in s THEN f[a] + t[s \ {a}] ELSE t[s]]
<1>1. \A s \in SUBSET R : IF a \in s THEN s \ {a} \in SUBSET S ELSE s \in SUBSET S
  OBVIOUS
<1>2. \A s \in SUBSET S : t[s] \in Nat
  BY DEF SumTable
<1>3. u \in [SUBSET R -> Nat]
  BY <1>1, <1>2
<1>4. u[{}] = 0
  BY DEF SumTable
<1>5. ASSUME NEW s \in SUBSET R, NEW x \in s PROVE u[s] = f[x] + u[s \ {x}]
  <2>0. s \ {x} \in SUBSET R
    OBVIOUS
  <2>1. CASE x = a
    <3>1. u[s] = f[a] + t[s \ {a}] /\ u[s \ {a}] = t[s \ {a}]
      BY <2>0, <2>1
    <3>. QED  BY <2>1, <3>1
  <2>2. CASE x # a /\ a \notin s
    <3>1. u[s] = t[s] /\ u[s \ {x}] = t[s \ {x}]
      BY <2>0, <2>2
    <3>. QED  BY <1>1, <2>2, <3>1 DEF SumTable
  <2>3. CASE x # a /\ a \in s
    <3>. DEFINE r == s \ {a}
    <3>1. r \in SUBSET S /\ x \in r /\ x \in S
      BY <2>3
    <3>2. (s \ {x}) \ {a} = r \ {x} /\ r \ {x} \in SUBSET S /\ a \in s \ {x}
      BY <2>3
    <3>3. u[s] = f[a] + t[r]
      BY <2>3
    <3>4. u[s \ {x}] = f[a] + t[r \ {x}]
      <4>1. u[s \ {x}] = f[a] + t[(s \ {x}) \ {a}]
        BY <2>0, <3>2
      <4>. QED  BY <4>1, <3>2
    <3>5. t[r] = f[x] + t[r \ {x}]
      BY <3>1 DEF SumTable
    <3>6. t[r] \in Nat /\ t[r \ {x}] \in Nat /\ f[x] \in Nat
      BY <1>2, <3>1, <3>2
    <3>. HIDE DEF u, r
    <3>. QED  BY <3>3, <3>4, <3>5, <3>6
  <2>. QED  BY <2>1, <2>2, <2>3
<1>. HIDE DEF u
<1>6. SumTable(u, f, R)
  BY <1>3, <1>4, <1>5 DEF SumTable
<1>. QED  BY <1>6 DEF u

\* Every function on a finite set has its sums.
LEMMA TableExists ==
  ASSUME NEW S, IsFiniteSet(S), NEW f, \A x \in S : f[x] \in Nat
  PROVE  \E t : SumTable(t, f, S)
<1>. DEFINE Without == {s \in SUBSET S : ~\E t : SumTable(t, f, s)}
<1>. SUFFICES ASSUME Without # {} PROVE FALSE
  BY DEF Without
<1>1. PICK s \in Without : \A x \in s : s \ {x} \notin Without
  <2>1. Without \in SUBSET SUBSET S
    OBVIOUS
  <2>. HIDE DEF Without
  <2>. QED  BY <2>1, SmallestMember
<1>2. s # {}
  <2>1. SumTable([r \in SUBSET {} |-> 0], f, {})
    BY DEF SumTable
  <2>. QED  BY <1>1, <2>1
<1>3. PICK a \in s : TRUE
  BY <1>2
<1>4. PICK t : SumTable(t, f, s \ {a})
  BY <1>1, <1>3
<1>5. (s \ {a}) \cup {a} = s /\ a \notin s \ {a} /\ f[a] \in Nat /\ \A x \in s \ {a} : f[x] \in Nat
  BY <1>3
<1>6. \E u : SumTable(u, f, (s \ {a}) \cup {a})
  BY <1>4, <1>5, TableGrows
<1>. QED  BY <1>5, <1>6

\* The fold of the library computes them.
LEMMA SumIsTable ==
  ASSUME NEW S, IsFiniteSet(S), NEW f, NEW t, SumTable(t, f, S)
  PROVE  SumOver(f, S) = t[S]
<1>. DEFINE Body(h) == [s \in SUBSET S |-> IF s = {} THEN 0
                                          ELSE f[CHOOSE x \in s : TRUE] + h[s \ {CHOOSE x \in s : TRUE}]]
            c == CHOOSE h : h = Body(h)
<1>1. SumOver(f, S) = c[S]
  BY DEF SumOver, MapThenSumSet, MapThenFoldSet
<1>2. \A s \in SUBSET S : s # {} => (CHOOSE x \in s : TRUE) \in s
  OBVIOUS
<1>3. t = Body(t)
  <2>1. \A s \in SUBSET S : t[s] = Body(t)[s]
    BY <1>2 DEF SumTable
  <2>2. DOMAIN t = SUBSET S /\ t = [s \in SUBSET S |-> t[s]]
    BY DEF SumTable
  <2>. QED  BY <2>1, <2>2
<1>4. c = Body(c)
  <2>1. \E h : h = Body(h)
    BY <1>3, Zenon
  <2>. HIDE DEF Body
  <2>. QED  BY <2>1, Zenon
<1>. HIDE DEF c
<1>5. \A s \in SUBSET S : c[s] = IF s = {} THEN 0 ELSE f[CHOOSE x \in s : TRUE] + c[s \ {CHOOSE x \in s : TRUE}]
  BY <1>4
<1>. HIDE DEF Body
<1>. DEFINE Differ == {s \in SUBSET S : c[s] # t[s]}
<1>6. Differ = {}
  <2>. SUFFICES ASSUME Differ # {} PROVE FALSE
    OBVIOUS
  <2>1. PICK s \in Differ : \A x \in s : s \ {x} \notin Differ
    <3>1. Differ \in SUBSET SUBSET S
      OBVIOUS
    <3>. HIDE DEF Differ
    <3>. QED  BY <3>1, SmallestMember
  <2>2. s # {}
    BY <1>5 DEF SumTable
  <2>. DEFINE a == CHOOSE x \in s : TRUE
  <2>3. a \in s
    BY <2>2
  <2>4. c[s] = f[a] + c[s \ {a}]
    BY <1>5, <2>2
  <2>. HIDE DEF a
  <2>5. c[s \ {a}] = t[s \ {a}] /\ t[s] = f[a] + t[s \ {a}]
    BY <2>1, <2>3 DEF SumTable
  <2>. QED  BY <2>4, <2>5
<1>7. S \in SUBSET S
  OBVIOUS
<1>. QED  BY <1>1, <1>6, <1>7

\* A sum is a number, empty it is zero, and any element may be taken out of it.
LEMMA SumStep ==
  ASSUME NEW S, IsFiniteSet(S), NEW f, \A x \in S : f[x] \in Nat
  PROVE  /\ SumOver(f, S) \in Nat
         /\ S = {} => SumOver(f, S) = 0
         /\ \A x \in S : SumOver(f, S) = f[x] + SumOver(f, S \ {x})
<1>1. PICK t : SumTable(t, f, S)
  BY TableExists
<1>2. SumOver(f, S) = t[S] /\ S \in SUBSET S
  BY <1>1, SumIsTable
<1>3. ASSUME NEW x \in S PROVE SumOver(f, S) = f[x] + SumOver(f, S \ {x})
  <2>. DEFINE u == [s \in SUBSET (S \ {x}) |-> t[s]]
  <2>1. SumTable(u, f, S \ {x})
    <3>1. \A s \in SUBSET (S \ {x}) : s \in SUBSET S /\ u[s] = t[s]
      OBVIOUS
    <3>2. \A s \in SUBSET (S \ {x}) : \A y \in s : s \ {y} \in SUBSET (S \ {x})
      OBVIOUS
    <3>3. u \in [SUBSET (S \ {x}) -> Nat]
      BY <1>1 DEF SumTable
    <3>. HIDE DEF u
    <3>. QED  BY <1>1, <3>1, <3>2, <3>3 DEF SumTable
  <2>2. IsFiniteSet(S \ {x})
    BY FS_RemoveElement
  <2>3. SumOver(f, S \ {x}) = u[S \ {x}] /\ u[S \ {x}] = t[S \ {x}]
    BY <2>1, <2>2, SumIsTable
  <2>. QED  BY <1>1, <1>2, <2>3 DEF SumTable
<1>. QED  BY <1>1, <1>2, <1>3 DEF SumTable

\* The sum of sums.
LEMMA SumAdds ==
  ASSUME NEW S, IsFiniteSet(S), NEW f, NEW g, NEW h,
         \A x \in S : f[x] \in Nat /\ g[x] \in Nat /\ h[x] \in Nat,
         \A x \in S : h[x] = f[x] + g[x]
  PROVE  SumOver(h, S) = SumOver(f, S) + SumOver(g, S)
<1>. DEFINE Fails == {s \in SUBSET S : SumOver(h, s) # SumOver(f, s) + SumOver(g, s)}
<1>. SUFFICES ASSUME Fails # {} PROVE FALSE
  OBVIOUS
<1>1. PICK s \in Fails : \A x \in s : s \ {x} \notin Fails
  <2>1. Fails \in SUBSET SUBSET S
    OBVIOUS
  <2>. HIDE DEF Fails
  <2>. QED  BY <2>1, SmallestMember
<1>2. s \in SUBSET S /\ IsFiniteSet(s)
  BY FS_Subset
<1>3. CASE s = {}
  BY <1>2, <1>3, SumStep
<1>4. CASE s # {}
  <2>1. PICK x \in s : TRUE
    BY <1>4
  <2>2. s \ {x} \in SUBSET S /\ IsFiniteSet(s \ {x})
    BY <1>2, FS_RemoveElement
  <2>3. SumOver(h, s \ {x}) = SumOver(f, s \ {x}) + SumOver(g, s \ {x})
    BY <1>1, <2>2
  <2>4. /\ SumOver(f, s) = f[x] + SumOver(f, s \ {x})
        /\ SumOver(g, s) = g[x] + SumOver(g, s \ {x})
        /\ SumOver(h, s) = h[x] + SumOver(h, s \ {x})
    BY <1>2, SumStep
  <2>5. SumOver(f, s \ {x}) \in Nat /\ SumOver(g, s \ {x}) \in Nat
    BY <2>2, SumStep
  <2>6. f[x] \in Nat /\ g[x] \in Nat /\ h[x] = f[x] + g[x]
    BY <1>2
  <2>7. SumOver(h, s) # SumOver(f, s) + SumOver(g, s)
    BY <1>1
  <2>. QED  BY <2>3, <2>4, <2>5, <2>6, <2>7
<1>. QED  BY <1>3, <1>4

\* What is at most as large everywhere has a sum that is at most as large.
LEMMA SumMonotone ==
  ASSUME NEW S, IsFiniteSet(S), NEW f, NEW g,
         \A x \in S : f[x] \in Nat /\ g[x] \in Nat /\ f[x] <= g[x]
  PROVE  SumOver(f, S) <= SumOver(g, S)
<1>. DEFINE r == [x \in S |-> g[x] - f[x]]
<1>1. \A x \in S : r[x] \in Nat /\ g[x] = f[x] + r[x]
  OBVIOUS
<1>. HIDE DEF r
<1>2. SumOver(g, S) = SumOver(f, S) + SumOver(r, S)
  BY <1>1, SumAdds
<1>3. SumOver(f, S) \in Nat /\ SumOver(r, S) \in Nat
  BY <1>1, SumStep
<1>. QED  BY <1>2, <1>3

\* A sum depends on nothing but the values.
LEMMA SumSame ==
  ASSUME NEW S, IsFiniteSet(S), NEW f, NEW g, \A x \in S : f[x] \in Nat /\ g[x] = f[x]
  PROVE  SumOver(f, S) = SumOver(g, S)
<1>1. SumOver(f, S) <= SumOver(g, S) /\ SumOver(g, S) <= SumOver(f, S)
  BY SumMonotone
<1>. QED  BY <1>1, SumStep

\* One value changes: the sum changes by as much.
LEMMA SumUpdate ==
  ASSUME NEW S, IsFiniteSet(S), NEW f, \A x \in S : f[x] \in Nat, NEW a \in S, NEW g, g[a] \in Nat,
         \A x \in S \ {a} : g[x] = f[x]
  PROVE  SumOver(g, S) + f[a] = SumOver(f, S) + g[a]
<1>1. IsFiniteSet(S \ {a}) /\ \A x \in S : g[x] \in Nat
  BY FS_RemoveElement
<1>2. SumOver(f, S) = f[a] + SumOver(f, S \ {a}) /\ SumOver(g, S) = g[a] + SumOver(g, S \ {a})
  BY <1>1, SumStep
<1>3. SumOver(f, S \ {a}) = SumOver(g, S \ {a})
  BY <1>1, SumSame
<1>4. SumOver(f, S \ {a}) \in Nat
  BY <1>1, SumStep
<1>. QED  BY <1>2, <1>3, <1>4

\* What is zero outside A need only be summed over A.
LEMMA SumSupport ==
  ASSUME NEW S, IsFiniteSet(S), NEW f, NEW A \in SUBSET S, \A x \in S : f[x] \in Nat,
         \A x \in S \ A : f[x] = 0
  PROVE  SumOver(f, S) = SumOver(f, A)
<1>. DEFINE Fails == {s \in SUBSET S : SumOver(f, s) # SumOver(f, s \cap A)}
<1>0. S \cap A = A /\ S \in SUBSET S
  OBVIOUS
<1>. SUFFICES ASSUME Fails # {} PROVE FALSE
  BY <1>0
<1>1. PICK s \in Fails : \A x \in s : s \ {x} \notin Fails
  <2>1. Fails \in SUBSET SUBSET S
    OBVIOUS
  <2>. HIDE DEF Fails
  <2>. QED  BY <2>1, SmallestMember
<1>2. s \in SUBSET S /\ IsFiniteSet(s) /\ IsFiniteSet(s \cap A)
  BY FS_Subset
<1>3. CASE s = {}
  <2>1. s \cap A = s
    BY <1>3
  <2>. QED  BY <1>1, <2>1
<1>4. CASE s # {}
  <2>1. PICK x \in s : TRUE
    BY <1>4
  <2>2. s \ {x} \in SUBSET S
    BY <1>2
  <2>3. SumOver(f, s \ {x}) = SumOver(f, (s \ {x}) \cap A)
    BY <1>1, <2>2
  <2>4. SumOver(f, s) = f[x] + SumOver(f, s \ {x})
    BY <1>2, SumStep
  <2>5. CASE x \in A
    <3>1. (s \ {x}) \cap A = (s \cap A) \ {x} /\ x \in s \cap A
      BY <2>5
    <3>2. SumOver(f, s \cap A) = f[x] + SumOver(f, (s \cap A) \ {x})
      BY <1>2, <3>1, SumStep
    <3>. QED  BY <1>1, <2>3, <2>4, <3>1, <3>2
  <2>6. CASE x \notin A
    <3>1. (s \ {x}) \cap A = s \cap A /\ f[x] = 0
      BY <1>2, <2>6
    <3>2. SumOver(f, s \cap A) \in Nat
      BY <1>2, SumStep
    <3>. QED  BY <1>1, <2>3, <2>4, <3>1, <3>2
  <2>. QED  BY <2>5, <2>6
<1>. QED  BY <1>3, <1>4

\* Zero everywhere but at one place.
LEMMA SumSingle ==
  ASSUME NEW S, IsFiniteSet(S), NEW f, \A x \in S : f[x] \in Nat, NEW a, \A x \in S \ {a} : f[x] = 0
  PROVE  SumOver(f, S) = IF a \in S THEN f[a] ELSE 0
<1>. DEFINE A == S \cap {a}
<1>1. A \in SUBSET S /\ \A x \in S \ A : f[x] = 0
  OBVIOUS
<1>2. IsFiniteSet(A) /\ \A x \in A : f[x] \in Nat
  BY FS_Subset
<1>3. SumOver(f, S) = SumOver(f, A)
  BY <1>1, SumSupport
<1>4. CASE a \in S
  <2>1. a \in A /\ A \ {a} = {} /\ IsFiniteSet({})
    BY <1>4, FS_EmptySet
  <2>2. SumOver(f, {}) = 0
    BY <2>1, SumStep
  <2>3. SumOver(f, A) = f[a] + SumOver(f, A \ {a})
    BY <1>2, <2>1, SumStep
  <2>. QED  BY <1>2, <1>3, <1>4, <2>1, <2>2, <2>3
<1>5. CASE a \notin S
  <2>1. A = {}
    BY <1>5
  <2>. QED  BY <1>2, <1>3, <1>5, <2>1, SumStep
<1>. QED  BY <1>4, <1>5

\* Summed over what S is mapped to, one to one, it is at least as much.
LEMMA SumInjected ==
  ASSUME NEW S, IsFiniteSet(S), NEW B, IsFiniteSet(B), NEW f, NEW g, NEW j \in [S -> B],
         \A x \in S : f[x] \in Nat, \A y \in B : g[y] \in Nat,
         \A x \in S : f[x] <= g[j[x]],
         \A x, y \in S : j[x] = j[y] => x = y
  PROVE  SumOver(f, S) <= SumOver(g, B)
<1>. DEFINE Image(s) == {j[x] : x \in s}
            Fails == {s \in SUBSET S : ~(SumOver(f, s) <= SumOver(g, Image(s)))}
<1>a. \A s \in SUBSET S : Image(s) \in SUBSET B /\ IsFiniteSet(s) /\ IsFiniteSet(Image(s))
  <2>1. \A s \in SUBSET S : Image(s) \in SUBSET B
    OBVIOUS
  <2>. QED  BY <2>1, FS_Subset
<1>1. Fails = {}
  <2>. SUFFICES ASSUME Fails # {} PROVE FALSE
    OBVIOUS
  <2>1. PICK s \in Fails : \A x \in s : s \ {x} \notin Fails
    <3>1. Fails \in SUBSET SUBSET S
      OBVIOUS
    <3>. HIDE DEF Fails
    <3>. QED  BY <3>1, SmallestMember
  <2>2. s \in SUBSET S /\ ~(SumOver(f, s) <= SumOver(g, Image(s)))
    OBVIOUS
  <2>3. CASE s = {}
    <3>1. Image(s) = {}
      BY <2>3
    <3>2. SumOver(f, s) = 0 /\ SumOver(g, Image(s)) = 0
      BY <1>a, <2>2, <2>3, <3>1, SumStep
    <3>. QED  BY <2>2, <3>2
  <2>4. CASE s # {}
    <3>1. PICK x \in s : TRUE
      BY <2>4
    <3>2. s \ {x} \in SUBSET S
      BY <2>2
    <3>3. SumOver(f, s \ {x}) <= SumOver(g, Image(s \ {x}))
      BY <2>1, <3>2
    <3>4. Image(s \ {x}) = Image(s) \ {j[x]} /\ j[x] \in Image(s)
      BY <2>2
    <3>5. SumOver(f, s) = f[x] + SumOver(f, s \ {x})
      <4>1. IsFiniteSet(s) /\ \A y \in s : f[y] \in Nat
        BY <1>a, <2>2
      <4>. QED  BY <4>1, SumStep
    <3>6. SumOver(g, Image(s)) = g[j[x]] + SumOver(g, Image(s) \ {j[x]})
      <4>1. IsFiniteSet(Image(s)) /\ \A y \in Image(s) : g[y] \in Nat
        BY <1>a, <2>2
      <4>. HIDE DEF Image
      <4>. QED  BY <3>4, <4>1, SumStep
    <3>7. SumOver(f, s \ {x}) \in Nat /\ SumOver(g, Image(s \ {x})) \in Nat
      <4>1. IsFiniteSet(s \ {x}) /\ IsFiniteSet(Image(s \ {x})) /\ Image(s \ {x}) \in SUBSET B
        BY <1>a, <3>2
      <4>2. (\A y \in s \ {x} : f[y] \in Nat) /\ (\A y \in Image(s \ {x}) : g[y] \in Nat)
        BY <3>2, <4>1
      <4>. HIDE DEF Image
      <4>. QED  BY <4>1, <4>2, SumStep
    <3>8. f[x] \in Nat /\ g[j[x]] \in Nat /\ f[x] <= g[j[x]]
      BY <2>2
    <3>9. SumOver(g, Image(s)) = g[j[x]] + SumOver(g, Image(s \ {x}))
      BY <3>4, <3>6
    <3>. HIDE DEF Image
    <3>. QED  BY <2>2, <3>3, <3>5, <3>7, <3>8, <3>9
  <2>. QED  BY <2>3, <2>4
<1>2. SumOver(f, S) <= SumOver(g, Image(S)) /\ Image(S) \in SUBSET B /\ IsFiniteSet(Image(S))
  <2>1. S \in SUBSET S
    OBVIOUS
  <2>. QED  BY <1>1, <1>a, <2>1
<1>. HIDE DEF Image
<1>. DEFINE I == Image(S)
            h == [y \in B |-> IF y \in I THEN g[y] ELSE 0]
<1>3. SumOver(h, B) = SumOver(h, I)
  <2>1. I \in SUBSET B /\ (\A y \in B : h[y] \in Nat) /\ \A y \in B \ I : h[y] = 0
    BY <1>2
  <2>. HIDE DEF h, I
  <2>. QED  BY <2>1, SumSupport
<1>4. SumOver(g, I) = SumOver(h, I)
  <2>1. \A y \in I : g[y] \in Nat /\ h[y] = g[y]
    BY <1>2
  <2>. HIDE DEF h
  <2>. QED  BY <1>2, <2>1, SumSame
<1>5. SumOver(h, B) <= SumOver(g, B)
  <2>1. \A y \in B : h[y] \in Nat /\ g[y] \in Nat /\ h[y] <= g[y]
    OBVIOUS
  <2>. HIDE DEF h
  <2>. QED  BY <2>1, SumMonotone
<1>6. /\ SumOver(f, S) \in Nat /\ SumOver(g, B) \in Nat /\ SumOver(h, B) \in Nat
  <2>1. \A y \in B : h[y] \in Nat
    OBVIOUS
  <2>. HIDE DEF h
  <2>. QED  BY <2>1, SumStep
<1>. HIDE DEF h, I
<1>7. SumOver(f, S) <= SumOver(g, I)
  BY <1>2 DEF I
<1>. QED  BY <1>3, <1>4, <1>5, <1>6, <1>7
=============================================================================
