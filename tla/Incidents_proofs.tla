--------------------------- MODULE Incidents_proofs ---------------------------
(***************************************************************************)
(* Proofs about Incidents, for every set of findings with whatever         *)
(* categories and resources, every window and limit, every set of cycles   *)
(* and every number of changes and faults.                                 *)
(***************************************************************************)
EXTENDS Incidents, FiniteSetTheorems, NaturalsInduction, WellFoundedInduction, TLAPS

(***************************************************************************)
(* Least and greatest numbers.                                             *)
(***************************************************************************)
LEMMA LeastNatural ==
  ASSUME NEW S, S \subseteq Nat, S # {}
  PROVE  \E m \in S : \A n \in S : m <= n
<1>1. PICK m \in S : \A n \in S : ~(<<n, m>> \in OpToRel(<, Nat))
  BY NatLessThanWellFounded, WFMin
<1>2. \A n \in S : ~(n < m)
  BY <1>1 DEF OpToRel
<1> QED BY <1>2

LEMMA GreatestBounded ==
  ASSUME NEW B \in Nat, NEW S, S \subseteq 0..B, S # {}
  PROVE  \E m \in S : \A n \in S : n <= m
<1> DEFINE U == {u \in Nat : \A n \in S : n <= u}
<1>1. B \in U
  OBVIOUS
<1>2. PICK u \in U : \A v \in U : u <= v
  BY <1>1, LeastNatural
<1>3. u \in Nat /\ \A n \in S : n <= u
  BY <1>2
<1>4. u \in S
  <2> SUFFICES ASSUME u \notin S PROVE FALSE
    OBVIOUS
  <2>1. PICK n \in S : TRUE
    OBVIOUS
  <2>2. \A k \in S : k \in Nat /\ k < u
    BY <1>3
  <2>3. u - 1 \in Nat
    BY <1>3, <2>1, <2>2
  <2>4. \A k \in S : k <= u - 1
    BY <1>3, <2>2
  <2>5. u - 1 \in U
    BY <2>3, <2>4
  <2> QED BY <1>2, <1>3, <2>5
<1> QED BY <1>3, <1>4

(* Max and Min of FiniteSetsExt are what they are meant to be. *)
LEMMA MaxMin ==
  ASSUME NEW B \in Nat, NEW S, S \subseteq 0..B, S # {}
  PROVE  /\ Max(S) \in S /\ \A n \in S : n <= Max(S)
         /\ Min(S) \in S /\ \A n \in S : Min(S) <= n
<1>1. \A n \in S : n \in Nat
  OBVIOUS
<1>2. PICK m \in S : \A n \in S : m >= n
  BY <1>1, GreatestBounded
<1>3. Max(S) \in S /\ \A n \in S : Max(S) >= n
  BY <1>2 DEF Max
<1>4. PICK k \in S : \A n \in S : k =< n
  BY <1>1, LeastNatural
<1>5. Min(S) \in S /\ \A n \in S : Min(S) =< n
  BY <1>4 DEF Min
<1> QED BY <1>1, <1>3, <1>5

LEMMA GreatestFinding ==
  ASSUME NEW S, S \subseteq Finding, S # {}
  PROVE  \E m \in S : \A n \in S : n <= m
<1> DEFINE Bad == {T \in SUBSET S : T # {} /\ \A m \in T : \E n \in T : ~(n <= m)}
           Sizes == {Cardinality(T) : T \in Bad}
<1>1. \A T \in SUBSET S : IsFiniteSet(T) /\ Cardinality(T) \in Nat
  BY IncidentsAssumption, FS_Subset, FS_CardinalityType
<1>2. \A x \in S : x \in Nat
  BY IncidentsAssumption
<1> SUFFICES ASSUME Bad # {} PROVE FALSE
  <2>1. S \notin Bad
    OBVIOUS
  <2> QED BY <2>1
<1>3. Sizes \subseteq Nat /\ Sizes # {}
  BY <1>1
<1>4. PICK k \in Sizes : \A n \in Sizes : k <= n
  BY <1>3, LeastNatural
<1>5. PICK T \in Bad : Cardinality(T) = k
  BY <1>4
<1>6. PICK x \in T : TRUE
  BY <1>5
<1> DEFINE R == T \ {x}
<1>7. R \in SUBSET S /\ Cardinality(R) = k - 1 /\ k \in Nat
  BY <1>1, <1>3, <1>4, <1>5, <1>6, FS_RemoveElement
<1>8. R \notin Bad
  <2>1. k - 1 \notin Sizes
    BY <1>4, <1>7
  <2> QED BY <1>7, <2>1
<1>9. CASE R = {}
  BY <1>2, <1>5, <1>6, <1>9
<1>10. CASE R # {}
  <2>1. PICK m \in R : \A n \in R : n <= m
    BY <1>7, <1>8, <1>10
  <2>2. CASE x <= m
    BY <1>5, <1>6, <2>1, <2>2
  <2>3. CASE ~(x <= m)
    <3>1. \A n \in T : n \in Nat
      BY <1>2, <1>5
    <3>2. \A n \in T : n <= x
      BY <1>6, <2>1, <2>3, <3>1
    <3> QED BY <1>5, <1>6, <3>2
  <2> QED BY <2>2, <2>3
<1> QED BY <1>9, <1>10

(***************************************************************************)
(* The order in which the two loops of Correlate visit the pairs is total, *)
(* so that some pairs always have a last one.                              *)
(***************************************************************************)
LEMMA LatestOf ==
  ASSUME started \in [Finding -> Time], NEW S, S \subseteq Finding, S # {}
  PROVE  \E a \in S : \A b \in S \ {a} : Earlier(b, a)
<1> DEFINE T == {started[a] : a \in S}
<1>1. T \subseteq 0..MaxTime /\ T # {}
  BY DEF Time
<1>2. PICK t \in T : \A u \in T : u <= t
  BY <1>1, GreatestBounded, IncidentsAssumption
<1> DEFINE L == {a \in S : started[a] = t}
<1>3. L \subseteq Finding /\ L # {}
  BY <1>2
<1>4. PICK a \in L : \A b \in L : b <= a
  BY <1>3, GreatestFinding
<1>5. ASSUME NEW b \in S \ {a} PROVE Earlier(b, a)
  <2>1. a \in Nat /\ b \in Nat
    BY <1>3, <1>4, IncidentsAssumption
  <2>2. started[b] \in T /\ started[a] = t
    BY <1>4
  <2>3. t \in Nat /\ started[b] \in Nat
    BY <1>1, <1>2, <2>2
  <2>4. CASE started[b] = t
    <3>1. b <= a
      BY <1>4, <2>4
    <3>2. b < a
      BY <2>1, <3>1
    <3> QED BY <2>2, <2>4, <3>2 DEF Earlier
  <2>5. CASE started[b] # t
    <3>1. started[b] < started[a]
      BY <1>2, <2>2, <2>3, <2>5
    <3> QED BY <3>1 DEF Earlier
  <2> QED BY <2>4, <2>5
<1> QED BY <1>4, <1>5

LEMMA LastPairExists ==
  ASSUME started \in [Finding -> Time], NEW s, s \subseteq Finding \X Finding, s # {}
  PROVE  LastPair(s) \in s
<1> DEFINE firsts == {p[1] : p \in s}
<1>1. firsts \subseteq Finding /\ firsts # {}
  OBVIOUS
<1>2. PICK a \in firsts : \A b \in firsts \ {a} : Earlier(b, a)
  BY <1>1, LatestOf
<1> DEFINE seconds == {p[2] : p \in {q \in s : q[1] = a}}
<1>3. seconds \subseteq Finding /\ seconds # {}
  BY <1>2
<1>4. PICK b \in seconds : \A d \in seconds \ {b} : Earlier(d, b)
  BY <1>3, LatestOf
<1>5. PICK p \in s : p[1] = a /\ p[2] = b
  BY <1>4
<1>6. ASSUME NEW q \in s \ {p}
      PROVE  Earlier(q[1], p[1]) \/ (q[1] = p[1] /\ Earlier(q[2], p[2]))
  <2>1. CASE q[1] # a
    BY <1>2, <1>5, <2>1
  <2>2. CASE q[1] = a
    <3>1. q[2] \in seconds
      BY <2>2
    <3>2. q[2] # b
      BY <1>5, <2>2
    <3> QED BY <1>4, <1>5, <2>2, <3>1, <3>2
  <2> QED BY <2>1, <2>2
<1> QED BY <1>5, <1>6 DEF LastPair

(***************************************************************************)
(* The fold over the pairs.  Visits(g, s, base) is the equation by which   *)
(* MapThenFoldSet defines its function; it has a solution on all subsets   *)
(* of a finite set of pairs, one size after the other.                     *)
(***************************************************************************)
Visits(g, s, base) ==
    IF s = {} THEN base
    ELSE Union(g[s \ {LastPair(s)}], LastPair(s)[1], LastPair(s)[2])

FoldsOver(g, D, base) == g = [s \in D |-> Visits(g, s, base)]

LEMMA FoldExists ==
  ASSUME started \in [Finding -> Time], NEW Q, IsFiniteSet(Q), Q \subseteq Finding \X Finding,
         NEW base
  PROVE  \E g : FoldsOver(g, SUBSET Q, base)
<1> DEFINE Small(n) == {s \in SUBSET Q : Cardinality(s) <= n}
           Solved(n) == \E g : FoldsOver(g, Small(n), base)
           Bad == {n \in Nat : ~Solved(n)}
<1>1. \A s \in SUBSET Q : IsFiniteSet(s) /\ Cardinality(s) \in Nat
  BY FS_Subset, FS_CardinalityType
<1>2. \A s \in SUBSET Q : s # {} => LastPair(s) \in s
  BY LastPairExists
<1>3. Bad = {}
  <2> SUFFICES ASSUME Bad # {} PROVE FALSE
    OBVIOUS
  <2>1. PICK n \in Bad : \A m \in Bad : n <= m
    <3>1. Bad \subseteq Nat
      OBVIOUS
    <3> HIDE DEF Bad
    <3> QED BY <3>1, LeastNatural
  <2>2. n \in Nat /\ ~Solved(n)
    BY <2>1
  <2>3. n # 0
    <3> SUFFICES ASSUME n = 0 PROVE FALSE
      OBVIOUS
    <3>1. \A s \in Small(n) : s = {}
      BY <1>1, FS_EmptySet
    <3> DEFINE h == [s \in Small(n) |-> base]
    <3>2. FoldsOver(h, Small(n), base)
      BY <3>1 DEF Visits, FoldsOver
    <3> QED BY <2>2, <3>2
  <2>4. n - 1 \in Nat /\ n - 1 \notin Bad
    <3> HIDE DEF Bad
    <3> QED BY <2>1, <2>2, <2>3
  <2>5. Solved(n - 1)
    BY <2>4
  <2>6. PICK g : FoldsOver(g, Small(n - 1), base)
    BY <2>5
  <2> DEFINE h == [s \in Small(n) |-> Visits(g, s, base)]
  <2>7. \A s \in Small(n - 1) : s \in Small(n) /\ g[s] = h[s]
    BY <1>1, <2>2, <2>6 DEF FoldsOver
  <2>8. \A s \in Small(n) : s # {} => s \ {LastPair(s)} \in Small(n - 1)
    <3> SUFFICES ASSUME NEW s \in Small(n), s # {}
                 PROVE  s \ {LastPair(s)} \in Small(n - 1)
      OBVIOUS
    <3>1. s \in SUBSET Q /\ LastPair(s) \in s /\ Cardinality(s) <= n
      BY <1>2
    <3>2. Cardinality(s \ {LastPair(s)}) = Cardinality(s) - 1
      BY <1>1, <3>1, FS_RemoveElement
    <3>3. Cardinality(s) \in Nat
      BY <1>1, <3>1
    <3> QED BY <2>2, <3>1, <3>2, <3>3
  <2>9. \A s \in Small(n) : Visits(g, s, base) = Visits(h, s, base)
    BY <2>7, <2>8 DEF Visits
  <2>10. FoldsOver(h, Small(n), base)
    BY <2>9 DEF FoldsOver
  <2> QED BY <2>2, <2>10
<1> DEFINE N == Cardinality(Q)
<1>4. N \in Nat /\ Small(N) = SUBSET Q
  BY <1>1, FS_Subset
<1>5. Solved(N)
  BY <1>3, <1>4
<1> QED BY <1>4, <1>5

Pairs(S) == {p \in S \X S : Earlier(p[1], p[2]) /\ Linked(p[1], p[2])}

LEMMA GroupsFold ==
  ASSUME started \in [Finding -> Time], NEW S, S \subseteq Finding
  PROVE  \E g : /\ FoldsOver(g, SUBSET Pairs(S), {{a} : a \in S})
                /\ Groups(S) = g[Pairs(S)]
<1> DEFINE Q == Pairs(S)
           base == {{a} : a \in S}
           fold == CHOOSE g : FoldsOver(g, SUBSET Q, base)
<1>1. IsFiniteSet(Q) /\ Q \subseteq Finding \X Finding
  <2>1. Q \subseteq S \X S /\ IsFiniteSet(S)
    BY IncidentsAssumption, FS_Subset DEF Pairs
  <2>2. IsFiniteSet(S \X S)
    BY <2>1, FS_Product
  <2> QED BY <2>1, <2>2, FS_Subset
<1>2. \E g : FoldsOver(g, SUBSET Q, base)
  <2> HIDE DEF Q, base
  <2> QED BY <1>1, FoldExists
<1>3. FoldsOver(fold, SUBSET Q, base)
  BY <1>2, Zenon
<1>4. Groups(S) = fold[Q]
  BY Zenon DEF Groups, MapThenFoldSet, FoldsOver, Visits, Pairs
<1> QED BY <1>3, <1>4

(***************************************************************************)
(* Distances.  Spans are compared with the window through their ends.      *)
(***************************************************************************)
Near(a, b) == started[a] - started[b] \in -Window..Window

LEMMA SpanWithin ==
  ASSUME started \in [Finding -> Time], NEW S, S \subseteq Finding, S # {}
  PROVE  Span(S) <= Window <=> \A a, b \in S : started[a] - started[b] <= Window
<1> DEFINE T == {started[a] : a \in S}
<1>1. T \subseteq 0..MaxTime /\ T # {} /\ MaxTime \in Nat /\ Window \in Nat
  BY IncidentsAssumption DEF Time
<1> HIDE DEF T
<1>2. /\ Max(T) \in T /\ \A n \in T : n <= Max(T)
      /\ Min(T) \in T /\ \A n \in T : Min(T) <= n
  BY <1>1, MaxMin
<1>3. \A n \in T : n \in Nat
  BY <1>1
<1>4. PICK x \in S, y \in S : Max(T) = started[x] /\ Min(T) = started[y]
  BY <1>2 DEF T
<1>5. \A a \in S : started[a] \in T
  BY DEF T
<1>6. Span(S) = Max(T) - Min(T)
  BY DEF Span, T
<1>7. ASSUME Span(S) <= Window, NEW a \in S, NEW b \in S
      PROVE  started[a] - started[b] <= Window
  <2>1. started[a] <= Max(T) /\ Min(T) <= started[b]
    BY <1>2, <1>5
  <2>2. {started[a], started[b], Max(T), Min(T)} \subseteq Nat
    BY <1>2, <1>3, <1>5
  <2> QED BY <1>1, <1>6, <1>7, <2>1, <2>2
<1>8. ASSUME \A a, b \in S : started[a] - started[b] <= Window
      PROVE  Span(S) <= Window
  BY <1>4, <1>6, <1>8
<1> QED BY <1>7, <1>8

LEMMA NearOrFar ==
  ASSUME started \in [Finding -> Time], NEW a \in Finding, NEW b \in Finding
  PROVE  /\ Near(a, b) <=> Near(b, a)
         /\ Near(a, b) <=> started[a] - started[b] <= Window /\ started[b] - started[a] <= Window
<1>1. started[a] \in Nat /\ started[b] \in Nat /\ Window \in Nat
  BY IncidentsAssumption DEF Time
<1> QED BY <1>1 DEF Near

LEMMA RelationshipSymmetric ==
  ASSUME NEW a, NEW b
  PROVE  relationship(a, b) <=> relationship(b, a)
  BY DEF relationship

LEMMA LinkedMeans ==
  ASSUME started \in [Finding -> Time], NEW a \in Finding, NEW b \in Finding
  PROVE  Linked(a, b) <=> relationship(a, b) /\ Near(a, b)
<1>1. Span({a, b}) <= Window <=> \A x, y \in {a, b} : started[x] - started[y] <= Window
  BY SpanWithin
<1>2. started[a] \in Nat /\ started[b] \in Nat /\ Window \in Nat
  BY IncidentsAssumption DEF Time
<1>3. Span({a, b}) <= Window <=> Near(a, b)
  BY <1>1, <1>2, NearOrFar
<1> QED BY <1>3 DEF Linked

(***************************************************************************)
(* What the grouping is after the pairs in s have been visited.            *)
(***************************************************************************)
Partition(P, S) ==
    /\ UNION P = S
    /\ \A G \in P : G # {}
    /\ \A G, H \in P : G # H => G \cap H = {}

Compact(G) == Connected(G) /\ \A a, b \in G : started[a] - started[b] <= Window

Apart(G, H) == \E a \in G, b \in H : ~Near(a, b)

Grouped(P, S, s) ==
    /\ Partition(P, S)
    /\ \A G \in P : Compact(G)
    /\ \A p \in s : \A G, H \in P : p[1] \in G /\ p[2] \in H /\ G # H => Apart(G, H)

LEMMA GroupOfMember ==
  ASSUME NEW S, NEW P, Partition(P, S), NEW a \in S
  PROVE  /\ GroupOf(P, a) \in P /\ a \in GroupOf(P, a)
         /\ \A G \in P : a \in G => G = GroupOf(P, a)
<1>1. \E G \in P : a \in G
  BY DEF Partition
<1>2. GroupOf(P, a) \in P /\ a \in GroupOf(P, a)
  BY <1>1 DEF GroupOf
<1> QED BY <1>2 DEF Partition

LEMMA SingletonsGrouped ==
  ASSUME started \in [Finding -> Time], NEW S, S \subseteq Finding
  PROVE  Grouped({{a} : a \in S}, S, {})
<1> DEFINE P == {{a} : a \in S}
<1>1. Partition(P, S)
  BY DEF Partition
<1>2. ASSUME NEW G \in P PROVE Compact(G)
  <2>1. PICK a \in S : G = {a}
    OBVIOUS
  <2>2. (SUBSET G) \ {{}, G} = {}
    BY <2>1
  <2>3. started[a] \in Nat /\ Window \in Nat
    BY IncidentsAssumption DEF Time
  <2> QED BY <2>1, <2>2, <2>3 DEF Compact, Connected
<1> QED BY <1>1, <1>2 DEF Grouped

(* Two groups that a related pair links are connected as one. *)
LEMMA JoinedConnected ==
  ASSUME started \in [Finding -> Time], NEW A, NEW B, A \subseteq Finding, B \subseteq Finding,
         A \cap B = {}, Connected(A), Connected(B),
         NEW a \in A, NEW b \in B, relationship(a, b), Near(a, b)
  PROVE  Connected(A \cup B)
<1> SUFFICES ASSUME NEW X \in (SUBSET (A \cup B)) \ {{}, A \cup B}
             PROVE  \E x \in X, y \in (A \cup B) \ X : relationship(x, y) /\ Near(x, y)
  BY DEF Connected, Near
<1>1. CASE X \cap A \notin {{}, A}
  <2>1. X \cap A \in (SUBSET A) \ {{}, A}
    BY <1>1
  <2>2. PICK x \in X \cap A, y \in A \ (X \cap A) : relationship(x, y) /\ Near(x, y)
    BY <2>1 DEF Connected, Near
  <2> QED BY <2>2
<1>2. CASE X \cap B \notin {{}, B}
  <2>1. X \cap B \in (SUBSET B) \ {{}, B}
    BY <1>2
  <2>2. PICK x \in X \cap B, y \in B \ (X \cap B) : relationship(x, y) /\ Near(x, y)
    BY <2>1 DEF Connected, Near
  <2> QED BY <2>2
<1>3. CASE X \cap A \in {{}, A} /\ X \cap B \in {{}, B}
  <2>1. X = A \/ X = B
    BY <1>3
  <2>2. relationship(b, a) /\ Near(b, a)
    BY RelationshipSymmetric, NearOrFar
  <2> QED BY <2>1, <2>2
<1> QED BY <1>1, <1>2, <1>3

(* Groups that do not fit are apart: within one group all is near. *)
LEMMA UnfitApart ==
  ASSUME started \in [Finding -> Time], NEW A, NEW B, A \subseteq Finding, B \subseteq Finding,
         Compact(A), Compact(B), NEW a \in A, ~Fits(A, B)
  PROVE  Apart(A, B)
<1>1. PICK x \in A \cup B, y \in A \cup B : ~(started[x] - started[y] <= Window)
  BY SpanWithin DEF Fits
<1>2. x \in A => y \in B
  BY <1>1 DEF Compact
<1>3. x \in B => y \in A
  BY <1>1 DEF Compact
<1>4. ~Near(x, y) /\ ~Near(y, x)
  BY <1>1, NearOrFar
<1> QED BY <1>2, <1>3, <1>4 DEF Apart

(***************************************************************************)
(* A visit of the inner loop keeps what the visits before it established   *)
(* and adds its own pair.                                                  *)
(***************************************************************************)
LEMMA VisitGrouped ==
  ASSUME started \in [Finding -> Time], NEW S, S \subseteq Finding, NEW P, NEW s, NEW p \in S \X S,
         Linked(p[1], p[2]), Grouped(P, S, s \ {p})
  PROVE  Grouped(Union(P, p[1], p[2]), S, s)
<1> DEFINE a == p[1]
           b == p[2]
           A == GroupOf(P, a)
           B == GroupOf(P, b)
           C == A \cup B
<1>1. a \in S /\ b \in S /\ a \in Finding /\ b \in Finding
  OBVIOUS
<1>2. Partition(P, S)
  BY DEF Grouped
<1>3. /\ A \in P /\ a \in A /\ \A G \in P : a \in G => G = A
      /\ B \in P /\ b \in B /\ \A G \in P : b \in G => G = B
  BY <1>1, <1>2, GroupOfMember
<1>4. \A G \in P : G \subseteq Finding /\ Compact(G)
  BY <1>2 DEF Grouped, Partition
<1>5. relationship(a, b) /\ Near(a, b)
  BY <1>1, LinkedMeans
<1> HIDE DEF a, b, A, B
<1>6. CASE A # B /\ Fits(A, B)
  <2> DEFINE R == (P \ {A, B}) \cup {C}
  <2>1. Union(P, p[1], p[2]) = R
    BY <1>6 DEF Union, a, b, A, B
  <2>2. Partition(R, S)
    <3>1. UNION R = S
      <4>1. UNION R \subseteq UNION P
        BY <1>3
      <4>2. ASSUME NEW x \in UNION P PROVE x \in UNION R
        <5>1. PICK G \in P : x \in G
          BY <4>2
        <5>2. CASE G \in {A, B}
          <6>1. C \in R /\ x \in C
            BY <5>1, <5>2
          <6> QED BY <6>1
        <5>3. CASE G \notin {A, B}
          BY <5>1, <5>3
        <5> QED BY <5>2, <5>3
      <4> QED BY <1>2, <4>1, <4>2 DEF Partition
    <3>2. \A G \in R : G # {}
      BY <1>2, <1>3 DEF Partition
    <3>3. \A G \in P \ {A, B} : G \cap C = {}
      BY <1>2, <1>3 DEF Partition
    <3>4. \A G, H \in P \ {A, B} : G # H => G \cap H = {}
      BY <1>2 DEF Partition
    <3> QED BY <3>1, <3>2, <3>3, <3>4 DEF Partition
  <2>3. Compact(C)
    <3>1. C \subseteq Finding /\ C # {}
      BY <1>3, <1>4
    <3>2. \A x, y \in C : started[x] - started[y] <= Window
      BY <1>6, <3>1, SpanWithin DEF Fits
    <3>3. A \cap B = {}
      BY <1>2, <1>3, <1>6 DEF Partition
    <3>4. Connected(A) /\ Connected(B)
      BY <1>3, <1>4 DEF Compact
    <3>5. Connected(C)
      BY <1>3, <1>4, <1>5, <3>3, <3>4, JoinedConnected
    <3> QED BY <3>2, <3>5 DEF Compact
  <2>4. ASSUME NEW q \in s, NEW G \in R, NEW H \in R, q[1] \in G, q[2] \in H, G # H
        PROVE  Apart(G, H)
    <3>1. q # p
      <4>1. CASE q = p
        <5>1. q[1] \in C /\ q[2] \in C
          BY <1>3, <4>1 DEF a, b
        <5>2. G = C /\ H = C
          <6>1. C \in R
            OBVIOUS
          <6>2. q[1] \in G \cap C /\ q[2] \in H \cap C
            BY <2>4, <5>1
          <6> HIDE DEF C, R
          <6> QED BY <2>2, <2>4, <6>1, <6>2 DEF Partition
        <5> QED BY <2>4, <5>2
      <4> QED BY <4>1
    <3>2. PICK I \in P : q[1] \in I /\ I \subseteq G
      BY <1>3, <2>4
    <3>3. PICK J \in P : q[2] \in J /\ J \subseteq H
      BY <1>3, <2>4
    <3>4. G \cap H = {}
      BY <2>2, <2>4 DEF Partition
    <3>5. I # J
      BY <3>2, <3>3, <3>4
    <3>6. Apart(I, J)
      BY <3>1, <3>2, <3>3, <3>5 DEF Grouped
    <3> QED BY <3>2, <3>3, <3>6 DEF Apart
  <2> HIDE DEF R
  <2>5. \A G \in R : Compact(G)
    BY <1>4, <2>3 DEF R
  <2> QED BY <2>1, <2>2, <2>4, <2>5 DEF Grouped
<1>7. CASE ~(A # B /\ Fits(A, B))
  <2>1. Union(P, p[1], p[2]) = P
    BY <1>7 DEF Union, a, b, A, B
  <2>2. ASSUME NEW q \in s, NEW G \in P, NEW H \in P, q[1] \in G, q[2] \in H, G # H
        PROVE  Apart(G, H)
    <3>1. CASE q = p
      <4>1. G = A /\ H = B
        BY <1>3, <2>2, <3>1 DEF a, b
      <4>2. ~Fits(A, B)
        BY <1>7, <2>2, <4>1
      <4>3. Apart(A, B)
        BY <1>3, <1>4, <4>2, UnfitApart
      <4> QED BY <4>1, <4>3
    <3>2. CASE q # p
      BY <2>2, <3>2 DEF Grouped
    <3> QED BY <3>1, <3>2
  <2> QED BY <1>2, <1>4, <2>1, <2>2 DEF Grouped
<1> QED BY <1>6, <1>7

(***************************************************************************)
(* All pairs visited, from the fewest on: Correlate's grouping.            *)
(***************************************************************************)
LEMMA GroupsGrouped ==
  ASSUME started \in [Finding -> Time], NEW S, S \subseteq Finding
  PROVE  Grouped(Groups(S), S, Pairs(S))
<1> DEFINE Q == Pairs(S)
           base == {{a} : a \in S}
<1>1. PICK g : FoldsOver(g, SUBSET Q, base) /\ Groups(S) = g[Q]
  BY GroupsFold
<1>2. IsFiniteSet(Q) /\ Q \subseteq S \X S
  <2>1. Q \subseteq S \X S /\ IsFiniteSet(S)
    BY IncidentsAssumption, FS_Subset DEF Pairs
  <2>2. IsFiniteSet(S \X S)
    BY <2>1, FS_Product
  <2> QED BY <2>1, <2>2, FS_Subset
<1>3. \A p \in Q : Linked(p[1], p[2])
  BY DEF Pairs
<1>4. Grouped(base, S, {})
  BY SingletonsGrouped
<1> HIDE DEF Q, base
<1> DEFINE Bad == {s \in SUBSET Q : ~Grouped(g[s], S, s)}
           Sizes == {Cardinality(s) : s \in Bad}
<1>5. \A s \in SUBSET Q : IsFiniteSet(s) /\ Cardinality(s) \in Nat
  BY <1>2, FS_Subset, FS_CardinalityType
<1>6. Bad = {}
  <2> SUFFICES ASSUME Bad # {} PROVE FALSE
    OBVIOUS
  <2>1. Sizes \subseteq Nat /\ Sizes # {}
    BY <1>5
  <2>2. PICK n \in Sizes : \A m \in Sizes : n <= m
    <3> HIDE DEF Sizes
    <3> QED BY <2>1, LeastNatural
  <2>3. PICK s \in Bad : Cardinality(s) = n
    BY <2>2
  <2>4. s \in SUBSET Q /\ ~Grouped(g[s], S, s) /\ n \in Nat
    BY <2>1, <2>2, <2>3
  <2>5. CASE s = {}
    <3>1. g[s] = base
      BY <1>1, <2>4, <2>5 DEF FoldsOver, Visits
    <3> QED BY <1>4, <2>4, <2>5, <3>1
  <2>6. CASE s # {}
    <3> DEFINE p == LastPair(s)
               r == s \ {p}
    <3>1. p \in s
      <4>1. s \subseteq Finding \X Finding
        BY <1>2, <2>4
      <4> QED BY <2>6, <4>1, LastPairExists
    <3>2. g[s] = Union(g[r], p[1], p[2])
      BY <1>1, <2>4, <2>6 DEF FoldsOver, Visits
    <3>3. r \in SUBSET Q /\ Cardinality(r) = n - 1
      BY <1>5, <2>3, <2>4, <3>1, FS_RemoveElement
    <3> HIDE DEF r, p
    <3>4. r \notin Bad
      <4>1. n - 1 \notin Sizes
        <5> HIDE DEF Sizes
        <5> QED BY <2>2, <2>4
      <4> QED BY <3>3, <4>1
    <3>5. Grouped(g[r], S, r)
      BY <3>3, <3>4
    <3>6. p \in S \X S /\ Linked(p[1], p[2])
      BY <1>2, <1>3, <2>4, <3>1
    <3>7. Grouped(Union(g[r], p[1], p[2]), S, s)
      BY <3>5, <3>6, VisitGrouped DEF r
    <3> QED BY <2>4, <3>2, <3>7
  <2> QED BY <2>5, <2>6
<1>7. Grouped(g[Q], S, Q)
  BY <1>6
<1> QED BY <1>1, <1>7 DEF Q

(* What a rebuild finds: disjoint sets of findings it has read. *)
LEMMA Correlated ==
  ASSUME started \in [Finding -> Time], NEW S, S \subseteq Finding
  PROVE  /\ \A G \in Correlate(S) : G \subseteq Finding /\ G # {}
         /\ \A G, H \in Correlate(S) : G # H => G \cap H = {}
<1>1. Partition(Groups(S), S)
  BY GroupsGrouped DEF Grouped
<1> QED BY <1>1 DEF Correlate, Partition

(***************************************************************************)
(* Type correctness, action by action.                                     *)
(***************************************************************************)
LEMMA NoneTypes == NoIncident \in Incident /\ NoCopy \in Copy
<1>1. 0 \in Time
  BY IncidentsAssumption DEF Time
<1> QED BY <1>1 DEF NoIncident, Incident, NoCopy, Copy

LEMMA BuiltType ==
  ASSUME NEW copy \in Copy, NEW G \in SUBSET Finding, G # {}
  PROVE  Built(G, copy) \in Incident
<1> DEFINE T == {copy.ended[f] : f \in G}
<1>1. T \subseteq 0..MaxTime /\ T # {} /\ MaxTime \in Nat
  <2>1. copy.ended \in [Finding -> Time]
    BY DEF Copy
  <2> QED BY <2>1, IncidentsAssumption DEF Time
<1> HIDE DEF T
<1>2. Max(T) \in T
  BY <1>1, MaxMin
<1>3. T \subseteq Time /\ 0 \in Time
  BY <1>1 DEF Time
<1>4. Max(T) \in Time
  BY <1>2, <1>3
<1> QED BY <1>3, <1>4 DEF Built, T, Incident

LEMMA RebuiltType ==
  ASSUME TypeOK, NEW copy \in Copy, NEW i \in Finding, NEW found,
         \A G \in found : G \subseteq Finding /\ G # {}
  PROVE  Kept(Rebuilt(i, found, copy), copy.now) \in Incident
<1>1. Rebuilt(i, found, copy) \in Incident
  <2>1. CASE \E G \in found : First(G) = i
    <3> DEFINE H == CHOOSE G \in found : First(G) = i
    <3>1. H \in found
      BY <2>1
    <3> HIDE DEF H
    <3>2. Built(H, copy) \in Incident
      BY <3>1, BuiltType
    <3> QED BY <2>1, <3>2 DEF Rebuilt, H
  <2>2. CASE ~\E G \in found : First(G) = i
    <3>1. incident[i] \in Incident /\ copy.now \in Time
      BY DEF TypeOK, Copy
    <3>2. Superseded(incident[i], copy.now) \in Incident
      BY <3>1 DEF Superseded, Incident
    <3> QED BY <2>2, <3>2 DEF Rebuilt
  <2> QED BY <2>1, <2>2
<1> QED BY <1>1, NoneTypes DEF Kept

LEMMA InitType == Init => TypeOK
<1> SUFFICES ASSUME Init PROVE TypeOK
  OBVIOUS
<1>1. clock \in Time /\ 0 \in Time
  BY IncidentsAssumption DEF Init, Time
<1>2. started \in [Finding -> Time]
  BY IncidentsAssumption DEF Init, Time
<1>3. changes \in 0..MaxChanges /\ faults \in 0..MaxFaults
  BY IncidentsAssumption DEF Init
<1> QED BY <1>1, <1>2, <1>3, NoneTypes DEF Init, TypeOK

LEMMA StepType ==
  ASSUME TypeOK, [Next]_vars
  PROVE  TypeOK'
<1> USE DEF TypeOK, findingVars
<1>0. 0 \in Time /\ MaxChanges \in Nat /\ MaxFaults \in Nat
  BY IncidentsAssumption DEF Time
<1>1. ASSUME NEW c \in Cycle, Reconcile(c) PROVE TypeOK'
  <2>1. PICK report \in SUBSET Finding, at \in Time : UpsertFindings(c, report, at)
    BY <1>1 DEF Reconcile
  <2>2. /\ status' \in [Finding -> {"absent", "open", "resolved"}]
        /\ pc' \in [Cycle -> {"idle", "reconciled", "read"}]
    BY <2>1 DEF UpsertFindings
  <2>3. started' \in [Finding -> Time] /\ resolvedAt' \in [Finding -> Time]
    BY <1>0, <2>1 DEF UpsertFindings
  <2>4. changes' \in 0..MaxChanges
    BY <1>0, <2>1 DEF UpsertFindings
  <2> QED BY <2>1, <2>2, <2>3, <2>4 DEF UpsertFindings
<1>2. ASSUME NEW c \in Cycle, RecentIncidentFindings(c) PROVE TypeOK'
  <2>1. PICK S \in NewestOf(RecentFindings) :
          read' = [read EXCEPT ![c] =
              [now |-> clock, seen |-> S, open |-> {f \in S : status[f] = "open"},
               ended |-> [f \in Finding |-> IF f \in S THEN resolvedAt[f] ELSE 0]]]
    BY <1>2 DEF RecentIncidentFindings
  <2>2. S \subseteq Finding
    BY DEF NewestOf, RecentFindings
  <2>3. [f \in Finding |-> IF f \in S THEN resolvedAt[f] ELSE 0] \in [Finding -> Time]
    BY <1>0
  <2>4. read' \in [Cycle -> Copy]
    BY <2>1, <2>2, <2>3 DEF Copy
  <2> QED BY <1>2, <2>4 DEF RecentIncidentFindings
<1>3. ASSUME NEW c \in Cycle, RebuildIncidents(c) PROVE TypeOK'
  <2> DEFINE found == Correlate(read[c].seen)
  <2>1. read[c] \in Copy /\ read[c].seen \subseteq Finding
    BY DEF Copy
  <2>2. \A G \in found : G \subseteq Finding /\ G # {}
    BY <2>1, Correlated
  <2>3. incident' = [i \in Finding |-> Kept(Rebuilt(i, found, read[c]), read[c].now)]
    BY <1>3 DEF RebuildIncidents
  <2> HIDE DEF found
  <2>4. incident' \in [Finding -> Incident]
    BY <2>1, <2>2, <2>3, RebuiltType
  <2>5. read' \in [Cycle -> Copy]
    BY <1>3, NoneTypes DEF RebuildIncidents
  <2> QED BY <1>3, <2>4, <2>5 DEF RebuildIncidents
<1>4. ASSUME NEW c \in Cycle, RebuildFails(c) PROVE TypeOK'
  BY <1>0, <1>4, NoneTypes DEF RebuildFails
<1>5. ASSUME Crash PROVE TypeOK'
  BY <1>0, <1>5, NoneTypes DEF Crash
<1>6. ASSUME Tick PROVE TypeOK'
  BY <1>6, IncidentsAssumption DEF Tick, Time
<1>7. ASSUME UNCHANGED vars PROVE TypeOK'
  BY <1>7 DEF vars
<1> HIDE DEF TypeOK, findingVars
<1> QED BY <1>1, <1>2, <1>3, <1>4, <1>5, <1>6, <1>7 DEF Next, Rebuild

(***************************************************************************)
(* A rebuild leaves an incident active only when it has just built it from *)
(* a group of its own: the others are superseded.                          *)
(***************************************************************************)
LEMMA ActiveIsBuilt ==
  ASSUME NEW i, NEW found, NEW copy, NEW now,
         Kept(Rebuilt(i, found, copy), now).state = "active"
  PROVE  \E G \in found : First(G) = i /\ Kept(Rebuilt(i, found, copy), now).members = G
<1>1. /\ Rebuilt(i, found, copy).state = "active"
      /\ Kept(Rebuilt(i, found, copy), now) = Rebuilt(i, found, copy)
  BY DEF Kept, NoIncident
<1>2. CASE \E G \in found : First(G) = i
  <2> DEFINE H == CHOOSE G \in found : First(G) = i
  <2>1. H \in found /\ First(H) = i
    BY <1>2
  <2>2. Rebuilt(i, found, copy) = Built(H, copy)
    BY <1>2 DEF Rebuilt
  <2> HIDE DEF H
  <2>3. Built(H, copy).members = H
    BY DEF Built
  <2> QED BY <1>1, <2>1, <2>2, <2>3
<1>3. CASE ~\E G \in found : First(G) = i
  BY <1>1, <1>3 DEF Rebuilt, Superseded
<1> QED BY <1>2, <1>3

LEMMA StepDisjoint ==
  ASSUME TypeOK, ActiveIncidentsDisjoint, [Next]_vars
  PROVE  ActiveIncidentsDisjoint'
<1>1. ASSUME NEW c \in Cycle, RebuildIncidents(c) PROVE ActiveIncidentsDisjoint'
  <2> DEFINE found == Correlate(read[c].seen)
  <2>1. started \in [Finding -> Time] /\ read[c].seen \subseteq Finding
    BY DEF TypeOK, Copy
  <2>2. \A G, H \in found : G # H => G \cap H = {}
    BY <2>1, Correlated
  <2>3. incident' = [i \in Finding |-> Kept(Rebuilt(i, found, read[c]), read[c].now)]
    BY <1>1 DEF RebuildIncidents
  <2> HIDE DEF found
  <2>4. \A i \in Finding : incident'[i].state = "active" =>
            \E G \in found : First(G) = i /\ incident'[i].members = G
    BY <2>3, ActiveIsBuilt
  <2> SUFFICES ASSUME NEW i \in Finding, NEW j \in Finding, i # j,
                      incident'[i].state = "active", incident'[j].state = "active"
               PROVE  incident'[i].members \cap incident'[j].members = {}
    BY DEF ActiveIncidentsDisjoint, ActiveIncidents
  <2>5. PICK G \in found : First(G) = i /\ incident'[i].members = G
    BY <2>4
  <2>6. PICK H \in found : First(H) = j /\ incident'[j].members = H
    BY <2>4
  <2> QED BY <2>2, <2>5, <2>6
<1>2. ASSUME UNCHANGED incident PROVE ActiveIncidentsDisjoint'
  BY <1>2 DEF ActiveIncidentsDisjoint, ActiveIncidents
<1>3. (\E c \in Cycle : RebuildIncidents(c)) \/ UNCHANGED incident
  BY DEF Next, Reconcile, UpsertFindings, Rebuild, RecentIncidentFindings, RebuildFails, Crash,
         Tick, vars
<1> QED BY <1>1, <1>2, <1>3

(* The inductive invariant. *)
IInv == TypeOK /\ ActiveIncidentsDisjoint

(***************************************************************************)
(* Every reachable state has the invariant.                                *)
(***************************************************************************)
THEOREM Invariance == Spec => []IInv
<1>1. Init => IInv
  <2> SUFFICES ASSUME Init PROVE IInv
    OBVIOUS
  <2>1. TypeOK
    BY InitType
  <2>2. ActiveIncidentsDisjoint
    BY DEF Init, ActiveIncidentsDisjoint, ActiveIncidents, NoIncident
  <2> QED BY <2>1, <2>2 DEF IInv
<1>2. IInv /\ [Next]_vars => IInv'
  BY StepType, StepDisjoint DEF IInv
<1> QED BY <1>1, <1>2, PTL DEF Spec

(***************************************************************************)
(* Types: an incident built from a group always has its time of resolution *)
(* (buildIncident), whatever was read.                                     *)
(***************************************************************************)
THEOREM TypeCorrect == Spec => []TypeOK
  BY Invariance, PTL DEF IInv

(***************************************************************************)
(* However rebuilds interleave, on however outdated reads, a finding is in *)
(* at most one active incident.                                            *)
(***************************************************************************)
THEOREM ActiveIncidentsNeverShare == Spec => []ActiveIncidentsDisjoint
  BY Invariance, PTL DEF IInv

(***************************************************************************)
(* The union-find of Correlate computes its grouping for every set of      *)
(* findings, in whatever relation and at whatever distances.               *)
(***************************************************************************)
THEOREM GroupsAreRight == Spec => []GroupingCorrect
<1>1. TypeOK => GroupingCorrect
  <2> DEFINE Right(P, S) ==
        /\ UNION P = S
        /\ \A G \in P : G # {} /\ Connected(G)
                        /\ \A a, b \in G : started[a] - started[b] <= Window
        /\ \A G, H \in P : G # H =>
            /\ G \cap H = {}
            /\ (\E a \in G, b \in H : relationship(a, b) /\ Near(a, b)) => Apart(G, H)
  <2> SUFFICES ASSUME TypeOK, NEW c \in Cycle
               PROVE  Right(Groups(read[c].seen), read[c].seen)
    BY Zenon DEF GroupingCorrect, Near, Apart
  <2> DEFINE S == read[c].seen
             P == Groups(S)
  <2>1. started \in [Finding -> Time] /\ S \subseteq Finding
    BY DEF TypeOK, Copy
  <2>2. Grouped(P, S, Pairs(S))
    BY <2>1, GroupsGrouped
  <2> HIDE DEF P, S
  <2>3. ASSUME NEW G \in P, NEW H \in P, G # H, NEW a \in G, NEW b \in H,
               relationship(a, b), Near(a, b)
        PROVE  Apart(G, H)
    <3>1. a \in S /\ b \in S /\ a # b
      BY <2>2, <2>3 DEF Grouped, Partition
    <3>2. a \in Finding /\ b \in Finding /\ a \in Nat /\ b \in Nat
      BY <2>1, <3>1, IncidentsAssumption
    <3>3. Linked(a, b) /\ Linked(b, a)
      BY <2>1, <2>3, <3>2, LinkedMeans, NearOrFar, RelationshipSymmetric
    <3>4. started[a] \in Nat /\ started[b] \in Nat
      BY <2>1, <3>2, IncidentsAssumption DEF Time
    <3>5. Earlier(a, b) \/ Earlier(b, a)
      BY <3>1, <3>2, <3>4 DEF Earlier
    <3>6. <<a, b>> \in Pairs(S) \/ <<b, a>> \in Pairs(S)
      BY <3>1, <3>3, <3>5 DEF Pairs
    <3>7. Apart(G, H) \/ Apart(H, G)
      BY <2>2, <2>3, <3>6 DEF Grouped
    <3>8. G \subseteq Finding /\ H \subseteq Finding
      BY <2>1, <2>2 DEF Grouped, Partition
    <3> QED BY <2>1, <3>7, <3>8, NearOrFar DEF Apart
  <2>4. UNION P = S /\ \A G \in P : G # {}
    BY <2>2 DEF Grouped, Partition
  <2>5. \A G \in P : Connected(G) /\ \A a, b \in G : started[a] - started[b] <= Window
    BY <2>2 DEF Grouped, Compact
  <2>6. \A G, H \in P : G # H => G \cap H = {}
    BY <2>2 DEF Grouped, Partition
  <2> QED BY <2>3, <2>4, <2>5, <2>6 DEF P, S
<1> QED BY <1>1, Invariance, PTL DEF IInv
=============================================================================
