---------------------------- MODULE RoutesProofs ----------------------------
(***************************************************************************)
(* For any routes, words, prefixes and bounds: a search finds the first    *)
(* route in the order of the patterns, arguments stand where the script    *)
(* declared them, and what is missing or refused has its cause.            *)
(*                                                                         *)
(* The proofs are about data more than about steps.  First come the        *)
(* operators: the rank of a parameter in its pattern, the expression and   *)
(* the positions made from a pattern (RouteSet::compile), groups as the    *)
(* fold of additions, FlattenSeq, Min and Max.  Induction is over the      *)
(* least number of a set (UpTo), which needs no theorem with an operator   *)
(* as its parameter.  Then the invariant (IInv), in these parts:           *)
(*   ObjectsFit  a compiled route still has the shape its script declared, *)
(*               behind a prefix, and the positions of its names           *)
(*   EntriesFit  the key of an addition is the expression of its route,    *)
(*               unless a script compiled the route again                  *)
(*   Grouped     each of the two tables holds its additions and no others, *)
(*               grouped by key, in the order of the first of each group   *)
(*   MatchFits   what a match captured are words of its URI, those of an   *)
(*               addition of the route it found                            *)
(***************************************************************************)
EXTENDS Routes, FiniteSetTheorems, SequenceTheorems, TLAPS

(***************************************************************************)
(* The least number of a set: with it, induction without a predicate.      *)
(***************************************************************************)
Smaller == {ss \in Nat \X Nat: ss[1] < ss[2]}

LEMMA SmallerIsWellFounded == IsWellFoundedOn(Smaller, Nat)
BY NatLessThanWellFounded DEF OpToRel, Smaller

LEMMA MinOf ==
  ASSUME NEW T, T \subseteq Nat, T # {}
  PROVE  Min(T) \in T /\ \A y \in T: Min(T) <= y
<1>1. PICK x \in T: \A y \in T: ~ (<<y, x>> \in Smaller)
  BY WFMin, SmallerIsWellFounded
<1>2. ASSUME NEW y \in T PROVE x <= y
  <2>1. ~ (y < x)
    BY <1>1 DEF Smaller
  <2> QED
    BY <2>1
<1>3. \E z \in T: \A y \in T: z =< y
  BY <1>2
<1> QED
  BY <1>3 DEF Min

LEMMA MaxOf ==
  ASSUME NEW T, NEW b \in Nat, T \subseteq 0..b, T # {}
  PROVE  Max(T) \in T /\ \A y \in T: y <= Max(T)
<1> DEFINE U == {b - y: y \in T}
<1>1. U \subseteq Nat /\ U # {}
  <2>1. \A y \in T: b - y \in Nat
    OBVIOUS
  <2> QED
    BY <2>1
<1>2. Min(U) \in U /\ \A u \in U: Min(U) <= u
  BY <1>1, MinOf
<1>3. PICK z \in T: Min(U) = b - z
  BY <1>2
<1>4. ASSUME NEW y \in T PROVE z >= y
  <2>1. b - y \in U
    OBVIOUS
  <2>2. b - z <= b - y
    BY <1>2, <1>3, <2>1
  <2> QED
    BY <2>2
<1>5. \E x \in T: \A y \in T: x >= y
  BY <1>4
<1>6. Max(T) \in T /\ \A y \in T: Max(T) >= y
  BY <1>5 DEF Max
<1> QED
  BY <1>6

LEMMA UpTo ==
  ASSUME NEW S, 0 \in S, \A n \in Nat: n \in S => n + 1 \in S
  PROVE  Nat \subseteq S
<1> SUFFICES ASSUME Nat \ S # {} PROVE FALSE
  OBVIOUS
<1>1. PICK m \in Nat \ S: \A y \in Nat \ S: m <= y
  BY MinOf
<1>2. m # 0 /\ m - 1 \in Nat
  BY <1>1
<1>3. m - 1 \in S
  BY <1>1, <1>2
<1> QED
  BY <1>1, <1>2, <1>3
-----------------------------------------------------------------------------
(***************************************************************************)
(* Ranks: the parameters of a pattern, counted from the left.              *)
(***************************************************************************)
Upto(p, i) == {j \in Parameters(p): j <= i}

LEMMA ParametersAre ==
  ASSUME NEW p \in Seq(Segment)
  PROVE  /\ Parameters(p) \subseteq 1..Len(p)
         /\ IsFiniteSet(Parameters(p)) /\ Cardinality(Parameters(p)) \in Nat
         /\ Cardinality(Parameters(p)) <= Len(p)
         /\ \A i: IsFiniteSet(Upto(p, i)) /\ Cardinality(Upto(p, i)) \in Nat
                    /\ Cardinality(Upto(p, i)) <= Cardinality(Parameters(p))
         /\ \A i: Rank(p, i) = Cardinality(Upto(p, i))
<1>1. PICK k \in Nat: k = Len(p)
  OBVIOUS
<1>2. Parameters(p) \subseteq 1..k
  BY <1>1 DEF Parameters
<1>3. IsFiniteSet(1..k) /\ Cardinality(1..k) = k
  BY FS_Interval
<1>4. /\ IsFiniteSet(Parameters(p)) /\ Cardinality(Parameters(p)) \in Nat
      /\ Cardinality(Parameters(p)) <= k
  BY <1>2, <1>3, FS_Subset, FS_CardinalityType
<1>5. ASSUME NEW i
      PROVE  /\ IsFiniteSet(Upto(p, i)) /\ Cardinality(Upto(p, i)) \in Nat
             /\ Cardinality(Upto(p, i)) <= Cardinality(Parameters(p))
  <2>1. Upto(p, i) \in SUBSET Parameters(p)
    BY DEF Upto
  <2> QED
    BY <1>4, <2>1, FS_Subset, FS_CardinalityType
<1>6. \A i: Rank(p, i) = Cardinality(Upto(p, i))
  BY DEF Rank, Upto
<1> QED
  BY <1>1, <1>2, <1>4, <1>5, <1>6

LEMMA RankGrows ==
  ASSUME NEW p \in Seq(Segment), NEW i \in Nat
  PROVE  Rank(p, i + 1) = IF i + 1 \in Parameters(p) THEN Rank(p, i) + 1 ELSE Rank(p, i)
<1>1. i + 1 \notin Upto(p, i)
  BY DEF Upto
<1>2. ASSUME i + 1 \in Parameters(p) PROVE Upto(p, i + 1) = Upto(p, i) \cup {i + 1}
  <2>1. \A j \in Parameters(p): j \in Nat
    BY ParametersAre
  <2> QED
    BY <1>2, <2>1 DEF Upto
<1>3. ASSUME i + 1 \notin Parameters(p) PROVE Upto(p, i + 1) = Upto(p, i)
  <2>1. \A j \in Parameters(p): j \in Nat /\ j # i + 1
    BY <1>3, ParametersAre
  <2> QED
    BY <2>1 DEF Upto
<1>4. IsFiniteSet(Upto(p, i))
  BY ParametersAre
<1>5. Cardinality(Upto(p, i) \cup {i + 1}) = Cardinality(Upto(p, i)) + 1
  BY <1>1, <1>4, FS_AddElement
<1> QED
  BY <1>2, <1>3, <1>5, ParametersAre

LEMMA RankBounds ==
  ASSUME NEW p \in Seq(Segment), NEW i \in Parameters(p)
  PROVE  Rank(p, i) \in 1..Cardinality(Parameters(p))
<1>1. i \in Upto(p, i)
  BY ParametersAre DEF Upto
<1>2. Cardinality(Upto(p, i)) # 0
  BY <1>1, ParametersAre, FS_EmptySet
<1> QED
  BY <1>2, ParametersAre

LEMMA RankOrders ==
  ASSUME NEW p \in Seq(Segment), NEW i \in Parameters(p), NEW j \in Parameters(p), i < j
  PROVE  Rank(p, i) < Rank(p, j)
<1>1. i \in Nat /\ j \in Nat
  BY ParametersAre
<1>2. Upto(p, i) \in SUBSET Upto(p, j) /\ j \in Upto(p, j) /\ j \notin Upto(p, i)
  <2>1. \A k \in Parameters(p): k \in Nat
    BY ParametersAre
  <2>2. \A k \in Parameters(p): k <= i => k <= j
    BY <1>1, <2>1
  <2>3. j <= j /\ ~ (j <= i)
    BY <1>1
  <2> QED
    BY <2>2, <2>3 DEF Upto
<1>3. Cardinality(Upto(p, i)) <= Cardinality(Upto(p, j))
      /\ Cardinality(Upto(p, i)) # Cardinality(Upto(p, j))
  BY <1>2, ParametersAre, FS_Subset
<1> QED
  BY <1>3, ParametersAre

LEMMA RankIsReached ==
  ASSUME NEW p \in Seq(Segment), NEW r \in 1..Cardinality(Parameters(p))
  PROVE  \E i \in Parameters(p): Rank(p, i) = r
<1> DEFINE T == {i \in Nat: Rank(p, i) >= r}
<1>1. \A i \in Nat: Rank(p, i) \in Nat
  BY ParametersAre
<1>2. Rank(p, 0) = 0
  <2>1. Upto(p, 0) = {}
    BY ParametersAre DEF Upto
  <2> QED
    BY <2>1, ParametersAre, FS_EmptySet
<1>3. Len(p) \in T
  <2>1. Upto(p, Len(p)) = Parameters(p)
    BY ParametersAre DEF Upto
  <2> QED
    BY <2>1, ParametersAre
<1>4. PICK m \in T: \A y \in T: m <= y
  BY <1>3, MinOf
<1>5. m # 0 /\ m - 1 \in Nat
  BY <1>2, <1>4, ParametersAre
<1>6. Rank(p, m - 1) < r
  BY <1>1, <1>4, <1>5, ParametersAre
<1>7. Rank(p, m) = IF m \in Parameters(p) THEN Rank(p, m - 1) + 1 ELSE Rank(p, m - 1)
  <2>1. PICK k \in Nat: k = m - 1
    BY <1>5
  <2>2. m = k + 1
    BY <1>4, <2>1
  <2> QED
    BY <2>1, <2>2, RankGrows
<1>8. m \in Parameters(p) /\ Rank(p, m) = r
  <2>1. PICK x \in Nat: x = Rank(p, m - 1)
    BY <1>1, <1>5
  <2>2. PICK y \in Nat: y = Rank(p, m)
    BY <1>1, <1>4
  <2>3. x < r /\ y >= r
    BY <1>4, <1>6, <2>1, <2>2
  <2> QED
    BY <1>7, <2>1, <2>2, <2>3
<1> QED
  BY <1>8

LEMMA AtIs ==
  ASSUME NEW p \in Seq(Segment)
  PROVE  /\ \A r \in 1..Cardinality(Parameters(p)): At(p, r) \in Parameters(p) /\ Rank(p, At(p, r)) = r
         /\ \A i \in Parameters(p): At(p, Rank(p, i)) = i
<1>1. ASSUME NEW r \in 1..Cardinality(Parameters(p))
      PROVE  At(p, r) \in Parameters(p) /\ Rank(p, At(p, r)) = r
  BY RankIsReached DEF At
<1>2. ASSUME NEW i \in Parameters(p) PROVE At(p, Rank(p, i)) = i
  <2>1. At(p, Rank(p, i)) \in Parameters(p) /\ Rank(p, At(p, Rank(p, i))) = Rank(p, i)
    BY <1>1, RankBounds
  <2>2. i \in Nat /\ At(p, Rank(p, i)) \in Nat /\ Rank(p, i) \in Nat
    BY <2>1, ParametersAre
  <2> QED
    BY <2>1, <2>2, RankOrders
<1> QED
  BY <1>1, <1>2
-----------------------------------------------------------------------------
(***************************************************************************)
(* What compile leaves of a pattern D that a script declared: literals may *)
(* come before it, and its names are in lower case.                        *)
(***************************************************************************)
Before(p, D) == Len(p) - Len(D)

Stands(p, D) ==
  /\ p \in Seq(Segment) /\ Len(D) <= Len(p)
  /\ Parameters(p) = {Before(p, D) + i: i \in Parameters(D)}

Lowered(p, D) == \A i \in Parameters(D): p[Before(p, D) + i][2] = Lower[D[i][2]]

LEMMA SegmentIs ==
  ASSUME NEW s \in Segment
  PROVE  /\ s = <<s[1], s[2]>> /\ s[1] \in {"literal", "parameter"}
         /\ s[2] \in Words \cup {Blank}
         /\ IsParameter(s) => s[2] \in Words
         /\ ~IsParameter(s) => s = <<"literal", s[2]>>
BY DEF Segment, IsParameter

LEMMA StandsItself ==
  ASSUME NEW D \in Seq(Segment)
  PROVE  Stands(D, D)
<1>1. Before(D, D) = 0
  BY DEF Before
<1>2. \A i \in Parameters(D): 0 + i = i
  BY ParametersAre
<1>3. Parameters(D) = {0 + i: i \in Parameters(D)}
  BY <1>2
<1> QED
  BY <1>1, <1>3 DEF Stands

LEMMA BeforeIs ==
  ASSUME NEW D \in Seq(Segment), NEW p, Stands(p, D)
  PROVE  /\ Before(p, D) \in Nat
         /\ \A i \in Parameters(D): /\ i \in 1..Len(D)
                                    /\ Before(p, D) + i \in Parameters(p)
                                    /\ Before(p, D) + i \in 1..Len(p)
         /\ \A k \in Parameters(p): /\ k - Before(p, D) \in Parameters(D)
                                    /\ Before(p, D) + (k - Before(p, D)) = k
<1>1. p \in Seq(Segment) /\ Len(p) \in Nat /\ Len(D) \in Nat /\ Len(D) <= Len(p)
  BY DEF Stands
<1>2. PICK b \in Nat: b = Before(p, D)
  BY <1>1 DEF Before
<1>3. \A i \in Parameters(D): i \in 1..Len(D)
  BY ParametersAre
<1>4. Parameters(p) = {b + i: i \in Parameters(D)}
  BY <1>2 DEF Stands
<1>5. \A i \in Parameters(D): b + i \in Parameters(p) /\ b + i \in 1..Len(p)
  BY <1>1, <1>4, ParametersAre
<1>6. ASSUME NEW k \in Parameters(p) PROVE k - b \in Parameters(D) /\ b + (k - b) = k
  <2>1. PICK i \in Parameters(D): k = b + i
    BY <1>4
  <2>2. k - b = i /\ i \in Nat
    BY <1>3, <2>1
  <2> QED
    BY <2>1, <2>2
<1> QED
  BY <1>2, <1>3, <1>5, <1>6

LEMMA ShiftedRank ==
  ASSUME NEW D \in Seq(Segment), NEW p, Stands(p, D)
  PROVE  /\ Cardinality(Parameters(p)) = Cardinality(Parameters(D))
         /\ \A i \in Parameters(D): Rank(p, Before(p, D) + i) = Rank(D, i)
<1>1. p \in Seq(Segment)
  BY DEF Stands
<1>2. PICK b \in Nat: b = Before(p, D)
  BY BeforeIs
<1>3. \A S \in SUBSET Parameters(D): Cardinality({b + i: i \in S}) = Cardinality(S)
  <2> SUFFICES ASSUME NEW S \in SUBSET Parameters(D)
               PROVE  Cardinality({b + i: i \in S}) = Cardinality(S)
    OBVIOUS
  <2> DEFINE T == {b + i: i \in S}
             f == [i \in S |-> b + i]
  <2>1. \A i \in S: i \in Nat
    BY ParametersAre
  <2>2. f \in Surjection(S, T)
    BY DEF Surjection
  <2>3. \A i, j \in S: f[i] = f[j] => i = j
    BY <2>1
  <2>4. f \in Injection(S, T)
    BY <2>2, <2>3 DEF Surjection, Injection, IsInjective
  <2>5. IsFiniteSet(S)
    BY ParametersAre, FS_Subset
  <2> QED
    BY <2>2, <2>4, <2>5, FS_Surjection
<1>4. Cardinality(Parameters(p)) = Cardinality(Parameters(D))
  BY <1>2, <1>3 DEF Stands
<1>5. ASSUME NEW i \in Parameters(D) PROVE Rank(p, b + i) = Rank(D, i)
  <2>1. i \in Nat /\ \A j \in Parameters(D): j \in Nat
    BY ParametersAre
  <2>2. Upto(p, b + i) = {b + j: j \in Upto(D, i)}
    <3>1. Parameters(p) = {b + j: j \in Parameters(D)}
      BY <1>2 DEF Stands
    <3>2. \A j \in Parameters(D): b + j <= b + i <=> j <= i
      BY <2>1
    <3> QED
      BY <3>1, <3>2 DEF Upto
  <2>3. Upto(D, i) \in SUBSET Parameters(D)
    BY DEF Upto
  <2> QED
    BY <1>1, <1>3, <2>2, <2>3, ParametersAre
<1> QED
  BY <1>2, <1>4, <1>5

LEMMA KeyIs ==
  ASSUME NEW p \in Seq(Segment)
  PROVE  /\ Key(p) \in Seq(Segment) /\ Len(Key(p)) = Len(p)
         /\ Parameters(Key(p)) = Parameters(p)
         /\ \A i \in 1..Len(p): ~IsParameter(p[i]) => Key(p)[i] = p[i]
         /\ \A i \in 1..Len(p): IsParameter(p[i]) => Key(p)[i] = <<"parameter", Empty>>
         /\ Compiles(p) => Compiles(Key(p))
<1>1. PICK k \in Nat: k = Len(p) /\ DOMAIN p = 1..k
  OBVIOUS
<1>2. Key(p) = [i \in 1..k |-> IF IsParameter(p[i]) THEN <<"parameter", Empty>> ELSE p[i]]
  BY <1>1 DEF Key
<1>3. <<"parameter", Empty>> \in Segment /\ IsParameter(<<"parameter", Empty>>)
      /\ <<"parameter", Empty>>[2] # Blank
  BY RoutesAssumption DEF Segment, IsParameter
<1>4. \A i \in 1..k: p[i] \in Segment
  BY <1>1
<1>5. Key(p) \in [1..k -> Segment]
  BY <1>2, <1>3, <1>4
<1>6. Key(p) \in Seq(Segment) /\ Len(Key(p)) = k /\ DOMAIN Key(p) = 1..k
  BY <1>5
<1>7. \A i \in 1..k: IsParameter(Key(p)[i]) <=> IsParameter(p[i])
  BY <1>2, <1>3
<1>8. Parameters(Key(p)) = Parameters(p)
  BY <1>1, <1>6, <1>7 DEF Parameters
<1>9. Compiles(p) => Compiles(Key(p))
  BY <1>1, <1>2, <1>3, <1>6 DEF Compiles
<1> QED
  BY <1>1, <1>2, <1>6, <1>8, <1>9

LEMMA KeyStands ==
  ASSUME NEW D \in Seq(Segment), NEW p, Stands(p, D)
  PROVE  Stands(Key(p), D) /\ Before(Key(p), D) = Before(p, D)
<1>1. p \in Seq(Segment)
  BY DEF Stands
<1> QED
  BY <1>1, KeyIs DEF Stands, Before

LEMMA OneSegment ==
  ASSUME NEW s \in Segment, NEW q, q = [i \in 1..1 |-> s]
  PROVE  q \in Seq(Segment) /\ Len(q) = 1 /\ DOMAIN q = 1..1
<1>1. q \in [1..1 -> Segment]
  OBVIOUS
<1> QED
  BY <1>1

LEMMA PathIs ==
  ASSUME NEW pre \in PrefixWords \cup {None}
  PROVE  /\ Path(pre) \in Seq(Segment) /\ Len(Path(pre)) \in {0, 1}
         /\ Parameters(Path(pre)) = {} /\ Compiles(Path(pre))
         /\ pre # None => Len(Path(pre)) = 1
<1>1. CASE pre = None
  <2>1. Path(pre) = <<>>
    BY <1>1 DEF Path
  <2> QED
    BY <1>1, <2>1 DEF Parameters, Compiles
<1>2. CASE pre # None
  <2>1. pre \in Words /\ pre # Blank
    BY <1>2, RoutesAssumption
  <2>2. Path(pre) = [i \in 1..1 |-> <<"literal", pre>>]
    BY <1>2 DEF Path, Literal
  <2>3. <<"literal", pre>> \in Segment /\ ~IsParameter(<<"literal", pre>>)
        /\ <<"literal", pre>>[2] # Blank
    BY <2>1 DEF Segment, IsParameter
  <2>5. Path(pre) \in Seq(Segment) /\ Len(Path(pre)) = 1 /\ DOMAIN Path(pre) = 1..1
    BY <2>2, <2>3, OneSegment
  <2>6. Parameters(Path(pre)) = {}
    BY <2>2, <2>3, <2>5 DEF Parameters
  <2>7. Compiles(Path(pre))
    BY <2>2, <2>3, <2>5 DEF Compiles
  <2> QED
    BY <2>5, <2>6, <2>7
<1> QED
  BY <1>1, <1>2

LEMMA RootIs ==
  /\ Root \in Seq(Segment) /\ Len(Root) = 1
  /\ Parameters(Root) = {} /\ Compiles(Root)
<1>1. Root = [i \in 1..1 |-> <<"literal", Empty>>]
  BY DEF Root, Literal
<1>2. Empty \in Words /\ Empty # Blank
  BY RoutesAssumption
<1>3. <<"literal", Empty>> \in Segment /\ ~IsParameter(<<"literal", Empty>>)
      /\ <<"literal", Empty>>[2] # Blank
  BY <1>2 DEF Segment, IsParameter
<1>4. Root \in [1..1 -> Segment]
  BY <1>1, <1>3
<1>5. Root \in Seq(Segment) /\ Len(Root) = 1 /\ DOMAIN Root = 1..1
  BY <1>4
<1> QED
  BY <1>1, <1>3, <1>5 DEF Parameters, Compiles

\* what the words of a pattern become
InLower(p) == [i \in DOMAIN p |-> <<p[i][1], Lower[p[i][2]]>>]

LEMMA InLowerIs ==
  ASSUME NEW p \in Seq(Segment), Compiles(p)
  PROVE  /\ InLower(p) \in Seq(Segment) /\ Len(InLower(p)) = Len(p)
         /\ Parameters(InLower(p)) = Parameters(p) /\ Compiles(InLower(p))
         /\ \A i \in 1..Len(p): /\ p[i][2] \in Words
                                /\ InLower(p)[i][2] = Lower[p[i][2]]
<1>1. PICK k \in Nat: k = Len(p) /\ DOMAIN p = 1..k
  OBVIOUS
<1>2. \A i \in 1..k: p[i] \in Segment /\ p[i][2] # Blank
  BY <1>1 DEF Compiles
<1>3. \A i \in 1..k: p[i][2] \in Words /\ Lower[p[i][2]] \in Words
  BY <1>2, SegmentIs, RoutesAssumption
<1>4. InLower(p) = [i \in 1..k |-> <<p[i][1], Lower[p[i][2]]>>]
  BY <1>1 DEF InLower
<1>5. \A i \in 1..k: <<p[i][1], Lower[p[i][2]]>> \in Segment
  BY <1>2, <1>3, SegmentIs DEF Segment
<1>6. InLower(p) \in [1..k -> Segment]
  BY <1>4, <1>5
<1>7. InLower(p) \in Seq(Segment) /\ Len(InLower(p)) = k /\ DOMAIN InLower(p) = 1..k
  BY <1>6
<1>8. \A i \in 1..k: InLower(p)[i][1] = p[i][1] /\ InLower(p)[i][2] = Lower[p[i][2]]
  BY <1>4
<1>9. Parameters(InLower(p)) = Parameters(p)
  BY <1>1, <1>7, <1>8 DEF Parameters, IsParameter
<1>10. Compiles(InLower(p))
  BY <1>3, <1>7, <1>8, RoutesAssumption DEF Compiles
<1> QED
  BY <1>1, <1>3, <1>7, <1>8, <1>9, <1>10

LEMMA JoinedIs ==
  ASSUME NEW p \in Seq(Segment), NEW q \in Seq(Segment), Parameters(q) = {}
  PROVE  /\ q \o p \in Seq(Segment) /\ Len(q \o p) = Len(q) + Len(p)
         /\ Parameters(q \o p) = {Len(q) + i: i \in Parameters(p)}
         /\ Compiles(p) /\ Compiles(q) => Compiles(q \o p)
         /\ \A i \in 1..Len(p): (q \o p)[Len(q) + i] = p[i]
<1> DEFINE w == q \o p
<1>1. PICK k \in Nat: k = Len(p) /\ DOMAIN p = 1..k
  OBVIOUS
<1>2. PICK m \in Nat: m = Len(q) /\ DOMAIN q = 1..m
  OBVIOUS
<1>3. w \in Seq(Segment) /\ Len(w) = m + k /\ DOMAIN w = 1..(m + k)
  BY <1>1, <1>2
<1>4. \A i \in 1..m: w[i] = q[i] /\ ~IsParameter(w[i])
  BY <1>2 DEF Parameters
<1>5. \A i \in 1..k: w[m + i] = p[i]
  BY <1>1, <1>2
<1>6. ASSUME NEW i \in 1..(m + k), i \notin 1..m PROVE i - m \in 1..k /\ m + (i - m) = i
  BY <1>6
<1>7. Parameters(w) = {m + i: i \in Parameters(p)}
  <2>1. ASSUME NEW i \in Parameters(w) PROVE i \in {m + j: j \in Parameters(p)}
    <3>1. i \in 1..(m + k) /\ IsParameter(w[i])
      BY <1>3 DEF Parameters
    <3>2. i - m \in 1..k /\ m + (i - m) = i
      BY <1>4, <1>6, <3>1
    <3>3. IsParameter(p[i - m])
      BY <1>5, <3>1, <3>2
    <3>4. i - m \in Parameters(p)
      BY <1>1, <3>2, <3>3 DEF Parameters
    <3> QED
      BY <3>2, <3>4
  <2>2. ASSUME NEW i \in Parameters(p) PROVE m + i \in Parameters(w)
    <3>1. i \in 1..k /\ IsParameter(p[i])
      BY <1>1 DEF Parameters
    <3>2. m + i \in 1..(m + k)
      BY <3>1
    <3> QED
      BY <1>3, <1>5, <3>1, <3>2 DEF Parameters
  <2> QED
    BY <2>1, <2>2
<1>8. ASSUME Compiles(p), Compiles(q) PROVE Compiles(w)
  <2> SUFFICES ASSUME NEW i \in 1..(m + k) PROVE w[i][2] # Blank
    BY <1>3 DEF Compiles
  <2>1. CASE i \in 1..m
    BY <1>2, <1>4, <1>8, <2>1 DEF Compiles
  <2>2. CASE i \notin 1..m
    <3>1. PICK j \in 1..k: m + j = i
      BY <1>6, <2>2
    <3>2. w[i] = p[j]
      BY <1>5, <3>1
    <3> QED
      BY <1>1, <1>8, <3>2 DEF Compiles
  <2> QED
    BY <2>1, <2>2
<1> QED
  BY <1>1, <1>2, <1>3, <1>5, <1>7, <1>8

\* names in lower case, or as the script gave them
NearlyLowered(p, D) ==
  \A i \in Parameters(D): p[Before(p, D) + i][2] \in {D[i][2], Lower[D[i][2]]}

LEMMA PrefixedIs ==
  ASSUME NEW pre \in PrefixWords \cup {None}, NEW D \in Seq(Segment), Len(D) > 0,
         NEW p, Stands(p, D), Compiles(p), NearlyLowered(p, D)
  PROVE  LET q == Prefixed(pre, p) IN Stands(q, D) /\ Compiles(q) /\ Lowered(q, D)
<1> DEFINE q == Prefixed(pre, p)
<1>0. p \in Seq(Segment)
  BY DEF Stands
<1>1. CASE p = Root
  <2>1. q \in Seq(Segment) /\ Len(q) = 1 /\ Parameters(q) = {} /\ Compiles(q)
    BY <1>1, PathIs, RootIs DEF Prefixed
  <2>2. Parameters(D) = {}
    BY <1>1, RootIs, BeforeIs
  <2>3. Len(D) <= 1
    BY <1>1, RootIs DEF Stands
  <2>4. Parameters(q) = {Before(q, D) + i: i \in Parameters(D)}
    BY <2>1, <2>2
  <2> QED
    BY <2>1, <2>2, <2>3, <2>4 DEF Stands, Lowered
<1>2. CASE p # Root
  <2>1. q = Path(pre) \o InLower(p)
    BY <1>2 DEF Prefixed, InLower
  <2>2. PICK m \in Nat: m = Len(Path(pre))
    BY PathIs
  <2>3. PICK b \in Nat: b = Before(p, D)
    BY BeforeIs
  <2>4. /\ InLower(p) \in Seq(Segment) /\ Len(InLower(p)) = Len(p)
        /\ Parameters(InLower(p)) = Parameters(p) /\ Compiles(InLower(p))
    BY <1>0, InLowerIs
  <2>5. /\ q \in Seq(Segment) /\ Len(q) = m + Len(p)
        /\ Parameters(q) = {m + i: i \in Parameters(p)}
        /\ Compiles(q)
    BY <2>1, <2>2, <2>4, PathIs, JoinedIs
  <2>6. \A i \in 1..Len(p): q[m + i] = InLower(p)[i]
    BY <2>1, <2>2, <2>4, PathIs, JoinedIs
  <2>7. Len(D) <= Len(p) /\ Len(D) \in Nat /\ Len(p) \in Nat
    BY <1>0 DEF Stands
  <2>8. Before(q, D) = m + b /\ Len(D) <= Len(q)
    BY <2>3, <2>5, <2>7 DEF Before
  <2>9. Parameters(q) = {(m + b) + i: i \in Parameters(D)}
    <3>1. Parameters(p) = {b + i: i \in Parameters(D)}
      BY <2>3 DEF Stands
    <3>2. \A i \in Parameters(D): m + (b + i) = (m + b) + i
      BY ParametersAre
    <3> QED
      BY <2>5, <3>1, <3>2
  <2>10. ASSUME NEW i \in Parameters(D)
         PROVE  q[(m + b) + i][2] = Lower[D[i][2]]
    <3>1. i \in 1..Len(D) /\ b + i \in 1..Len(p) /\ (m + b) + i = m + (b + i)
      BY <2>3, BeforeIs
    <3>2. q[(m + b) + i][2] = Lower[p[b + i][2]]
      BY <1>0, <2>6, <3>1, InLowerIs
    <3>3. D[i][2] \in Words
      <4>1. D[i] \in Segment /\ IsParameter(D[i])
        BY <3>1 DEF Parameters
      <4> QED
        BY <4>1, SegmentIs
    <3>4. Lower[Lower[D[i][2]]] = Lower[D[i][2]]
      BY <3>3, RoutesAssumption
    <3> QED
      BY <2>3, <3>2, <3>4 DEF NearlyLowered
  <2> QED
    BY <2>5, <2>8, <2>9, <2>10 DEF Stands, Lowered
<1> QED
  BY <1>1, <1>2
-----------------------------------------------------------------------------
(***************************************************************************)
(* The positions that compile gives to the names of a pattern.             *)
(***************************************************************************)
LEMMA NamesAre ==
  ASSUME NEW p \in Seq(Segment)
  PROVE  /\ Names(p) \subseteq Words
         /\ Names(p) = {} <=> Parameters(p) = {}
         /\ \A i \in Parameters(p): p[i][2] \in Names(p)
<1>1. \A i \in Parameters(p): i \in 1..Len(p) /\ p[i] \in Segment /\ IsParameter(p[i])
  BY ParametersAre DEF Parameters
<1>2. \A i \in Parameters(p): p[i][2] \in Words
  BY <1>1, SegmentIs
<1> QED
  BY <1>2 DEF Names

LEMMA PositionsAre ==
  ASSUME NEW p \in Seq(Segment)
  PROVE  /\ DOMAIN Positions(p) = Names(p)
         /\ Positions(p) \in [Names(p) -> Nat]
         /\ \A n \in Names(p): /\ Positions(p)[n] \in 1..Cardinality(Parameters(p))
                               /\ \E i \in Parameters(p): p[i][2] = n /\ Positions(p)[n] = Rank(p, i)
         /\ (\A i, j \in Parameters(p): p[i][2] = p[j][2] => i = j) =>
              \A i \in Parameters(p): Positions(p)[p[i][2]] = Rank(p, i)
<1>1. PICK c \in Nat: c = Cardinality(Parameters(p))
  BY ParametersAre
<1> DEFINE Of(n) == {j \in Parameters(p): p[j][2] = n}
           T(n)  == {Rank(p, i): i \in Of(n)}
<1>2. ASSUME NEW n \in Names(p)
      PROVE  Positions(p)[n] \in T(n) /\ T(n) \subseteq 1..c
  <2>1. T(n) \subseteq 1..c /\ T(n) \subseteq 0..c
    BY <1>1, RankBounds
  <2>2. T(n) # {}
    BY DEF Names
  <2>3. Max(T(n)) \in T(n)
    BY <2>1, <2>2, MaxOf
  <2> QED
    BY <2>1, <2>3 DEF Positions
<1>3. DOMAIN Positions(p) = Names(p)
  BY DEF Positions
<1>4. Positions(p) \in [Names(p) -> Nat]
  <2>1. \A n \in Names(p): Max(T(n)) \in Nat
    BY <1>2 DEF Positions
  <2> QED
    BY <2>1 DEF Positions
<1>5. ASSUME \A i, j \in Parameters(p): p[i][2] = p[j][2] => i = j, NEW i \in Parameters(p)
      PROVE  Positions(p)[p[i][2]] = Rank(p, i)
  <2>1. T(p[i][2]) = {Rank(p, i)}
    BY <1>5
  <2> QED
    BY <1>2, <2>1, NamesAre
<1> QED
  BY <1>1, <1>2, <1>3, <1>4, <1>5

\* a pattern without two parameters of one name
Distinct(p) == \A i, j \in Parameters(p): p[i][2] = p[j][2] => i = j

LEMMA NamesCount ==
  ASSUME NEW p \in Seq(Segment)
  PROVE  /\ IsFiniteSet(Names(p)) /\ Cardinality(Names(p)) \in Nat
         /\ Cardinality(Names(p)) <= Cardinality(Parameters(p))
         /\ Cardinality(Names(p)) = Cardinality(Parameters(p)) <=> Distinct(p)
<1> DEFINE f == [i \in Parameters(p) |-> p[i][2]]
<1>1. f \in Surjection(Parameters(p), Names(p))
  BY DEF Surjection, Names
<1>2. IsFiniteSet(Parameters(p))
  BY ParametersAre
<1>3. /\ IsFiniteSet(Names(p))
      /\ Cardinality(Names(p)) <= Cardinality(Parameters(p))
      /\ Cardinality(Names(p)) = Cardinality(Parameters(p)) <=> f \in Injection(Parameters(p), Names(p))
  BY <1>1, <1>2, FS_Surjection
<1>4. f \in Injection(Parameters(p), Names(p)) <=> Distinct(p)
  BY <1>1 DEF Surjection, Injection, IsInjective, Distinct
<1> QED
  BY <1>3, <1>4, FS_CardinalityType

LEMMA DistinctFromDeclared ==
  ASSUME NEW D \in Seq(Segment), NEW p, Stands(p, D), Lowered(p, D)
  PROVE  /\ Names(p) = {Lower[n]: n \in Names(D)}
         /\ Distinct(p) <=> \A i, j \in Parameters(D): Lower[D[i][2]] = Lower[D[j][2]] => i = j
<1>1. PICK b \in Nat: b = Before(p, D)
  BY BeforeIs
<1>2. Parameters(p) = {b + i: i \in Parameters(D)}
  BY <1>1 DEF Stands
<1>3. \A i \in Parameters(D): p[b + i][2] = Lower[D[i][2]]
  BY <1>1 DEF Lowered
<1>4. Names(p) = {Lower[n]: n \in Names(D)}
  <2>1. Names(p) = {p[b + i][2]: i \in Parameters(D)}
    BY <1>2 DEF Names
  <2>2. {p[b + i][2]: i \in Parameters(D)} = {Lower[D[i][2]]: i \in Parameters(D)}
    BY <1>3
  <2>3. {Lower[n]: n \in Names(D)} = {Lower[D[i][2]]: i \in Parameters(D)}
    BY DEF Names
  <2> QED
    BY <2>1, <2>2, <2>3
<1>5. \A i, j \in Parameters(D): b + i = b + j => i = j
  BY ParametersAre
<1> QED
  BY <1>2, <1>3, <1>4, <1>5 DEF Distinct

-----------------------------------------------------------------------------
(***************************************************************************)
(* The fields of a Route, whatever became of it.                           *)
(***************************************************************************)
Params == UNION {[S -> Nat]: S \in SUBSET Words}
Object == [pattern: Seq(Segment), done: BOOLEAN, params: Params, used: BOOLEAN]

RouteFits(r, o) ==
  LET D == Declared[r].pattern IN
  /\ o \in Object
  /\ Stands(o.pattern, D)
  /\ o.done => /\ Compiles(o.pattern) /\ Lowered(o.pattern, D)
               /\ DOMAIN o.params = Names(o.pattern)
               /\ \A n \in DOMAIN o.params: o.params[n] = Positions(o.pattern)[n]
  /\ ~o.done => o.pattern = D /\ DOMAIN o.params = {}

LEMMA DeclaredIs ==
  ASSUME NEW r \in Route
  PROVE  /\ Declared[r].pattern \in Seq(Segment) /\ Len(Declared[r].pattern) > 0
         /\ Stands(Declared[r].pattern, Declared[r].pattern)
         /\ NearlyLowered(Declared[r].pattern, Declared[r].pattern)
<1> DEFINE D == Declared[r].pattern
<1>1. D \in Seq(Segment) /\ Len(D) > 0
  BY RoutesAssumption
<1>2. \A i \in Parameters(D): Before(D, D) + i = i
  BY <1>1, ParametersAre DEF Before
<1>3. NearlyLowered(D, D)
  BY <1>2 DEF NearlyLowered
<1> QED
  BY <1>1, <1>3, StandsItself

LEMMA FieldsFit ==
  ASSUME NEW r \in Route
  PROVE  RouteFits(r, Fields(r)) /\ ~Fields(r).used
<1>1. <<>> \in [{} -> Nat]
  OBVIOUS
<1>2. <<>> \in Params /\ DOMAIN <<>> = {}
  <2>1. {} \in SUBSET Words
    OBVIOUS
  <2> QED
    BY <1>1, <2>1 DEF Params
<1> QED
  BY <1>2, DeclaredIs DEF Fields, RouteFits, Object

LEMMA HasParamsWhen ==
  ASSUME NEW r \in Route, NEW o, RouteFits(r, o)
  PROVE  HasParams(o) <=> o.done /\ Parameters(o.pattern) # {}
<1>1. o.pattern \in Seq(Segment)
  BY DEF RouteFits, Stands
<1> QED
  BY <1>1, NamesAre DEF RouteFits, HasParams

LEMMA CompiledFits ==
  ASSUME NEW r \in Route, NEW o, RouteFits(r, o), NEW pre \in PrefixWords \cup {None}
  PROVE  LET c == Compiled(pre, o) IN
         /\ RouteFits(r, c)
         /\ c.used => o.used
         /\ o.done => c.done
         /\ Compiles(o.pattern) => c.done /\ (HasParams(c) => ~c.used)
         /\ ~Compiles(o.pattern) => c = o
<1> DEFINE c == Compiled(pre, o)
           D == Declared[r].pattern
           p == Prefixed(pre, o.pattern)
<1>1. D \in Seq(Segment) /\ Len(D) > 0 /\ Stands(o.pattern, D) /\ o \in Object
  BY DeclaredIs DEF RouteFits
<1>2. CASE ~Compiles(o.pattern)
  <2>1. c = o
    BY <1>2 DEF Compiled
  <2> QED
    BY <1>2, <2>1
<1>3. CASE Compiles(o.pattern)
  <2>1. NearlyLowered(o.pattern, D)
    BY DeclaredIs DEF RouteFits, Lowered, NearlyLowered
  <2>2. Stands(p, D) /\ Compiles(p) /\ Lowered(p, D)
    BY <1>1, <1>3, <2>1, PrefixedIs
  <2>3. p \in Seq(Segment)
    BY <2>2 DEF Stands
  <2>4. c = [pattern |-> p, done |-> TRUE,
             params |-> IF Names(p) = {} THEN o.params ELSE Positions(p),
             used |-> IF Names(p) = {} THEN o.used ELSE FALSE]
    BY <1>3 DEF Compiled
  <2>5. CASE Names(p) = {}
    <3>1. Parameters(p) = {} /\ Parameters(D) = {} /\ Parameters(o.pattern) = {}
      BY <1>1, <2>2, <2>3, <2>5, NamesAre, BeforeIs, SMTT(30)
    <3>2. DOMAIN o.params = {}
      <4>1. Names(o.pattern) = {}
        BY <3>1 DEF Names
      <4> QED
        BY <4>1 DEF RouteFits
    <3>3. c.params = o.params /\ c.used = o.used /\ c.pattern = p /\ c.done = TRUE
      BY <2>4, <2>5
    <3>4. c \in Object
      BY <1>1, <2>3, <2>4, <2>5 DEF Object
    <3>5. RouteFits(r, c)
      BY <2>2, <2>5, <3>2, <3>3, <3>4 DEF RouteFits
    <3> QED
      BY <1>3, <3>2, <3>3, <3>5 DEF HasParams
  <2>6. CASE Names(p) # {}
    <3>1. c.params = Positions(p) /\ c.used = FALSE /\ c.pattern = p /\ c.done = TRUE
      BY <2>4, <2>6
    <3>2. Positions(p) \in Params
      <4>1. Names(p) \in SUBSET Words
        BY <2>3, NamesAre
      <4> QED
        BY <2>3, <4>1, PositionsAre DEF Params
    <3>3. c \in Object
      <4>1. c = [pattern |-> p, done |-> TRUE, params |-> Positions(p), used |-> FALSE]
        BY <2>4, <2>6
      <4> QED
        BY <2>3, <3>2, <4>1 DEF Object
    <3>4. DOMAIN c.params = Names(p)
      BY <2>3, <3>1, PositionsAre
    <3>5. RouteFits(r, c)
      BY <2>2, <3>1, <3>3, <3>4 DEF RouteFits
    <3> QED
      BY <1>3, <3>1, <3>5
  <2> QED
    BY <2>5, <2>6
<1> QED
  BY <1>2, <1>3
-----------------------------------------------------------------------------
(***************************************************************************)
(* The groups of the set, and the additions they were made from.           *)
(***************************************************************************)
Entry == [route: Route, key: Seq(Segment)]

Varies(key) == Parameters(key) # {} /\ Compiles(key)
FixedOf(a)  == {i \in DOMAIN a: ~Varies(a[i].key)}
VaryOf(a)   == {i \in DOMAIN a: Varies(a[i].key)}

KeysDiffer(G) == \A g, h \in DOMAIN G: G[g].key = G[h].key => g = h

Is(G, g, k, e) == G[g].key = e.key /\ G[g].routes[k] = e.route

\* every addition is in a group
Covers(G, a, I) ==
  \A i \in I: \E g \in DOMAIN G: \E k \in DOMAIN G[g].routes: Is(G, g, k, a[i])

\* what is in a group was added, after everything that comes before it there
Sourced(G, a, I) ==
  \A g \in DOMAIN G: \A k \in DOMAIN G[g].routes: \E i \in I:
    /\ Is(G, g, k, a[i])
    /\ \A j \in I: j < i /\ a[j].key = G[g].key =>
         \E l \in DOMAIN G[g].routes: l < k /\ G[g].routes[l] = a[j].route

\* a group comes before those whose keys were added later
InOrder(G, a, I) ==
  \A g, h \in DOMAIN G: g < h =>
    \A i \in I: a[i].key = G[h].key => \E j \in I: j < i /\ a[j].key = G[g].key

Rooted(G, a, I) == \A g \in DOMAIN G: \E i \in I: a[i].key = G[g].key

Grouped(G, a, I) ==
  /\ G \in Groups /\ KeysDiffer(G)
  /\ Covers(G, a, I) /\ Sourced(G, a, I) /\ Rooted(G, a, I) /\ InOrder(G, a, I)

LEMMA LaterAdditionsElsewhere ==
  ASSUME NEW a \in Seq(Entry), NEW e \in Entry, NEW I \in SUBSET DOMAIN a, NEW G, Grouped(G, a, I)
  PROVE  Grouped(G, Append(a, e), I)
<1> DEFINE b == Append(a, e)
<1>1. \A i \in I: b[i] = a[i]
  OBVIOUS
<1>2. Covers(G, b, I)
  BY <1>1 DEF Grouped, Covers
<1>3. Sourced(G, b, I)
  BY <1>1 DEF Grouped, Sourced
<1>4. InOrder(G, b, I)
  BY <1>1 DEF Grouped, InOrder
<1>5. Rooted(G, b, I)
  BY <1>1 DEF Grouped, Rooted
<1> QED
  BY <1>2, <1>3, <1>4, <1>5 DEF Grouped

LEMMA AppendRouteIs ==
  ASSUME NEW G \in Groups, NEW key, NEW r
  PROVE  \/ \E g \in DOMAIN G: /\ G[g].key = key
                               /\ AppendRoute(G, key, r) = [G EXCEPT ![g].routes = Append(@, r)]
         \/ /\ \A g \in DOMAIN G: G[g].key # key
            /\ AppendRoute(G, key, r) = Append(G, [key |-> key, routes |-> <<r>>])
<1> DEFINE I == {i \in 1..Len(G): G[i].key = key}
           g == IF I # {} THEN Min(I) ELSE 0
<1>1. AppendRoute(G, key, r) =
        IF g = 0 THEN Append(G, [key |-> key, routes |-> <<r>>])
        ELSE [G EXCEPT ![g].routes = Append(@, r)]
  BY DEF AppendRoute, SelectInSeq
<1>2. DOMAIN G = 1..Len(G) /\ Len(G) \in Nat
  BY DEF Groups
<1>3. CASE I = {}
  BY <1>1, <1>2, <1>3
<1>4. CASE I # {}
  <2>1. Min(I) \in I
    BY <1>2, <1>4, MinOf
  <2>2. g = Min(I) /\ g # 0
    BY <1>2, <1>4, <2>1
  <2> QED
    BY <1>1, <1>2, <2>1, <2>2
<1> QED
  BY <1>3, <1>4

OneGroup == [key: Seq(Segment), routes: Seq(Route)]

LEMMA GroupsAre ==
  /\ Groups = Seq(OneGroup)
  /\ \A u: u \in OneGroup <=>
       \E kk \in Seq(Segment), rr \in Seq(Route): u = [key |-> kk, routes |-> rr]
BY DEF Groups, OneGroup

LEMMA OtherRoutes ==
  ASSUME NEW s \in OneGroup, NEW x
  PROVE  /\ [s EXCEPT !.routes = x] = [key |-> s.key, routes |-> x]
         /\ s.key \in Seq(Segment) /\ s.routes \in Seq(Route)
BY DEF OneGroup

LEMMA Extended ==
  ASSUME NEW G \in Groups, NEW g \in DOMAIN G, NEW r \in Route
  PROVE  LET H == [G EXCEPT ![g].routes = Append(@, r)] IN
         /\ H \in Groups /\ DOMAIN H = DOMAIN G
         /\ \A h \in DOMAIN G: h # g => H[h] = G[h]
         /\ \A h \in DOMAIN G: H[h].key = G[h].key
         /\ H[g].routes = Append(G[g].routes, r)
<1> DEFINE H == [G EXCEPT ![g].routes = Append(@, r)]
           u == [G[g] EXCEPT !.routes = Append(G[g].routes, r)]
<1>1. PICK n \in Nat: n = Len(G) /\ DOMAIN G = 1..n
  BY GroupsAre
<1>2. \A h \in 1..n: G[h] \in OneGroup
  BY <1>1, GroupsAre
<1>3. G[g].key \in Seq(Segment) /\ G[g].routes \in Seq(Route)
  BY <1>1, <1>2, OtherRoutes
<1>4. u = [key |-> G[g].key, routes |-> Append(G[g].routes, r)]
  BY <1>1, <1>2, OtherRoutes
<1>5. H = [G EXCEPT ![g] = u]
  OBVIOUS
<1>6. u.key = G[g].key /\ u.routes = Append(G[g].routes, r)
  BY <1>4
<1>7. u \in OneGroup
  <2>1. Append(G[g].routes, r) \in Seq(Route)
    BY <1>3
  <2> QED
    BY <1>3, <1>4, <2>1, GroupsAre
<1> HIDE DEF H, u
<1>8. DOMAIN H = 1..n /\ H[g] = u /\ \A h \in 1..n: h # g => H[h] = G[h]
  BY <1>1, <1>5
<1>9. H \in [1..n -> OneGroup]
  BY <1>1, <1>2, <1>5, <1>7
<1>10. H \in Groups
  BY <1>9, GroupsAre
<1> QED
  BY <1>1, <1>6, <1>8, <1>10 DEF H

LEMMA Enlarged ==
  ASSUME NEW G \in Groups, NEW key \in Seq(Segment), NEW r \in Route
  PROVE  LET H == Append(G, [key |-> key, routes |-> <<r>>]) IN
         /\ H \in Groups /\ Len(G) \in Nat
         /\ DOMAIN H = 1..(Len(G) + 1) /\ DOMAIN G = 1..Len(G)
         /\ \A h \in DOMAIN G: H[h] = G[h]
         /\ H[Len(G) + 1].key = key /\ H[Len(G) + 1].routes = <<r>>
<1> DEFINE w == [key |-> key, routes |-> <<r>>]
           H == Append(G, w)
<1>1. PICK n \in Nat: n = Len(G) /\ DOMAIN G = 1..n
  BY DEF Groups
<1>2. G \in Seq(OneGroup) /\ w \in OneGroup
  BY DEF Groups, OneGroup
<1>3. w.key = key /\ w.routes = <<r>>
  OBVIOUS
<1> HIDE DEF w
<1>4. H \in Seq(OneGroup) /\ DOMAIN H = 1..(n + 1) /\ H[n + 1] = w
      /\ \A h \in 1..n: H[h] = G[h]
  BY <1>1, <1>2
<1> QED
  BY <1>1, <1>3, <1>4 DEF Groups, OneGroup, w

LEMMA AppendedGroups ==
  ASSUME NEW a \in Seq(Entry), NEW I \in SUBSET DOMAIN a, NEW G, Grouped(G, a, I),
         NEW key \in Seq(Segment), NEW r \in Route
  PROVE  Grouped(AppendRoute(G, key, r), Append(a, [route |-> r, key |-> key]), I \cup {Len(a) + 1})
<1> DEFINE e == [route |-> r, key |-> key]
           b == Append(a, e)
           J == I \cup {Len(a) + 1}
<1>0. G \in Groups /\ KeysDiffer(G) /\ Covers(G, a, I) /\ Sourced(G, a, I) /\ Rooted(G, a, I) /\ InOrder(G, a, I)
  BY DEF Grouped
<1>1. PICK n \in Nat: n = Len(a) /\ DOMAIN a = 1..n
  OBVIOUS
<1>2. (\A i \in I: b[i] = a[i] /\ i \in 1..n) /\ b[n + 1] = e
  BY <1>1
<1>3. e.key = key /\ e.route = r /\ J = I \cup {n + 1}
  BY <1>1
<1>4. PICK m \in Nat: m = Len(G) /\ DOMAIN G = 1..m
  BY <1>0 DEF Groups
<1> HIDE DEF e, b
<1>5. CASE \E g \in DOMAIN G: /\ G[g].key = key
                              /\ AppendRoute(G, key, r) = [G EXCEPT ![g].routes = Append(@, r)]
  <2>1. PICK g \in 1..m: /\ G[g].key = key
                         /\ AppendRoute(G, key, r) = [G EXCEPT ![g].routes = Append(@, r)]
    BY <1>4, <1>5
  <2> DEFINE H == [G EXCEPT ![g].routes = Append(@, r)]
  <2>3. /\ H \in Groups /\ DOMAIN H = 1..m
        /\ \A h \in 1..m: h # g => H[h] = G[h]
        /\ \A h \in 1..m: H[h].key = G[h].key
        /\ H[g].routes = Append(G[g].routes, r)
    <3>1. g \in DOMAIN G /\ G \in Groups
      BY <1>0, <1>4
    <3>2. /\ H \in Groups /\ DOMAIN H = DOMAIN G
          /\ \A h \in DOMAIN G: h # g => H[h] = G[h]
          /\ \A h \in DOMAIN G: H[h].key = G[h].key
          /\ H[g].routes = Append(G[g].routes, r)
      BY <3>1, Extended
    <3> HIDE DEF H
    <3> QED
      BY <1>4, <3>2
  <2> HIDE DEF H
  <2>4. PICK k \in Nat: k = Len(G[g].routes) /\ DOMAIN G[g].routes = 1..k
    <3>1. G[g] \in OneGroup
      BY <1>0, <1>4, GroupsAre
    <3>2. G[g].routes \in Seq(Route)
      BY <3>1, OtherRoutes
    <3> QED
      BY <3>2
  <2>5. DOMAIN H[g].routes = 1..(k + 1) /\ H[g].routes[k + 1] = r
        /\ \A l \in 1..k: H[g].routes[l] = G[g].routes[l]
    <3>1. G[g] \in OneGroup
      BY <1>0, <1>4, GroupsAre
    <3>2. G[g].routes \in Seq(Route)
      BY <3>1, OtherRoutes
    <3> QED
      BY <2>3, <2>4, <3>2
  <2>6. \A h \in 1..m: \A l \in DOMAIN G[h].routes:
          l \in DOMAIN H[h].routes /\ H[h].routes[l] = G[h].routes[l]
    <3> SUFFICES ASSUME NEW h \in 1..m, NEW l \in DOMAIN G[h].routes
                 PROVE  l \in DOMAIN H[h].routes /\ H[h].routes[l] = G[h].routes[l]
      OBVIOUS
    <3>1. CASE h = g
      BY <2>4, <2>5, <3>1, SMTT(30)
    <3>2. CASE h # g
      BY <2>3, <3>2
    <3> QED
      BY <3>1, <3>2
  <2>7. KeysDiffer(H)
    BY <1>0, <1>4, <2>3 DEF KeysDiffer
  <2>8. Covers(H, b, J)
    <3> SUFFICES ASSUME NEW i \in J
                 PROVE  \E h \in DOMAIN H: \E l \in DOMAIN H[h].routes: Is(H, h, l, b[i])
      BY DEF Covers
    <3>1. CASE i \in I
      <4>1. PICK h \in 1..m: \E l \in DOMAIN G[h].routes: Is(G, h, l, a[i])
        BY <1>0, <1>4, <3>1 DEF Covers
      <4>2. PICK l \in DOMAIN G[h].routes: Is(G, h, l, a[i])
        BY <4>1
      <4>3. l \in DOMAIN H[h].routes /\ Is(H, h, l, b[i])
        BY <1>2, <2>3, <2>6, <3>1, <4>2 DEF Is
      <4> QED
        BY <2>3, <4>3
    <3>2. CASE i = n + 1
      <4>1. k + 1 \in DOMAIN H[g].routes /\ Is(H, g, k + 1, b[i])
        BY <1>2, <1>3, <2>1, <2>3, <2>5, <3>2 DEF Is
      <4> QED
        BY <2>3, <4>1
    <3> QED
      BY <1>3, <3>1, <3>2
  <2>9. Sourced(H, b, J)
    <3> SUFFICES ASSUME NEW h \in 1..m, NEW l \in DOMAIN H[h].routes
                 PROVE  \E i \in J: /\ Is(H, h, l, b[i])
                                    /\ \A j \in J: j < i /\ b[j].key = H[h].key =>
                                         \E x \in DOMAIN H[h].routes: x < l /\ H[h].routes[x] = b[j].route
      BY <2>3 DEF Sourced
    <3>1. CASE l \in DOMAIN G[h].routes
      <4>1. PICK i \in I: /\ Is(G, h, l, a[i])
                          /\ \A j \in I: j < i /\ a[j].key = G[h].key =>
                               \E x \in DOMAIN G[h].routes: x < l /\ G[h].routes[x] = a[j].route
        BY <1>0, <1>4, <3>1 DEF Sourced
      <4>2. Is(H, h, l, b[i])
        BY <1>2, <2>3, <2>6, <3>1, <4>1 DEF Is
      <4>3. ASSUME NEW j \in J, j < i, b[j].key = H[h].key
            PROVE  \E x \in DOMAIN H[h].routes: x < l /\ H[h].routes[x] = b[j].route
        <5>1. j \in I
          BY <1>2, <1>3, <4>3
        <5>2. a[j].key = G[h].key
          BY <1>2, <2>3, <4>3, <5>1
        <5>3. PICK x \in DOMAIN G[h].routes: x < l /\ G[h].routes[x] = a[j].route
          BY <4>1, <4>3, <5>1, <5>2
        <5> QED
          BY <1>2, <2>6, <5>1, <5>3
      <4> QED
        BY <4>2, <4>3
    <3>2. CASE l \notin DOMAIN G[h].routes
      <4>1. h = g /\ l = k + 1
        BY <2>3, <2>4, <2>5, <3>2
      <4>2. Is(H, h, l, b[n + 1])
        BY <1>2, <1>3, <2>1, <2>3, <2>5, <4>1 DEF Is
      <4>3. ASSUME NEW j \in J, j < n + 1, b[j].key = H[h].key
            PROVE  \E x \in DOMAIN H[h].routes: x < l /\ H[h].routes[x] = b[j].route
        <5>1. j \in I
          BY <1>2, <1>3, <4>3
        <5>2. a[j].key = G[g].key
          BY <1>2, <2>3, <4>1, <4>3, <5>1
        <5>3. PICK y \in 1..m: \E x \in DOMAIN G[y].routes: Is(G, y, x, a[j])
          BY <1>0, <1>4, <5>1 DEF Covers
        <5>4. y = g
          BY <1>0, <1>4, <5>2, <5>3 DEF KeysDiffer, Is
        <5>5. PICK x \in 1..k: G[g].routes[x] = a[j].route
          BY <2>4, <5>3, <5>4 DEF Is
        <5>6. x \in DOMAIN H[h].routes /\ x < l /\ H[h].routes[x] = b[j].route
          BY <1>2, <2>5, <4>1, <5>1, <5>5
        <5> QED
          BY <5>6
      <4> QED
        BY <1>3, <4>2, <4>3
    <3> QED
      BY <3>1, <3>2
  <2>10. InOrder(H, b, J)
    <3> SUFFICES ASSUME NEW x \in 1..m, NEW h \in 1..m, x < h, NEW i \in J, b[i].key = H[h].key
                 PROVE  \E j \in J: j < i /\ b[j].key = H[x].key
      BY <2>3 DEF InOrder
    <3>1. CASE i \in I
      <4>1. a[i].key = G[h].key
        BY <1>2, <2>3, <3>1
      <4>2. PICK j \in I: j < i /\ a[j].key = G[x].key
        BY <1>0, <1>4, <3>1, <4>1 DEF InOrder
      <4> QED
        BY <1>2, <1>3, <2>3, <4>2
    <3>2. CASE i = n + 1
      <4>1. h = g
        BY <1>0, <1>2, <1>3, <1>4, <2>1, <2>3, <3>2 DEF KeysDiffer
      <4>2. PICK y \in I: a[y].key = G[g].key
        BY <1>0, <1>4 DEF Rooted
      <4>3. PICK j \in I: j < y /\ a[j].key = G[x].key
        BY <1>0, <1>4, <4>1, <4>2 DEF InOrder
      <4> QED
        BY <1>2, <1>3, <2>3, <3>2, <4>2, <4>3, SMTT(30)
    <3> QED
      BY <1>3, <3>1, <3>2
  <2>11. Rooted(H, b, J)
    BY <1>0, <1>2, <1>3, <1>4, <2>3 DEF Rooted
  <2> QED
    BY <2>1, <2>3, <2>7, <2>8, <2>9, <2>10, <2>11 DEF Grouped, H, b, e
<1>6. CASE /\ \A g \in DOMAIN G: G[g].key # key
           /\ AppendRoute(G, key, r) = Append(G, [key |-> key, routes |-> <<r>>])
  <2> DEFINE H == Append(G, [key |-> key, routes |-> <<r>>])
  <2>1. /\ H \in Groups /\ DOMAIN H = 1..(m + 1)
        /\ \A h \in 1..m: H[h] = G[h]
        /\ H[m + 1].key = key /\ H[m + 1].routes = <<r>>
    <3>1. /\ H \in Groups /\ DOMAIN H = 1..(Len(G) + 1)
          /\ \A h \in DOMAIN G: H[h] = G[h]
          /\ H[Len(G) + 1].key = key /\ H[Len(G) + 1].routes = <<r>>
      BY <1>0, Enlarged
    <3> HIDE DEF H
    <3> QED
      BY <1>4, <3>1
  <2> HIDE DEF H
  <2>2. \A h \in 1..m: G[h].key # key
    BY <1>4, <1>6
  <2>3. \A h \in 1..(m + 1): h \in 1..m \/ h = m + 1
    OBVIOUS
  <2>4. \A i \in I: b[i].key # key
    <3> SUFFICES ASSUME NEW i \in I PROVE a[i].key # key
      BY <1>2
    <3>1. PICK h \in 1..m: \E l \in DOMAIN G[h].routes: Is(G, h, l, a[i])
      BY <1>0, <1>4 DEF Covers
    <3> QED
      BY <2>2, <3>1 DEF Is
  <2>5. DOMAIN H[m + 1].routes = {1} /\ H[m + 1].routes[1] = r
    BY <2>1
  <2>6. KeysDiffer(H)
    <3> SUFFICES ASSUME NEW g \in 1..(m + 1), NEW h \in 1..(m + 1), H[g].key = H[h].key
                 PROVE  g = h
      BY <2>1 DEF KeysDiffer
    <3>1. CASE g \in 1..m /\ h \in 1..m
      BY <1>0, <1>4, <2>1, <3>1 DEF KeysDiffer
    <3> QED
      BY <2>1, <2>2, <2>3, <3>1
  <2>7. Covers(H, b, J)
    <3> SUFFICES ASSUME NEW i \in J
                 PROVE  \E h \in DOMAIN H: \E l \in DOMAIN H[h].routes: Is(H, h, l, b[i])
      BY DEF Covers
    <3>1. CASE i \in I
      <4>1. PICK h \in 1..m: \E l \in DOMAIN G[h].routes: Is(G, h, l, a[i])
        BY <1>0, <1>4, <3>1 DEF Covers
      <4>2. PICK l \in DOMAIN G[h].routes: Is(G, h, l, a[i])
        BY <4>1
      <4>3. h \in DOMAIN H /\ l \in DOMAIN H[h].routes /\ Is(H, h, l, b[i])
        BY <1>2, <2>1, <3>1, <4>2 DEF Is
      <4> QED
        BY <4>3
    <3>2. CASE i = n + 1
      <4>1. m + 1 \in DOMAIN H /\ 1 \in DOMAIN H[m + 1].routes
        BY <2>1, <2>5
      <4>2. Is(H, m + 1, 1, b[i])
        BY <1>2, <1>3, <2>1, <2>5, <3>2 DEF Is
      <4> QED
        BY <4>1, <4>2
    <3> QED
      BY <1>3, <3>1, <3>2
  <2>8. Sourced(H, b, J)
    <3> SUFFICES ASSUME NEW h \in 1..(m + 1), NEW l \in DOMAIN H[h].routes
                 PROVE  \E i \in J: /\ Is(H, h, l, b[i])
                                    /\ \A j \in J: j < i /\ b[j].key = H[h].key =>
                                         \E x \in DOMAIN H[h].routes: x < l /\ H[h].routes[x] = b[j].route
      BY <2>1 DEF Sourced
    <3>1. CASE h \in 1..m
      <4>0. H[h] = G[h]
        BY <2>1, <3>1
      <4>1. PICK i \in I: /\ Is(G, h, l, a[i])
                          /\ \A j \in I: j < i /\ a[j].key = G[h].key =>
                               \E x \in DOMAIN G[h].routes: x < l /\ G[h].routes[x] = a[j].route
        BY <1>0, <1>4, <3>1, <4>0 DEF Sourced
      <4>2. Is(H, h, l, b[i])
        BY <1>2, <4>0, <4>1 DEF Is
      <4>3. ASSUME NEW j \in J, j < i, b[j].key = H[h].key
            PROVE  \E x \in DOMAIN H[h].routes: x < l /\ H[h].routes[x] = b[j].route
        <5>1. j \in I
          BY <1>2, <1>3, <4>3
        <5>2. a[j].key = G[h].key
          BY <1>2, <4>0, <4>3, <5>1
        <5> QED
          BY <1>2, <4>0, <4>1, <4>3, <5>1, <5>2
      <4> QED
        BY <4>2, <4>3
    <3>2. CASE h = m + 1
      <4>1. l = 1
        BY <2>5, <3>2
      <4>2. Is(H, h, l, b[n + 1])
        BY <1>2, <1>3, <2>1, <2>5, <3>2, <4>1 DEF Is
      <4>3. ASSUME NEW j \in J, j < n + 1, b[j].key = H[h].key
            PROVE  FALSE
        <5>1. j \in I
          BY <1>2, <1>3, <4>3
        <5> QED
          BY <2>1, <2>4, <3>2, <4>3, <5>1
      <4> QED
        BY <1>3, <4>2, <4>3
    <3> QED
      BY <2>3, <3>1, <3>2
  <2>9. Rooted(H, b, J)
    <3> SUFFICES ASSUME NEW h \in 1..(m + 1) PROVE \E i \in J: b[i].key = H[h].key
      BY <2>1 DEF Rooted
    <3>1. CASE h \in 1..m
      <4>1. PICK i \in I: a[i].key = G[h].key
        BY <1>0, <1>4, <3>1 DEF Rooted
      <4> QED
        BY <1>2, <1>3, <2>1, <3>1, <4>1
    <3>2. CASE h = m + 1
      BY <1>2, <1>3, <2>1, <3>2
    <3> QED
      BY <2>3, <3>1, <3>2
  <2>10. InOrder(H, b, J)
    <3> SUFFICES ASSUME NEW x \in 1..(m + 1), NEW h \in 1..(m + 1), x < h, NEW i \in J, b[i].key = H[h].key
                 PROVE  \E j \in J: j < i /\ b[j].key = H[x].key
      BY <2>1 DEF InOrder
    <3>0. x \in 1..m /\ H[x] = G[x]
      BY <2>1
    <3>1. CASE h \in 1..m
      <4>1. H[h] = G[h]
        BY <2>1, <3>1
      <4>2. i \in I
        BY <1>2, <1>3, <2>2, <3>1, <4>1
      <4>3. a[i].key = G[h].key
        BY <1>2, <4>1, <4>2
      <4>4. PICK j \in I: j < i /\ a[j].key = G[x].key
        BY <1>0, <1>4, <3>0, <3>1, <4>2, <4>3 DEF InOrder
      <4> QED
        BY <1>2, <1>3, <3>0, <4>4
    <3>2. CASE h = m + 1
      <4>1. i = n + 1
        BY <1>3, <2>1, <2>4, <3>2
      <4>2. PICK j \in I: a[j].key = G[x].key
        BY <1>0, <1>4, <3>0 DEF Rooted
      <4> QED
        BY <1>2, <1>3, <3>0, <4>1, <4>2
    <3> QED
      BY <2>3, <3>1, <3>2
  <2> QED
    BY <1>6, <2>1, <2>6, <2>7, <2>8, <2>9, <2>10 DEF Grouped, H, b, e
<1> QED
  BY <1>0, <1>5, <1>6, AppendRouteIs
-----------------------------------------------------------------------------
(***************************************************************************)
(* FlattenSeq: the function it is defined with exists, and puts the        *)
(* sequences one after the other.                                          *)
(***************************************************************************)
Joins(f, ss, n) == f = [i \in 1..n |-> IF i = 1 THEN ss[i] ELSE f[i - 1] \o ss[i]]

LEMMA JoinsExist ==
  ASSUME NEW ss, NEW n \in Nat
  PROVE  \E f: Joins(f, ss, n)
<1> DEFINE S == {m \in Nat: \E f: Joins(f, ss, m)}
<1>1. 0 \in S
  <2>1. <<>> = [i \in 1..0 |-> IF i = 1 THEN ss[i] ELSE <<>>[i - 1] \o ss[i]]
    OBVIOUS
  <2> QED
    BY <2>1 DEF Joins
<1>2. ASSUME NEW m \in Nat, m \in S PROVE m + 1 \in S
  <2>1. PICK f: Joins(f, ss, m)
    BY <1>2
  <2> DEFINE g == [i \in 1..(m + 1) |-> IF i \in 1..m THEN f[i]
                                        ELSE IF i = 1 THEN ss[i] ELSE f[m] \o ss[i]]
  <2>2. \A i \in 1..m: f[i] = IF i = 1 THEN ss[i] ELSE f[i - 1] \o ss[i]
    BY <2>1 DEF Joins
  <2>3. ASSUME NEW i \in 1..(m + 1)
        PROVE  g[i] = IF i = 1 THEN ss[i] ELSE g[i - 1] \o ss[i]
    <3>1. CASE i \in 1..m
      <4>1. g[i] = f[i]
        BY <3>1
      <4>2. i # 1 => g[i - 1] = f[i - 1]
        BY <3>1
      <4> QED
        BY <2>2, <3>1, <4>1, <4>2
    <3>2. CASE i = m + 1
      <4>1. i # 1 => i - 1 = m /\ g[i - 1] = f[m]
        BY <3>2
      <4>2. g[i] = IF i = 1 THEN ss[i] ELSE f[m] \o ss[i]
        BY <3>2
      <4> QED
        BY <4>1, <4>2
    <3> QED
      BY <3>1, <3>2
  <2>4. g = [i \in 1..(m + 1) |-> IF i = 1 THEN ss[i] ELSE g[i - 1] \o ss[i]]
    <3>1. g = [i \in 1..(m + 1) |-> g[i]]
      OBVIOUS
    <3> HIDE DEF g
    <3> QED
      BY <2>3, <3>1
  <2>5. Joins(g, ss, m + 1)
    BY <2>4 DEF Joins
  <2> QED
    BY <2>5
<1>3. Nat \subseteq S
  BY <1>1, <1>2, UpTo
<1> QED
  BY <1>3

LEMMA FlattenedIs ==
  ASSUME NEW ss
  PROVE  FlattenSeq(ss) = IF Len(ss) = 0 THEN ss ELSE (CHOOSE f: Joins(f, ss, Len(ss)))[Len(ss)]
BY DEF FlattenSeq, Joins

\* s holds what the first i sequences of ss hold
Gathers(s, ss, i) ==
  /\ \A k \in DOMAIN s: \E g \in 1..i: \E l \in DOMAIN ss[g]: s[k] = ss[g][l]
  /\ \A g \in 1..i: \A l \in DOMAIN ss[g]: \E k \in DOMAIN s: s[k] = ss[g][l]

LEMMA GathersOneMore ==
  ASSUME NEW T, NEW u \in Seq(T), NEW ss, NEW i \in Nat, ss[i + 1] \in Seq(T), Gathers(u, ss, i)
  PROVE  Gathers(u \o ss[i + 1], ss, i + 1)
<1>1. PICK v \in Seq(T): v = ss[i + 1]
  OBVIOUS
<1>2. PICK w \in Seq(T): w = u \o v
  <2>1. u \o v \in Seq(T)
    OBVIOUS
  <2> QED
    BY <2>1
<1>3. PICK x \in Nat: x = Len(u) /\ DOMAIN u = 1..x
  OBVIOUS
<1>4. PICK y \in Nat: y = Len(v) /\ DOMAIN v = 1..y
  OBVIOUS
<1>5. DOMAIN w = 1..(x + y)
  BY <1>2, <1>3, <1>4
<1>6. \A k \in 1..x: w[k] = u[k] /\ k \in 1..(x + y)
  BY <1>2, <1>3, <1>4
<1>7. \A k \in 1..y: w[x + k] = v[k] /\ x + k \in 1..(x + y)
  BY <1>2, <1>3, <1>4
<1>8. \A g \in 1..i: g \in 1..(i + 1)
  OBVIOUS
<1>9. i + 1 \in 1..(i + 1)
  OBVIOUS
<1>10. ASSUME NEW k \in 1..(x + y)
       PROVE  \E g \in 1..(i + 1): \E l \in DOMAIN ss[g]: w[k] = ss[g][l]
  <2>1. CASE k \in 1..x
    <3>1. PICK g \in 1..i: \E l \in DOMAIN ss[g]: u[k] = ss[g][l]
      BY <1>3, <2>1 DEF Gathers
    <3> QED
      BY <1>6, <1>8, <2>1, <3>1
  <2>2. CASE k \notin 1..x
    <3>1. k - x \in 1..y /\ k = x + (k - x)
      BY <2>2
    <3>2. PICK l \in 1..y: k = x + l
      BY <3>1
    <3>3. l \in DOMAIN ss[i + 1] /\ w[k] = ss[i + 1][l]
      BY <1>1, <1>4, <1>7, <3>2
    <3> QED
      BY <1>9, <3>3
  <2> QED
    BY <2>1, <2>2
<1>11. ASSUME NEW g \in 1..(i + 1), NEW l \in DOMAIN ss[g]
       PROVE  \E k \in 1..(x + y): w[k] = ss[g][l]
  <2>1. CASE g \in 1..i
    <3>1. PICK k \in 1..x: u[k] = ss[g][l]
      BY <1>3, <2>1 DEF Gathers
    <3> QED
      BY <1>6, <3>1
  <2>2. CASE g = i + 1
    <3>1. l \in 1..y /\ ss[g][l] = v[l]
      BY <1>1, <1>4, <2>2
    <3> QED
      BY <1>7, <3>1
  <2> QED
    BY <2>1, <2>2
<1>12. Gathers(w, ss, i + 1)
  <2>1. \A k \in DOMAIN w: \E g \in 1..(i + 1): \E l \in DOMAIN ss[g]: w[k] = ss[g][l]
    BY <1>5, <1>10
  <2>2. \A g \in 1..(i + 1): \A l \in DOMAIN ss[g]: \E k \in DOMAIN w: w[k] = ss[g][l]
    BY <1>5, <1>11
  <2> QED
    BY <2>1, <2>2 DEF Gathers
<1> QED
  BY <1>1, <1>2, <1>12

LEMMA FlattenedHas ==
  ASSUME NEW T, NEW ss \in Seq(Seq(T))
  PROVE  FlattenSeq(ss) \in Seq(T) /\ Gathers(FlattenSeq(ss), ss, Len(ss))
<1>1. PICK n \in Nat: n = Len(ss) /\ DOMAIN ss = 1..n
  OBVIOUS
<1>2. CASE n = 0
  <2>1. FlattenSeq(ss) = ss /\ DOMAIN ss = {} /\ ss = <<>>
    BY <1>1, <1>2 DEF FlattenSeq
  <2> QED
    BY <1>1, <1>2, <2>1 DEF Gathers
<1>3. CASE n # 0
  <2> DEFINE f == CHOOSE f: Joins(f, ss, n)
  <2>1. FlattenSeq(ss) = f[n]
    BY <1>1, <1>3, FlattenedIs
  <2>2. Joins(f, ss, n)
    BY JoinsExist
  <2> HIDE DEF f
  <2>3. \A i \in 1..n: f[i] = IF i = 1 THEN ss[i] ELSE f[i - 1] \o ss[i]
    BY <2>2 DEF Joins
  <2>4. \A i \in 1..n: ss[i] \in Seq(T)
    BY <1>1
  <2> DEFINE S == {i \in Nat: i \in 1..n => f[i] \in Seq(T) /\ Gathers(f[i], ss, i)}
  <2>5. 0 \in S
    OBVIOUS
  <2>6. ASSUME NEW i \in Nat, i \in S PROVE i + 1 \in S
    <3>1. i \in 1..n => f[i] \in Seq(T) /\ Gathers(f[i], ss, i)
      BY <2>6
    <3>2. ASSUME i + 1 \in 1..n
          PROVE  f[i + 1] \in Seq(T) /\ Gathers(f[i + 1], ss, i + 1)
      <4>1. CASE i = 0
        <5>1. f[1] = ss[1] /\ i + 1 = 1 /\ 1..(i + 1) = {1}
          BY <2>3, <3>2, <4>1
        <5> QED
          BY <2>4, <3>2, <5>1 DEF Gathers
      <4>2. CASE i # 0
        <5>1. i \in 1..n /\ i + 1 # 1 /\ (i + 1) - 1 = i
          BY <3>2, <4>2
        <5>2. f[i + 1] = f[i] \o ss[i + 1]
          BY <2>3, <3>2, <5>1
        <5>3. PICK u \in Seq(T): u = f[i] /\ Gathers(u, ss, i)
          BY <3>1, <5>1
        <5>4. PICK v \in Seq(T): v = ss[i + 1]
          BY <2>4, <3>2
        <5>5. u \o v \in Seq(T)
          OBVIOUS
        <5>6. Gathers(u \o ss[i + 1], ss, i + 1)
          BY <5>3, <5>4, GathersOneMore
        <5> QED
          BY <5>2, <5>3, <5>4, <5>5, <5>6
      <4> QED
        BY <4>1, <4>2
    <3> QED
      BY <3>2
  <2>7. Nat \subseteq S
    <3> HIDE DEF S
    <3> QED
      BY <2>5, <2>6, UpTo
  <2>8. n \in S /\ n \in 1..n
    BY <1>3, <2>7
  <2>9. f[n] \in Seq(T) /\ Gathers(f[n], ss, n)
    BY <2>8
  <2> QED
    BY <1>1, <2>1, <2>9
<1> QED
  BY <1>2, <1>3

LEMMA MembersAre ==
  ASSUME NEW G \in Groups
  PROVE  /\ Members(G) \in Seq(Route)
         /\ \A k \in DOMAIN Members(G): \E g \in DOMAIN G: \E l \in DOMAIN G[g].routes: Members(G)[k] = G[g].routes[l]
         /\ \A g \in DOMAIN G: \A l \in DOMAIN G[g].routes: \E k \in DOMAIN Members(G): Members(G)[k] = G[g].routes[l]
<1>1. PICK n \in Nat: n = Len(G) /\ DOMAIN G = 1..n
  BY GroupsAre
<1>2. \A g \in 1..n: G[g].routes \in Seq(Route)
  BY <1>1, GroupsAre, OtherRoutes
<1> DEFINE ss == [g \in 1..n |-> G[g].routes]
<1>3. Members(G) = FlattenSeq(ss)
  BY <1>1 DEF Members
<1>4. ss \in [1..n -> Seq(Route)]
  BY <1>2
<1>5. ss \in Seq(Seq(Route)) /\ Len(ss) = n /\ DOMAIN ss = 1..n
  BY <1>4
<1>6. \A g \in 1..n: ss[g] = G[g].routes
  OBVIOUS
<1> HIDE DEF ss
<1>7. FlattenSeq(ss) \in Seq(Route) /\ Gathers(FlattenSeq(ss), ss, n)
  BY <1>5, FlattenedHas
<1> QED
  BY <1>1, <1>3, <1>6, <1>7 DEF Gathers

\* what getRoute goes through, made from the additions
LEMMA ListedAre ==
  ASSUME NEW a \in Seq(Entry), added = a,
         Grouped(fixed, a, FixedOf(a)), Grouped(vary, a, VaryOf(a))
  PROVE  /\ Listed \in Seq(Route)
         /\ \A k \in DOMAIN Listed: \E i \in DOMAIN a: a[i].route = Listed[k]
         /\ \A i \in DOMAIN a: \E k \in DOMAIN Listed: Listed[k] = a[i].route
<1> DEFINE I == FixedOf(a)
           J == VaryOf(a)
<1>1. DOMAIN a = I \cup J
  BY DEF FixedOf, VaryOf
<1>2. PICK f \in Seq(Route):
        /\ f = Members(fixed)
        /\ \A k \in DOMAIN f: \E i \in I: a[i].route = f[k]
        /\ \A i \in I: \E k \in DOMAIN f: f[k] = a[i].route
  <2>1. fixed \in Groups /\ Covers(fixed, a, I) /\ Sourced(fixed, a, I)
    BY DEF Grouped
  <2>2. ASSUME NEW k \in DOMAIN Members(fixed) PROVE \E i \in I: a[i].route = Members(fixed)[k]
    <3>1. PICK g \in DOMAIN fixed: \E l \in DOMAIN fixed[g].routes: Members(fixed)[k] = fixed[g].routes[l]
      BY <2>1, MembersAre
    <3>2. PICK l \in DOMAIN fixed[g].routes: Members(fixed)[k] = fixed[g].routes[l]
      BY <3>1
    <3>3. PICK i \in I: Is(fixed, g, l, a[i])
      BY <2>1, <3>1, <3>2 DEF Sourced
    <3> QED
      BY <3>2, <3>3 DEF Is
  <2>3. ASSUME NEW i \in I PROVE \E k \in DOMAIN Members(fixed): Members(fixed)[k] = a[i].route
    <3>1. PICK g \in DOMAIN fixed: \E l \in DOMAIN fixed[g].routes: Is(fixed, g, l, a[i])
      BY <2>1 DEF Covers
    <3>2. PICK l \in DOMAIN fixed[g].routes: fixed[g].routes[l] = a[i].route
      BY <3>1 DEF Is
    <3> QED
      BY <2>1, <3>2, MembersAre
  <2> QED
    BY <2>1, <2>2, <2>3, MembersAre
<1>3. PICK v \in Seq(Route):
        /\ v = Members(vary)
        /\ \A k \in DOMAIN v: \E i \in J: a[i].route = v[k]
        /\ \A i \in J: \E k \in DOMAIN v: v[k] = a[i].route
  <2>1. vary \in Groups /\ Covers(vary, a, J) /\ Sourced(vary, a, J)
    BY DEF Grouped
  <2>2. ASSUME NEW k \in DOMAIN Members(vary) PROVE \E i \in J: a[i].route = Members(vary)[k]
    <3>1. PICK g \in DOMAIN vary: \E l \in DOMAIN vary[g].routes: Members(vary)[k] = vary[g].routes[l]
      BY <2>1, MembersAre
    <3>2. PICK l \in DOMAIN vary[g].routes: Members(vary)[k] = vary[g].routes[l]
      BY <3>1
    <3>3. PICK i \in J: Is(vary, g, l, a[i])
      BY <2>1, <3>1, <3>2 DEF Sourced
    <3> QED
      BY <3>2, <3>3 DEF Is
  <2>3. ASSUME NEW i \in J PROVE \E k \in DOMAIN Members(vary): Members(vary)[k] = a[i].route
    <3>1. PICK g \in DOMAIN vary: \E l \in DOMAIN vary[g].routes: Is(vary, g, l, a[i])
      BY <2>1 DEF Covers
    <3>2. PICK l \in DOMAIN vary[g].routes: vary[g].routes[l] = a[i].route
      BY <3>1 DEF Is
    <3> QED
      BY <2>1, <3>2, MembersAre
  <2> QED
    BY <2>1, <2>2, <2>3, MembersAre
<1>4. Listed = f \o v
  BY <1>2, <1>3 DEF Listed
<1>5. PICK x \in Nat: x = Len(f) /\ DOMAIN f = 1..x
  OBVIOUS
<1>6. PICK y \in Nat: y = Len(v) /\ DOMAIN v = 1..y
  OBVIOUS
<1>7. Listed \in Seq(Route) /\ DOMAIN Listed = 1..(x + y)
  BY <1>4, <1>5, <1>6
<1>8. \A k \in 1..x: Listed[k] = f[k] /\ k \in 1..(x + y)
  BY <1>4, <1>5, <1>6
<1>9. \A k \in 1..y: Listed[x + k] = v[k] /\ x + k \in 1..(x + y)
  BY <1>4, <1>5, <1>6
<1>10. ASSUME NEW k \in 1..(x + y) PROVE \E i \in DOMAIN a: a[i].route = Listed[k]
  <2>1. CASE k \in 1..x
    <3>1. PICK i \in I: a[i].route = f[k]
      BY <1>2, <1>5, <2>1
    <3> QED
      BY <1>1, <1>8, <2>1, <3>1
  <2>2. CASE k \notin 1..x
    <3>1. k - x \in 1..y /\ k = x + (k - x)
      BY <2>2
    <3>2. PICK l \in 1..y: k = x + l
      BY <3>1
    <3>3. PICK i \in J: a[i].route = v[l]
      BY <1>3, <1>6
    <3> QED
      BY <1>1, <1>9, <3>2, <3>3
  <2> QED
    BY <2>1, <2>2
<1>11. ASSUME NEW i \in DOMAIN a PROVE \E k \in 1..(x + y): Listed[k] = a[i].route
  <2>1. CASE i \in I
    <3>1. PICK k \in 1..x: f[k] = a[i].route
      BY <1>2, <1>5, <2>1
    <3> QED
      BY <1>8, <3>1
  <2>2. CASE i \in J
    <3>1. PICK k \in 1..y: v[k] = a[i].route
      BY <1>3, <1>6, <2>2
    <3> QED
      BY <1>9, <3>1
  <2> QED
    BY <1>1, <2>1, <2>2
<1> QED
  BY <1>7, <1>10, <1>11

LEMMA IndexedAre ==
  ASSUME NEW a \in Seq(Entry), added = a,
         Grouped(fixed, a, FixedOf(a)), Grouped(vary, a, VaryOf(a))
  PROVE  /\ \A n \in DOMAIN IndexRoutes: /\ IndexRoutes[n] \in Route /\ IdOf(IndexRoutes[n]) = n
                                         /\ \E i \in DOMAIN a: a[i].route = IndexRoutes[n]
         /\ \A i \in DOMAIN a: IdOf(a[i].route) # None => IdOf(a[i].route) \in DOMAIN IndexRoutes
<1>1. PICK list \in Seq(Route): list = Listed
  BY ListedAre
<1>2. /\ \A k \in DOMAIN list: \E i \in DOMAIN a: a[i].route = list[k]
      /\ \A i \in DOMAIN a: \E k \in DOMAIN list: list[k] = a[i].route
  BY <1>1, ListedAre
<1>3. PICK x \in Nat: x = Len(list) /\ DOMAIN list = 1..x
  OBVIOUS
<1> DEFINE named == {i \in 1..x: IdOf(list[i]) # None}
           T(n) == {i \in named: IdOf(list[i]) = n}
           index1 == [n \in {IdOf(list[i]): i \in named} |-> list[Max(T(n))]]
<1>4. IndexRoutes = index1
  BY <1>1, <1>3 DEF IndexRoutes
<1>5. ASSUME NEW n \in {IdOf(list[i]): i \in named}
      PROVE  Max(T(n)) \in 1..x /\ IdOf(list[Max(T(n))]) = n
  <2>1. T(n) \subseteq 0..x /\ T(n) # {}
    OBVIOUS
  <2>2. Max(T(n)) \in T(n)
    BY <2>1, MaxOf
  <2> QED
    BY <2>2
<1> HIDE DEF T
<1>6. DOMAIN index1 = {IdOf(list[i]): i \in named}
      /\ \A n \in DOMAIN index1: index1[n] = list[Max(T(n))]
  OBVIOUS
<1>7. ASSUME NEW n \in DOMAIN index1
      PROVE  /\ index1[n] \in Route /\ IdOf(index1[n]) = n
             /\ \E i \in DOMAIN a: a[i].route = index1[n]
  <2>1. PICK k \in 1..x: index1[n] = list[k] /\ IdOf(list[k]) = n
    BY <1>5, <1>6, <1>7
  <2> HIDE DEF index1
  <2> QED
    BY <1>2, <1>3, <2>1
<1>8. ASSUME NEW i \in DOMAIN a, IdOf(a[i].route) # None
      PROVE  IdOf(a[i].route) \in DOMAIN index1
  <2>1. PICK k \in 1..x: list[k] = a[i].route
    BY <1>2, <1>3
  <2>2. k \in named
    BY <1>8, <2>1
  <2> HIDE DEF index1
  <2> QED
    BY <1>6, <2>1, <2>2
<1> HIDE DEF index1
<1> QED
  BY <1>4, <1>7, <1>8
-----------------------------------------------------------------------------
(***************************************************************************)
(* Patterns and URIs.                                                      *)
(***************************************************************************)
LEMMA LiteralIs ==
  ASSUME NEW uri \in Seq(Words)
  PROVE  /\ Literal(uri) \in Seq(Segment) /\ Len(Literal(uri)) = Len(uri)
         /\ Parameters(Literal(uri)) = {}
         /\ \A key \in Seq(Segment): Parameters(key) = {} => (Matches(key, uri) <=> key = Literal(uri))
<1>1. PICK n \in Nat: n = Len(uri) /\ DOMAIN uri = 1..n
  OBVIOUS
<1>2. \A i \in 1..n: uri[i] \in Words
  BY <1>1
<1>3. PICK L: L = Literal(uri)
  OBVIOUS
<1>4. L = [i \in 1..n |-> <<"literal", uri[i]>>]
  BY <1>1, <1>3 DEF Literal
<1>5. \A i \in 1..n: <<"literal", uri[i]>> \in Segment
  BY <1>2 DEF Segment
<1>6. L \in [1..n -> Segment]
  BY <1>4, <1>5
<1>7. L \in Seq(Segment) /\ Len(L) = n /\ DOMAIN L = 1..n
  BY <1>6
<1>8. \A i \in 1..n: L[i] = <<"literal", uri[i]>> /\ L[i][2] = uri[i] /\ ~IsParameter(L[i])
  BY <1>4 DEF IsParameter
<1>9. Parameters(L) = {}
  BY <1>7, <1>8 DEF Parameters
<1>10. ASSUME NEW key \in Seq(Segment), Parameters(key) = {}
       PROVE  Matches(key, uri) <=> key = L
  <2>1. PICK m \in Nat: m = Len(key) /\ DOMAIN key = 1..m
    OBVIOUS
  <2>2. \A i \in 1..m: ~IsParameter(key[i]) /\ key[i] = <<"literal", key[i][2]>>
    <3>1. \A i \in 1..m: ~IsParameter(key[i]) /\ key[i] \in Segment
      BY <1>10, <2>1 DEF Parameters
    <3> QED
      BY <3>1, SegmentIs
  <2>3. Matches(key, uri) <=> m = n /\ \A i \in 1..m: key[i][2] = uri[i]
    BY <1>1, <2>1, <2>2 DEF Matches
  <2>4. ASSUME m = n, \A i \in 1..m: key[i][2] = uri[i] PROVE key = L
    <3>1. \A i \in 1..n: key[i] = L[i]
      BY <1>8, <2>2, <2>4
    <3> QED
      BY <1>7, <2>1, <2>4, <3>1
  <2>5. ASSUME key = L PROVE m = n /\ \A i \in 1..m: key[i][2] = uri[i]
    BY <1>7, <1>8, <2>1, <2>5
  <2> QED
    BY <2>3, <2>4, <2>5
<1> QED
  BY <1>1, <1>3, <1>7, <1>9, <1>10

\* a literal of blanks is in no URI
LEMMA MatchesCompiles ==
  ASSUME NEW key \in Seq(Segment), NEW uri \in Seq(Words), Matches(key, uri)
  PROVE  Compiles(key)
<1> SUFFICES ASSUME NEW i \in DOMAIN key PROVE key[i][2] # Blank
  BY DEF Compiles
<1>1. key[i] \in Segment
  OBVIOUS
<1>2. CASE IsParameter(key[i])
  BY <1>1, <1>2, SegmentIs, RoutesAssumption
<1>3. CASE ~IsParameter(key[i])
  <2>1. key[i][2] = uri[i] /\ i \in DOMAIN uri
    BY <1>3 DEF Matches
  <2> QED
    BY <2>1, RoutesAssumption
<1> QED
  BY <1>2, <1>3

LEMMA CapturesAre ==
  ASSUME NEW key \in Seq(Segment), NEW uri \in Seq(Words), Matches(key, uri)
  PROVE  /\ Captures(key, uri) \in Seq(Words)
         /\ Len(Captures(key, uri)) = Cardinality(Parameters(key))
         /\ \A j \in DOMAIN Captures(key, uri): \E i \in DOMAIN uri: Captures(key, uri)[j] = uri[i]
         /\ \A i \in Parameters(key): Captures(key, uri)[Rank(key, i)] = uri[i]
<1>1. PICK c \in Nat: c = Cardinality(Parameters(key))
  BY ParametersAre
<1>2. PICK C: C = Captures(key, uri)
  OBVIOUS
<1>3. C = [j \in 1..c |-> uri[At(key, j)]]
  BY <1>1, <1>2 DEF Captures
<1>4. \A j \in 1..c: At(key, j) \in DOMAIN uri
  BY <1>1, AtIs, ParametersAre DEF Matches
<1>5. C \in [1..c -> Words]
  BY <1>3, <1>4
<1>6. C \in Seq(Words) /\ Len(C) = c /\ DOMAIN C = 1..c
  BY <1>5
<1>7. ASSUME NEW i \in Parameters(key) PROVE C[Rank(key, i)] = uri[i]
  <2>1. Rank(key, i) \in 1..c /\ At(key, Rank(key, i)) = i
    BY <1>1, AtIs, RankBounds
  <2> QED
    BY <1>3, <2>1
<1>8. \A j \in 1..c: \E i \in DOMAIN uri: C[j] = uri[i]
  BY <1>3, <1>4
<1> QED
  BY <1>1, <1>2, <1>6, <1>7, <1>8
-----------------------------------------------------------------------------
(***************************************************************************)
(* The inductive invariant.                                                *)
(***************************************************************************)
Arguments == UNION {[S -> Words]: S \in SUBSET Words}
Match == [ask: Asks, route: Route \cup {None}, margs: Seq(Words), args: Arguments,
          by: {"none", "find", "set"},
          phase: {"new", "found", "missed", "prepared", "refused"}]

Types ==
  /\ object \in [Route -> Object] /\ prefix \in PrefixWords \cup {None}
  /\ match \in Match
  /\ requests \in 1..MaxRequests
  /\ added \in Seq(Entry) /\ Len(added) <= MaxAdds /\ indexed \in 0..Len(added)
  /\ spent \subseteq Route /\ moved \subseteq Route

ObjectsFit(obj, sp) ==
  \A r \in Route: RouteFits(r, obj[r]) /\ (obj[r].used => r \in sp)

\* What an addition knows of its route: a key that can match belongs to a
\* compiled route, and is its expression unless a script compiled it again.
KeyOf(o) == IF HasParams(o) THEN Key(o.pattern) ELSE o.pattern

EntryFits(e, obj, mv) ==
  /\ Stands(e.key, Declared[e.route].pattern)
  /\ Compiles(e.key) => obj[e.route].done
  /\ e.route \notin mv => e.key = KeyOf(obj[e.route])

EntriesFit(a, obj, mv) == \A i \in DOMAIN a: EntryFits(a[i], obj, mv)

\* the captures of a match that was found are those of an addition of its route
Found(m, a, obj) ==
  Parameters(Declared[m.route].pattern) # {} =>
    /\ obj[m.route].done
    /\ \E i \in DOMAIN a: /\ a[i].route = m.route
                          /\ Matches(a[i].key, m.ask.uri)
                          /\ m.margs = Captures(a[i].key, m.ask.uri)

WordsOf(m) == \A j \in DOMAIN m.margs: \E i \in DOMAIN m.ask.uri: m.margs[j] = m.ask.uri[i]

MatchFits(m, a, obj) ==
  /\ WordsOf(m)
  /\ m.by = "find" /\ m.route # None => Found(m, a, obj)

IInv ==
  /\ Types
  /\ ObjectsFit(object, spent)
  /\ EntriesFit(added, object, moved)
  /\ Grouped(fixed, added, FixedOf(added))
  /\ Grouped(vary, added, VaryOf(added))
  /\ \A n \in DOMAIN index: index[n] \in Route
  /\ MissingNameIsLater
  /\ MatchFits(match, added, object)
  /\ ArgsStandWhereDeclared

LEMMA AskIs ==
  ASSUME NEW ask \in Asks
  PROVE  ask.uri \in Seq(Words) /\ ask.verbs \in SUBSET {"GET", "POST"}
BY RoutesAssumption DEF Ask

LEMMA NewMatchIs ==
  ASSUME NEW ask \in Asks
  PROVE  /\ NoMatch(ask) \in Match
         /\ \A a, obj: MatchFits(NoMatch(ask), a, obj)
         /\ NoMatch(ask).phase = "new" /\ NoMatch(ask).route = None
<1>1. <<>> \in [{} -> Words]
  OBVIOUS
<1>2. <<>> \in Arguments
  <2>1. {} \in SUBSET Words
    OBVIOUS
  <2> QED
    BY <1>1, <2>1 DEF Arguments
<1>3. NoMatch(ask) \in Match
  BY <1>2 DEF NoMatch, Match
<1>4. NoMatch(ask).margs = <<>> /\ NoMatch(ask).by = "none"
      /\ NoMatch(ask).phase = "new" /\ NoMatch(ask).route = None
  BY DEF NoMatch
<1>5. DOMAIN <<>> = {}
  OBVIOUS
<1> QED
  BY <1>3, <1>4, <1>5 DEF MatchFits, WordsOf

LEMMA InitFits == Init => IInv
<1> SUFFICES ASSUME Init PROVE IInv
  OBVIOUS
<1>1. PICK ask \in Asks: match = NoMatch(ask)
  BY DEF Init
<1>2. ObjectsFit(object, spent)
  <2> SUFFICES ASSUME NEW r \in Route PROVE RouteFits(r, object[r]) /\ ~object[r].used
    BY DEF ObjectsFit
  <2>1. object[r] = Fields(r)
    BY DEF Init
  <2> QED
    BY <2>1, FieldsFit
<1>3. object \in [Route -> Object]
  <2>1. \A r \in Route: Fields(r) \in Object
    BY FieldsFit DEF RouteFits
  <2> QED
    BY <2>1 DEF Init
<1>4. added = <<>> /\ DOMAIN added = {} /\ Len(added) = 0
  BY DEF Init
<1>5. Types
  BY <1>1, <1>3, <1>4, NewMatchIs, RoutesAssumption DEF Types, Init
<1>6. EntriesFit(added, object, moved)
  BY <1>4 DEF EntriesFit
<1>7. FixedOf(added) = {} /\ VaryOf(added) = {}
  BY <1>4 DEF FixedOf, VaryOf
<1>8. <<>> \in Groups /\ DOMAIN <<>> = {}
  BY GroupsAre
<1>9. Grouped(<<>>, added, {})
  BY <1>8 DEF Grouped, KeysDiffer, Covers, Sourced, Rooted, InOrder
<1>10. Grouped(fixed, added, FixedOf(added)) /\ Grouped(vary, added, VaryOf(added))
  BY <1>7, <1>9 DEF Init
<1>11. DOMAIN index = {}
  BY <1>8 DEF Init
<1>12. MissingNameIsLater /\ \A n \in DOMAIN index: index[n] \in Route
  BY <1>11 DEF MissingNameIsLater
<1>13. MatchFits(match, added, object) /\ ArgsStandWhereDeclared
  BY <1>1, NewMatchIs DEF ArgsStandWhereDeclared
<1> QED
  BY <1>2, <1>5, <1>6, <1>10, <1>12, <1>13 DEF IInv
-----------------------------------------------------------------------------
(***************************************************************************)
(* Every step keeps it: the additions.                                     *)
(***************************************************************************)
LEMMA KeyFits ==
  ASSUME NEW r \in Route, NEW o, RouteFits(r, o), Compiles(o.pattern) => o.done
  PROVE  /\ KeyOf(o) \in Seq(Segment) /\ Stands(KeyOf(o), Declared[r].pattern)
         /\ Varies(KeyOf(o)) <=> HasParams(o)
         /\ Compiles(KeyOf(o)) => o.done
<1>1. o.pattern \in Seq(Segment) /\ Stands(o.pattern, Declared[r].pattern)
      /\ Declared[r].pattern \in Seq(Segment)
  BY DeclaredIs DEF RouteFits, Stands
<1>2. CASE HasParams(o)
  <2>1. o.done /\ Parameters(o.pattern) # {} /\ Compiles(o.pattern)
    BY <1>2, HasParamsWhen DEF RouteFits
  <2>2. KeyOf(o) = Key(o.pattern)
    BY <1>2 DEF KeyOf
  <2> QED
    BY <1>1, <1>2, <2>1, <2>2, KeyIs, KeyStands DEF Varies
<1>3. CASE ~HasParams(o)
  <2>1. KeyOf(o) = o.pattern
    BY <1>3 DEF KeyOf
  <2>2. o.done => Parameters(o.pattern) = {}
    BY <1>3, HasParamsWhen
  <2> QED
    BY <1>1, <1>3, <2>1, <2>2 DEF Varies
<1> QED
  BY <1>2, <1>3

LEMMA OneMore ==
  ASSUME NEW a \in Seq(Entry), NEW e \in Entry
  PROVE  LET b == Append(a, e) IN
         /\ b \in Seq(Entry) /\ Len(b) = Len(a) + 1 /\ Len(a) \in Nat
         /\ DOMAIN b = 1..(Len(a) + 1) /\ DOMAIN a = 1..Len(a)
         /\ \A i \in DOMAIN a: i \in DOMAIN b /\ b[i] = a[i]
         /\ b[Len(a) + 1] = e
         /\ FixedOf(b) = IF Varies(e.key) THEN FixedOf(a) ELSE FixedOf(a) \cup {Len(a) + 1}
         /\ VaryOf(b) = IF Varies(e.key) THEN VaryOf(a) \cup {Len(a) + 1} ELSE VaryOf(a)
<1> DEFINE b == Append(a, e)
<1>1. PICK n \in Nat: n = Len(a) /\ DOMAIN a = 1..n
  OBVIOUS
<1>2. /\ b \in Seq(Entry) /\ Len(b) = n + 1 /\ DOMAIN b = 1..(n + 1)
      /\ \A i \in 1..n: b[i] = a[i]
      /\ b[n + 1] = e
  BY <1>1
<1> HIDE DEF b
<1>3. \A i: i \in 1..(n + 1) <=> i \in 1..n \/ i = n + 1
  OBVIOUS
<1>4. FixedOf(b) = IF Varies(e.key) THEN FixedOf(a) ELSE FixedOf(a) \cup {n + 1}
  BY <1>1, <1>2, <1>3 DEF FixedOf
<1>5. VaryOf(b) = IF Varies(e.key) THEN VaryOf(a) \cup {n + 1} ELSE VaryOf(a)
  BY <1>1, <1>2, <1>3 DEF VaryOf
<1> QED
  BY <1>1, <1>2, <1>3, <1>4, <1>5 DEF b

\* Other objects than those of the additions may change; theirs stay done.
LEMMA EntriesStay ==
  ASSUME NEW a \in Seq(Entry), NEW obj, NEW obj2, NEW mv, NEW mv2, mv \subseteq mv2,
         EntriesFit(a, obj, mv),
         \A i \in DOMAIN a: LET r == a[i].route IN
           /\ obj[r].done => obj2[r].done
           /\ r \notin mv2 => KeyOf(obj2[r]) = KeyOf(obj[r])
  PROVE  EntriesFit(a, obj2, mv2)
<1> SUFFICES ASSUME NEW i \in DOMAIN a PROVE EntryFits(a[i], obj2, mv2)
  BY DEF EntriesFit
<1>1. EntryFits(a[i], obj, mv)
  BY DEF EntriesFit
<1> QED
  BY <1>1 DEF EntryFits

LEMMA MatchStays ==
  ASSUME NEW a \in Seq(Entry), NEW b \in Seq(Entry), NEW obj, NEW obj2, NEW m \in Match,
         MatchFits(m, a, obj),
         \A i \in DOMAIN a: i \in DOMAIN b /\ b[i] = a[i],
         \A r \in Route: obj[r].done => obj2[r].done
  PROVE  MatchFits(m, b, obj2)
<1> SUFFICES ASSUME m.by = "find", m.route # None PROVE Found(m, b, obj2)
  BY DEF MatchFits
<1>1. m.route \in Route
  BY DEF Match
<1>2. Found(m, a, obj)
  BY DEF MatchFits
<1> QED
  BY <1>1, <1>2 DEF Found

LEMMA AddFits ==
  ASSUME IInv, NEW pre \in PrefixWords \cup {None}, NEW r \in Route, Add(pre, r),
         prefix' \in PrefixWords \cup {None}
  PROVE  IInv'
<1> DEFINE o   == IF object[r].done THEN object[r] ELSE Compiled(pre, object[r])
           key == IF HasParams(o) THEN Key(o.pattern) ELSE o.pattern
           e   == [route |-> r, key |-> key]
<1>1. /\ Len(added) < MaxAdds
      /\ object' = [object EXCEPT ![r] = o]
      /\ IF HasParams(o) THEN vary' = AppendRoute(vary, key, r) /\ fixed' = fixed
                         ELSE fixed' = AppendRoute(fixed, key, r) /\ vary' = vary
      /\ added' = Append(added, e)
      /\ index' = index /\ match' = match /\ requests' = requests /\ indexed' = indexed
      /\ spent' = spent /\ moved' = moved
  BY DEF Add
<1>2. /\ Types /\ ObjectsFit(object, spent) /\ EntriesFit(added, object, moved)
      /\ Grouped(fixed, added, FixedOf(added)) /\ Grouped(vary, added, VaryOf(added))
      /\ MatchFits(match, added, object)
  BY DEF IInv
<1>3. RouteFits(r, object[r]) /\ (object[r].used => r \in spent) /\ object[r].done \in BOOLEAN
  BY <1>2 DEF ObjectsFit, RouteFits, Object
<1>4. /\ RouteFits(r, o) /\ (o.used => r \in spent)
      /\ object[r].done => o.done
      /\ ~Compiles(object[r].pattern) => o = object[r]
      /\ Compiles(o.pattern) => o.done
  <2>1. CASE object[r].done
    BY <1>3, <2>1
  <2>2. CASE ~object[r].done
    BY <1>3, <2>2, CompiledFits
  <2> QED
    BY <2>1, <2>2
<1>5. key = KeyOf(o) /\ e.route = r /\ e.key = key
  BY DEF KeyOf
<1> HIDE DEF o, key
<1>6. /\ key \in Seq(Segment) /\ Stands(key, Declared[r].pattern)
      /\ Varies(key) <=> HasParams(o)
      /\ Compiles(key) => o.done
  BY <1>4, <1>5, KeyFits
<1>7. e \in Entry /\ added \in Seq(Entry)
  BY <1>2, <1>6 DEF Entry, Types
<1> HIDE DEF e
<1>8. PICK n \in Nat: n = Len(added) /\ DOMAIN added = 1..n
  BY <1>7
<1>9. /\ added' \in Seq(Entry) /\ Len(added') = n + 1
      /\ DOMAIN added' = 1..(n + 1)
      /\ \A i \in 1..n: i \in 1..(n + 1) /\ added'[i] = added[i]
      /\ added'[n + 1] = e
      /\ FixedOf(added') = IF Varies(key) THEN FixedOf(added) ELSE FixedOf(added) \cup {n + 1}
      /\ VaryOf(added') = IF Varies(key) THEN VaryOf(added) \cup {n + 1} ELSE VaryOf(added)
  BY <1>1, <1>5, <1>7, <1>8, OneMore
<1>10. /\ object' \in [Route -> Object] /\ object'[r] = o
       /\ \A s \in Route: s # r => object'[s] = object[s]
  BY <1>1, <1>2, <1>4 DEF Types, RouteFits
<1>11. Types'
  BY <1>1, <1>2, <1>8, <1>9, <1>10, RoutesAssumption DEF Types
<1>12. ObjectsFit(object', spent')
  <2> SUFFICES ASSUME NEW s \in Route
               PROVE  RouteFits(s, object'[s]) /\ (object'[s].used => s \in spent')
    BY DEF ObjectsFit
  <2>1. CASE s = r
    BY <1>1, <1>4, <1>10, <2>1
  <2>2. CASE s # r
    BY <1>1, <1>2, <1>10, <2>2 DEF ObjectsFit
  <2> QED
    BY <2>1, <2>2
<1>13. \A s \in Route: object[s].done => object'[s].done
  BY <1>4, <1>10
<1>14. EntriesFit(added', object', moved')
  <2>1. ASSUME NEW i \in 1..n, added[i].route \notin moved
        PROVE  KeyOf(object'[added[i].route]) = KeyOf(object[added[i].route])
    <3>1. added[i].route \in Route
      <4>1. added[i] \in Entry
        BY <1>7, <1>8
      <4> QED
        BY <4>1 DEF Entry
    <3>2. CASE added[i].route # r
      BY <1>10, <3>1, <3>2
    <3>3. CASE added[i].route = r
      <4>1. EntryFits(added[i], object, moved)
        BY <1>2, <1>8 DEF EntriesFit
      <4>2. added[i].key = KeyOf(object[r]) /\ (Compiles(added[i].key) => object[r].done)
        BY <2>1, <3>3, <4>1 DEF EntryFits
      <4>3. CASE object[r].done
        BY <1>10, <3>3, <4>3 DEF o
      <4>4. CASE ~object[r].done
        <5>1. ~HasParams(object[r])
          BY <1>3, <4>4 DEF RouteFits, HasParams
        <5>2. ~Compiles(object[r].pattern)
          BY <4>2, <4>4, <5>1 DEF KeyOf
        <5> QED
          BY <1>4, <1>10, <3>3, <5>2
      <4> QED
        BY <4>3, <4>4
    <3> QED
      BY <3>2, <3>3
  <2>2. \A i \in 1..n: added[i].route \in Route
    <3>1. \A i \in 1..n: added[i] \in Entry
      BY <1>7, <1>8
    <3> QED
      BY <3>1 DEF Entry
  <2>3. EntriesFit(added, object', moved')
    BY <1>1, <1>2, <1>7, <1>8, <1>13, <2>1, <2>2, EntriesStay
  <2>4. EntryFits(e, object', moved')
    BY <1>5, <1>6, <1>10 DEF EntryFits
  <2>5. ASSUME NEW i \in 1..(n + 1) PROVE EntryFits(added'[i], object', moved')
    <3>1. CASE i \in 1..n
      BY <1>8, <1>9, <2>3, <3>1 DEF EntriesFit
    <3>2. CASE i = n + 1
      BY <1>9, <2>4, <3>2
    <3> QED
      BY <3>1, <3>2
  <2> QED
    BY <1>9, <2>5 DEF EntriesFit
<1>15. FixedOf(added) \in SUBSET DOMAIN added /\ VaryOf(added) \in SUBSET DOMAIN added
  BY DEF FixedOf, VaryOf
<1>16. Grouped(fixed', added', FixedOf(added')) /\ Grouped(vary', added', VaryOf(added'))
  <2>1. CASE HasParams(o)
    <3>1. Grouped(fixed', added', FixedOf(added'))
      BY <1>1, <1>2, <1>6, <1>7, <1>9, <1>15, <2>1, LaterAdditionsElsewhere
    <3>2. Grouped(vary', added', VaryOf(added'))
      BY <1>1, <1>2, <1>6, <1>7, <1>8, <1>9, <1>15, <2>1, AppendedGroups DEF e
    <3> QED
      BY <3>1, <3>2
  <2>2. CASE ~HasParams(o)
    <3>1. Grouped(vary', added', VaryOf(added'))
      BY <1>1, <1>2, <1>6, <1>7, <1>9, <1>15, <2>2, LaterAdditionsElsewhere
    <3>2. Grouped(fixed', added', FixedOf(added'))
      BY <1>1, <1>2, <1>6, <1>7, <1>8, <1>9, <1>15, <2>2, AppendedGroups DEF e
    <3> QED
      BY <3>1, <3>2
  <2> QED
    BY <2>1, <2>2
<1>17. MissingNameIsLater' /\ \A s \in DOMAIN index': index'[s] \in Route
  <2>1. indexed \in 0..n
    BY <1>2, <1>8 DEF Types
  <2>2. \A s \in DOMAIN index: index[s] \in Route
    BY DEF IInv
  <2>3. ASSUME DOMAIN index # {}, NEW s \in DOMAIN index
        PROVE  IdOf(index[s]) = s /\ \E i \in 1..(n + 1): added'[i].route = index[s]
    BY <1>8, <1>9, <2>3 DEF IInv, MissingNameIsLater
  <2>4. ASSUME DOMAIN index # {}, NEW i \in 1..(n + 1), IdOf(added'[i].route) # None,
               IdOf(added'[i].route) \notin DOMAIN index
        PROVE  i > indexed
    <3>1. CASE i \in 1..n
      BY <1>8, <1>9, <2>4, <3>1 DEF IInv, MissingNameIsLater
    <3>2. CASE i = n + 1
      BY <2>1, <3>2
    <3> QED
      BY <3>1, <3>2
  <2>5. MissingNameIsLater'
    BY <1>1, <1>9, <2>3, <2>4 DEF MissingNameIsLater, IdOf
  <2> QED
    BY <1>1, <2>2, <2>5
<1>18. MatchFits(match', added', object')
  <2>1. match \in Match
    BY <1>2 DEF Types
  <2>2. \A i \in DOMAIN added: i \in DOMAIN added' /\ added'[i] = added[i]
    BY <1>8, <1>9
  <2>3. MatchFits(match, added', object')
    BY <1>2, <1>7, <1>9, <1>13, <2>1, <2>2, MatchStays
  <2> QED
    BY <1>1, <2>3
<1>19. ArgsStandWhereDeclared'
  BY <1>1 DEF IInv, ArgsStandWhereDeclared
<1> QED
  BY <1>11, <1>12, <1>14, <1>16, <1>17, <1>18, <1>19 DEF IInv
-----------------------------------------------------------------------------
(***************************************************************************)
(* The other steps.                                                        *)
(***************************************************************************)
LEMMA LeftOutFits ==
  ASSUME IInv, prefix' \in PrefixWords \cup {None},
         UNCHANGED <<object, fixed, vary, index, match, requests, ghosts>>
  PROVE  IInv'
<1>1. /\ object' = object /\ fixed' = fixed /\ vary' = vary /\ index' = index /\ match' = match
      /\ requests' = requests /\ added' = added /\ indexed' = indexed /\ spent' = spent
      /\ moved' = moved
  BY DEF ghosts
<1>2. Types'
  BY <1>1 DEF IInv, Types
<1>3. MissingNameIsLater'
  BY <1>1 DEF IInv, MissingNameIsLater
<1>4. ArgsStandWhereDeclared'
  <2>1. ArgsStandWhereDeclared /\ match' = match
    BY <1>1 DEF IInv
  <2> QED
    BY <2>1, ZenonT(60) DEF ArgsStandWhereDeclared
<1> QED
  BY <1>1, <1>2, <1>3, <1>4 DEF IInv

LEMMA StutterFits == ASSUME IInv, UNCHANGED vars PROVE IInv'
<1>1. prefix' = prefix /\ UNCHANGED <<object, fixed, vary, index, match, requests, ghosts>>
  BY DEF vars, ghosts
<1> QED
  BY <1>1, LeftOutFits DEF IInv, Types

LEMMA CompileFits ==
  ASSUME IInv, NEW r \in Route, Compile(r)
  PROVE  IInv'
<1> DEFINE c == Compiled(prefix, object[r])
<1>1. /\ Compiles(object[r].pattern)
      /\ object' = [object EXCEPT ![r] = c]
      /\ spent' = IF HasParams(object'[r]) THEN spent \ {r} ELSE spent
      /\ moved' = IF object'[r].pattern # object[r].pattern /\ \E i \in DOMAIN added: added[i].route = r
                  THEN moved \cup {r} ELSE moved
      /\ prefix' = prefix /\ fixed' = fixed /\ vary' = vary /\ index' = index /\ match' = match
      /\ requests' = requests /\ added' = added /\ indexed' = indexed
  BY DEF Compile
<1>2. /\ Types /\ ObjectsFit(object, spent) /\ EntriesFit(added, object, moved)
      /\ MatchFits(match, added, object)
  BY DEF IInv
<1>3. RouteFits(r, object[r]) /\ (object[r].used => r \in spent) /\ prefix \in PrefixWords \cup {None}
  BY <1>2 DEF ObjectsFit, Types
<1>4. RouteFits(r, c) /\ (c.used => object[r].used) /\ c.done /\ (HasParams(c) => ~c.used)
  BY <1>1, <1>3, CompiledFits
<1> HIDE DEF c
<1>5. /\ object' \in [Route -> Object] /\ object'[r] = c
      /\ \A s \in Route: s # r => object'[s] = object[s]
  BY <1>1, <1>2, <1>4 DEF Types, RouteFits
<1>6. Types'
  <2>1. spent' \subseteq Route /\ moved' \subseteq Route
    BY <1>1, <1>2 DEF Types
  <2> QED
    BY <1>1, <1>2, <1>5, <2>1 DEF Types
<1>7. ObjectsFit(object', spent')
  <2> SUFFICES ASSUME NEW s \in Route
               PROVE  RouteFits(s, object'[s]) /\ (object'[s].used => s \in spent')
    BY DEF ObjectsFit
  <2>1. CASE s = r
    BY <1>1, <1>3, <1>4, <1>5, <2>1
  <2>2. CASE s # r
    BY <1>1, <1>2, <1>5, <2>2 DEF ObjectsFit
  <2> QED
    BY <2>1, <2>2
<1>8. \A s \in Route: object[s].done => object'[s].done
  BY <1>4, <1>5
<1>9. added \in Seq(Entry) /\ match \in Match
  BY <1>2 DEF Types
<1>10. EntriesFit(added', object', moved')
  <2>1. moved \subseteq moved'
    BY <1>1
  <2>2. ASSUME NEW i \in DOMAIN added
        PROVE  added[i].route \in Route
    <3>1. added[i] \in Entry
      BY <1>9
    <3> QED
      BY <3>1 DEF Entry
  <2>3. ASSUME NEW i \in DOMAIN added, added[i].route \notin moved'
        PROVE  KeyOf(object'[added[i].route]) = KeyOf(object[added[i].route])
    <3>1. CASE added[i].route # r
      BY <1>5, <2>2, <3>1
    <3>2. CASE added[i].route = r
      <4>1. c.pattern = object[r].pattern
        BY <1>1, <1>5, <2>3, <3>2
      <4>2. EntryFits(added[i], object, moved)
        BY <1>2 DEF EntriesFit
      <4>3. added[i].key = KeyOf(object[r]) /\ (Compiles(added[i].key) => object[r].done)
        BY <2>1, <2>3, <3>2, <4>2 DEF EntryFits
      <4>4. object[r].done
        <5>1. CASE HasParams(object[r])
          BY <1>3, <5>1, HasParamsWhen
        <5>2. CASE ~HasParams(object[r])
          BY <1>1, <4>3, <5>2 DEF KeyOf
        <5> QED
          BY <5>1, <5>2
      <4>5. HasParams(c) <=> HasParams(object[r])
        BY <1>3, <1>4, <4>1, <4>4, HasParamsWhen
      <4> QED
        BY <1>5, <3>2, <4>1, <4>5 DEF KeyOf
    <3> QED
      BY <3>1, <3>2
  <2>4. EntriesFit(added, object', moved')
    BY <1>2, <1>8, <1>9, <2>1, <2>2, <2>3, EntriesStay
  <2> QED
    BY <1>1, <2>4
<1>11. MatchFits(match', added', object')
  <2>1. MatchFits(match, added, object')
    BY <1>2, <1>8, <1>9, MatchStays
  <2> QED
    BY <1>1, <2>1
<1>12. MissingNameIsLater' /\ ArgsStandWhereDeclared'
  BY <1>1 DEF IInv, MissingNameIsLater, ArgsStandWhereDeclared
<1> QED
  BY <1>1, <1>6, <1>7, <1>10, <1>11, <1>12 DEF IInv

LEMMA GetRouteFits == ASSUME IInv, GetRoute PROVE IInv'
<1>1. /\ DOMAIN index = {} /\ index' = IndexRoutes /\ indexed' = Len(added)
      /\ object' = object /\ prefix' = prefix /\ fixed' = fixed /\ vary' = vary /\ match' = match
      /\ requests' = requests /\ added' = added /\ spent' = spent /\ moved' = moved
  BY DEF GetRoute
<1>2. added \in Seq(Entry)
  BY DEF IInv, Types
<1>3. PICK n \in Nat: n = Len(added) /\ DOMAIN added = 1..n
  BY <1>2
<1>4. Types'
  BY <1>1, <1>3 DEF IInv, Types
<1>5. /\ \A s \in DOMAIN IndexRoutes: /\ IndexRoutes[s] \in Route /\ IdOf(IndexRoutes[s]) = s
                                      /\ \E i \in DOMAIN added: added[i].route = IndexRoutes[s]
      /\ \A i \in DOMAIN added: IdOf(added[i].route) # None => IdOf(added[i].route) \in DOMAIN IndexRoutes
  BY <1>2, IndexedAre DEF IInv
<1>6. MissingNameIsLater' /\ \A s \in DOMAIN index': index'[s] \in Route
  BY <1>1, <1>5 DEF MissingNameIsLater, IdOf
<1>7. ArgsStandWhereDeclared'
  BY <1>1 DEF IInv, ArgsStandWhereDeclared
<1> QED
  BY <1>1, <1>4, <1>6, <1>7 DEF IInv

LEMMA NewMatchFits == ASSUME IInv, NEW ask \in Asks, NewMatch(ask) PROVE IInv'
<1>1. /\ match' = NoMatch(ask)
      /\ object' = object /\ prefix' = prefix /\ fixed' = fixed /\ vary' = vary /\ index' = index
      /\ requests' = requests /\ added' = added /\ indexed' = indexed /\ spent' = spent
      /\ moved' = moved
  BY DEF NewMatch, ghosts
<1>2. Types'
  BY <1>1, NewMatchIs DEF IInv, Types
<1>3. MatchFits(match', added', object')
  BY <1>1, NewMatchIs
<1>4. MissingNameIsLater' /\ ArgsStandWhereDeclared'
  BY <1>1, NewMatchIs DEF IInv, MissingNameIsLater, ArgsStandWhereDeclared
<1> QED
  BY <1>1, <1>2, <1>3, <1>4 DEF IInv

LEMMA NextRequestFits == ASSUME IInv, NextRequest PROVE IInv'
<1> DEFINE in == {added[i].route: i \in DOMAIN added}
<1>1. PICK ask \in Asks:
      /\ requests < MaxRequests /\ requests' = requests + 1
      /\ object' = [r \in Route |-> IF r \in in THEN object[r] ELSE Fields(r)]
      /\ spent' = spent \cap in
      /\ prefix' = None /\ index' = <<>> /\ indexed' = 0
      /\ match' = NoMatch(ask)
      /\ fixed' = fixed /\ vary' = vary /\ added' = added /\ moved' = moved
  BY DEF NextRequest
<1>2. Types /\ ObjectsFit(object, spent) /\ EntriesFit(added, object, moved)
  BY DEF IInv
<1>3. \A i \in DOMAIN added: added[i].route \in in
  OBVIOUS
<1> HIDE DEF in
<1>4. ASSUME NEW r \in Route
      PROVE  RouteFits(r, object'[r]) /\ (object'[r].used => r \in spent')
  <2>1. CASE r \in in
    BY <1>1, <1>2, <2>1 DEF ObjectsFit
  <2>2. CASE r \notin in
    BY <1>1, <2>2, FieldsFit
  <2> QED
    BY <2>1, <2>2
<1>5. object' \in [Route -> Object]
  BY <1>1, <1>4 DEF RouteFits
<1>6. Types'
  <2>1. requests + 1 \in 1..MaxRequests
    BY <1>1, <1>2, RoutesAssumption DEF Types
  <2> QED
    BY <1>1, <1>2, <1>5, <2>1, NewMatchIs DEF Types
<1>7. ObjectsFit(object', spent')
  BY <1>4 DEF ObjectsFit
<1>8. EntriesFit(added', object', moved')
  <2>1. added \in Seq(Entry)
    BY <1>2 DEF Types
  <2>2. \A i \in DOMAIN added: object'[added[i].route] = object[added[i].route]
    <3> SUFFICES ASSUME NEW i \in DOMAIN added
                 PROVE  object'[added[i].route] = object[added[i].route]
      OBVIOUS
    <3>1. added[i] \in Entry
      BY <2>1
    <3>2. added[i].route \in Route
      BY <3>1 DEF Entry
    <3> QED
      BY <1>1, <1>3, <3>2
  <2>3. EntriesFit(added, object', moved)
    BY <1>2, <2>1, <2>2, EntriesStay
  <2> QED
    BY <1>1, <2>3
<1>9. DOMAIN index' = {}
  BY <1>1
<1>10. MatchFits(match', added', object')
  BY <1>1, NewMatchIs
<1>11. MissingNameIsLater' /\ (\A n \in DOMAIN index': index'[n] \in Route)
  BY <1>9 DEF MissingNameIsLater
<1>12. ArgsStandWhereDeclared'
  BY <1>1, NewMatchIs DEF ArgsStandWhereDeclared
<1> QED
  BY <1>1, <1>6, <1>7, <1>8, <1>10, <1>11, <1>12 DEF IInv
-----------------------------------------------------------------------------
(***************************************************************************)
(* The search.                                                             *)
(***************************************************************************)
LEMMA LeastOf ==
  ASSUME NEW n \in Nat, NEW S, S \subseteq 1..n, S # {}
  PROVE  /\ Min(S) \in S /\ Min(S) \in 1..n /\ Min(S) # 0
         /\ \A y \in 1..n: y < Min(S) => y \notin S
<1>1. S \subseteq Nat
  OBVIOUS
<1>2. Min(S) \in S /\ \A y \in S: Min(S) <= y
  BY <1>1, MinOf
<1>3. PICK x \in 1..n: x = Min(S)
  BY <1>2
<1>4. x # 0 /\ \A y \in 1..n: y < x => y \notin S
  BY <1>2, <1>3
<1> QED
  BY <1>2, <1>3, <1>4

LEMMA FirstMatchIs ==
  ASSUME NEW routes \in Seq(Route), NEW ask
  PROVE  /\ FirstMatch(routes, ask) = None <=> \A k \in DOMAIN routes: ~Fits(routes[k], ask)
         /\ FirstMatch(routes, ask) # None =>
              \E k \in DOMAIN routes: /\ routes[k] = FirstMatch(routes, ask) /\ Fits(routes[k], ask)
                                      /\ \A l \in DOMAIN routes: l < k => ~Fits(routes[l], ask)
<1>1. PICK n \in Nat: n = Len(routes) /\ DOMAIN routes = 1..n
  OBVIOUS
<1> DEFINE I == {k \in 1..n: Fits(routes[k], ask)}
           i == IF I # {} THEN Min(I) ELSE 0
<1>2. FirstMatch(routes, ask) = IF i = 0 THEN None ELSE routes[i]
  BY <1>1 DEF FirstMatch, SelectInSeq
<1>3. \A k \in 1..n: routes[k] # None
  BY <1>1, RoutesAssumption
<1>4. I \subseteq 1..n /\ \A k \in 1..n: k \in I <=> Fits(routes[k], ask)
  OBVIOUS
<1> HIDE DEF I
<1>5. CASE I = {}
  BY <1>1, <1>2, <1>4, <1>5
<1>6. CASE I # {}
  <2>1. PICK k \in 1..n: k = Min(I) /\ k # 0 /\ k \in I /\ \A l \in 1..n: l < k => l \notin I
    BY <1>4, <1>6, LeastOf
  <2>2. Fits(routes[k], ask) /\ \A l \in 1..n: l < k => ~Fits(routes[l], ask)
    BY <1>4, <2>1
  <2>3. FirstMatch(routes, ask) = routes[k]
    BY <1>2, <1>6, <2>1
  <2> QED
    BY <1>1, <1>3, <2>2, <2>3
<1> QED
  BY <1>5, <1>6

\* the group that a search stops at, if there is one
Takes(G, g, ask) == FirstMatch(G[g].routes, ask) # None
StopsAt(G, Test, ask, g) ==
  /\ g \in DOMAIN G /\ G[g].key \in Test /\ Takes(G, g, ask)
  /\ \A h \in DOMAIN G: h < g /\ G[h].key \in Test => ~Takes(G, h, ask)
Passes(G, Test, ask) == \A h \in DOMAIN G: G[h].key \in Test => ~Takes(G, h, ask)

Matching(uri) == {key \in Seq(Segment): Matches(key, uri)}

LEMMA SearchIs ==
  ASSUME fixed \in Groups, vary \in Groups, NEW ask, NEW margs
  PROVE  \/ \E f: /\ StopsAt(fixed, {Literal(ask.uri)}, ask, f)
                  /\ Search(ask, margs) = [route |-> FirstMatch(fixed[f].routes, ask), margs |-> <<>>]
         \/ /\ Passes(fixed, {Literal(ask.uri)}, ask)
            /\ \E v: /\ StopsAt(vary, Matching(ask.uri), ask, v)
                     /\ Search(ask, margs) = [route |-> FirstMatch(vary[v].routes, ask),
                                              margs |-> Captures(vary[v].key, ask.uri)]
         \/ /\ Passes(fixed, {Literal(ask.uri)}, ask) /\ Passes(vary, Matching(ask.uri), ask)
            /\ Search(ask, margs) = [route |-> None, margs |-> margs]
<1> DEFINE F == {g \in 1..Len(fixed): fixed[g].key = Literal(ask.uri) /\ FirstMatch(fixed[g].routes, ask) # None}
           V == {g \in 1..Len(vary): Matches(vary[g].key, ask.uri) /\ FirstMatch(vary[g].routes, ask) # None}
           f == IF F # {} THEN Min(F) ELSE 0
           v == IF V # {} THEN Min(V) ELSE 0
<1>1. Search(ask, margs) =
        IF f # 0 THEN [route |-> FirstMatch(fixed[f].routes, ask), margs |-> <<>>]
        ELSE IF v # 0 THEN [route |-> FirstMatch(vary[v].routes, ask),
                            margs |-> Captures(vary[v].key, ask.uri)]
        ELSE [route |-> None, margs |-> margs]
  BY DEF Search, SelectInSeq
<1>2. PICK m \in Nat: m = Len(fixed) /\ DOMAIN fixed = 1..m
  BY GroupsAre
<1>3. PICK n \in Nat: n = Len(vary) /\ DOMAIN vary = 1..n
  BY GroupsAre
<1>4. F \subseteq 1..m /\ \A g \in 1..m: g \in F <=> fixed[g].key = Literal(ask.uri) /\ Takes(fixed, g, ask)
  BY <1>2 DEF Takes
<1>5. V \subseteq 1..n /\ \A g \in 1..n: g \in V <=> Matches(vary[g].key, ask.uri) /\ Takes(vary, g, ask)
  BY <1>3 DEF Takes
<1>6. \A g \in 1..n: vary[g].key \in Seq(Segment)
  <2>1. \A g \in 1..n: vary[g] \in OneGroup
    BY <1>3, GroupsAre
  <2> QED
    BY <2>1, OtherRoutes
<1> HIDE DEF F, V
<1>7. CASE F # {}
  <2>1. PICK g \in 1..m: g = Min(F) /\ g # 0 /\ g \in F /\ \A y \in 1..m: y < g => y \notin F
    <3>1. F \subseteq 1..m /\ F # {}
      BY <1>4, <1>7
    <3>2. /\ Min(F) \in F /\ Min(F) \in 1..m /\ Min(F) # 0
          /\ \A y \in 1..m: y < Min(F) => y \notin F
      BY <3>1, LeastOf
    <3> QED
      BY <3>2
  <2>2. g = f
    BY <1>7, <2>1
  <2> HIDE DEF f, v
  <2>3. StopsAt(fixed, {Literal(ask.uri)}, ask, g)
    BY <1>2, <1>4, <2>1 DEF StopsAt
  <2>4. Search(ask, margs) = [route |-> FirstMatch(fixed[g].routes, ask), margs |-> <<>>]
    BY <1>1, <2>1, <2>2
  <2> QED
    BY <2>3, <2>4
<1>8. CASE F = {}
  <2>1. f = 0
    BY <1>8
  <2>2. Passes(fixed, {Literal(ask.uri)}, ask)
    BY <1>2, <1>4, <1>8 DEF Passes
  <2>3. CASE V # {}
    <3>1. PICK g \in 1..n: g = Min(V) /\ g # 0 /\ g \in V /\ \A y \in 1..n: y < g => y \notin V
      <4>1. V \subseteq 1..n /\ V # {}
        BY <1>5, <2>3
      <4>2. /\ Min(V) \in V /\ Min(V) \in 1..n /\ Min(V) # 0
            /\ \A y \in 1..n: y < Min(V) => y \notin V
        BY <4>1, LeastOf
      <4> QED
        BY <4>2
    <3>2. g = v
      BY <2>3, <3>1
    <3> HIDE DEF f, v
    <3>3. StopsAt(vary, Matching(ask.uri), ask, g)
      BY <1>3, <1>5, <1>6, <3>1 DEF StopsAt, Matching
    <3>4. Search(ask, margs) = [route |-> FirstMatch(vary[g].routes, ask),
                                margs |-> Captures(vary[g].key, ask.uri)]
      BY <1>1, <2>1, <3>1, <3>2
    <3> QED
      BY <2>2, <3>3, <3>4
  <2>4. CASE V = {}
    <3>1. v = 0
      BY <2>4
    <3> HIDE DEF f, v
    <3>2. Passes(vary, Matching(ask.uri), ask)
      BY <1>3, <1>5, <2>4 DEF Passes, Matching
    <3>3. Search(ask, margs) = [route |-> None, margs |-> margs]
      BY <1>1, <2>1, <3>1
    <3> QED
      BY <2>2, <3>2, <3>3
  <2> QED
    BY <2>3, <2>4
<1> QED
  BY <1>7, <1>8

\* addition i of those of I is the one that a search among Test stops at
Chosen(a, I, Test, ask, i) ==
  /\ a[i].key \in Test /\ Fits(a[i].route, ask)
  /\ \A j \in I: a[j].key \in Test /\ Fits(a[j].route, ask) =>
       \/ a[j].key = a[i].key /\ i <= j
       \/ \A x \in I: a[x].key = a[j].key => \E y \in I: y < x /\ a[y].key = a[i].key

LEMMA StopIs ==
  ASSUME NEW a \in Seq(Entry), NEW I \in SUBSET DOMAIN a, NEW G, Grouped(G, a, I),
         NEW Test, NEW ask, NEW g, StopsAt(G, Test, ask, g)
  PROVE  \E i \in I: /\ Chosen(a, I, Test, ask, i)
                    /\ a[i].key = G[g].key /\ a[i].route = FirstMatch(G[g].routes, ask)
<1>1. G \in Groups /\ KeysDiffer(G) /\ Covers(G, a, I) /\ Sourced(G, a, I) /\ InOrder(G, a, I)
  BY DEF Grouped
<1>2. PICK m \in Nat: m = Len(G) /\ DOMAIN G = 1..m
  BY <1>1, GroupsAre
<1>3. \A h \in 1..m: G[h].routes \in Seq(Route)
  <2>1. \A h \in 1..m: G[h] \in OneGroup
    BY <1>1, <1>2, GroupsAre
  <2> QED
    BY <2>1, OtherRoutes
<1>4. /\ g \in 1..m /\ G[g].key \in Test /\ FirstMatch(G[g].routes, ask) # None
      /\ \A h \in 1..m: h < g /\ G[h].key \in Test => FirstMatch(G[h].routes, ask) = None
  BY <1>2 DEF StopsAt, Takes
<1>5. PICK k \in DOMAIN G[g].routes:
        /\ G[g].routes[k] = FirstMatch(G[g].routes, ask) /\ Fits(G[g].routes[k], ask)
        /\ \A l \in DOMAIN G[g].routes: l < k => ~Fits(G[g].routes[l], ask)
  BY <1>3, <1>4, FirstMatchIs
<1>6. PICK i \in I:
        /\ Is(G, g, k, a[i])
        /\ \A j \in I: j < i /\ a[j].key = G[g].key =>
             \E l \in DOMAIN G[g].routes: l < k /\ G[g].routes[l] = a[j].route
  BY <1>1, <1>2, <1>4 DEF Sourced
<1>7. a[i].key = G[g].key /\ a[i].route = G[g].routes[k]
  BY <1>6 DEF Is
<1>8. ASSUME NEW j \in I, a[j].key \in Test, Fits(a[j].route, ask)
      PROVE  \/ a[j].key = a[i].key /\ i <= j
             \/ \A x \in I: a[x].key = a[j].key => \E y \in I: y < x /\ a[y].key = a[i].key
  <2>1. PICK h \in 1..m: \E l \in DOMAIN G[h].routes: Is(G, h, l, a[j])
    BY <1>1, <1>2 DEF Covers
  <2>2. PICK l \in DOMAIN G[h].routes: G[h].key = a[j].key /\ G[h].routes[l] = a[j].route
    BY <2>1 DEF Is
  <2>3. FirstMatch(G[h].routes, ask) # None
    BY <1>3, <1>8, <2>2, FirstMatchIs
  <2>4. ~ (h < g)
    BY <1>4, <1>8, <2>2, <2>3
  <2>5. i \in Nat /\ j \in Nat
    OBVIOUS
  <2>6. CASE h = g
    <3>1. ~ (j < i)
      BY <1>5, <1>6, <1>8, <2>2, <2>6
    <3> QED
      BY <1>7, <2>2, <2>5, <2>6, <3>1
  <2>7. CASE h # g
    <3>1. g < h
      BY <1>4, <2>4, <2>7
    <3> QED
      BY <1>1, <1>2, <1>4, <1>7, <2>2, <3>1 DEF InOrder
  <2> QED
    BY <2>6, <2>7
<1>9. Chosen(a, I, Test, ask, i)
  BY <1>4, <1>5, <1>7, <1>8 DEF Chosen
<1> QED
  BY <1>5, <1>7, <1>9

LEMMA PassIs ==
  ASSUME NEW a \in Seq(Entry), NEW I \in SUBSET DOMAIN a, NEW G, Grouped(G, a, I),
         NEW Test, NEW ask, Passes(G, Test, ask)
  PROVE  \A j \in I: a[j].key \in Test => ~Fits(a[j].route, ask)
<1> SUFFICES ASSUME NEW j \in I, a[j].key \in Test, Fits(a[j].route, ask) PROVE FALSE
  OBVIOUS
<1>1. PICK h \in DOMAIN G: \E l \in DOMAIN G[h].routes: Is(G, h, l, a[j])
  BY DEF Grouped, Covers
<1>2. PICK l \in DOMAIN G[h].routes: G[h].key = a[j].key /\ G[h].routes[l] = a[j].route
  BY <1>1 DEF Is
<1>3. G[h].routes \in Seq(Route)
  <2>1. G[h] \in OneGroup
    BY GroupsAre DEF Grouped
  <2> QED
    BY <2>1, OtherRoutes
<1>4. FirstMatch(G[h].routes, ask) # None
  BY <1>2, <1>3, FirstMatchIs
<1> QED
  BY <1>2, <1>4 DEF Passes, Takes

\* the additions that a request could be given
Suits(i, ask) == Matches(added[i].key, ask.uri) /\ Fits(added[i].route, ask)

First(i) == Min({l \in DOMAIN added: added[l].key = added[i].key})

LEMMA BetterIs ==
  ASSUME NEW i, NEW j
  PROVE  Better(i, j) <=>
           LET oi == Parameters(added[i].key) # {}
               oj == Parameters(added[j].key) # {}
           IN \/ ~oi /\ oj
              \/ (oi <=> oj) /\ First(i) < First(j)
              \/ (oi <=> oj) /\ First(i) = First(j) /\ i <= j
BY DEF Better, First

LEMMA FirstIs ==
  ASSUME added \in Seq(Entry), NEW i \in DOMAIN added
  PROVE  /\ First(i) \in DOMAIN added /\ added[First(i)].key = added[i].key
         /\ \A l \in DOMAIN added: added[l].key = added[i].key => First(i) <= l
<1>1. PICK n \in Nat: n = Len(added) /\ DOMAIN added = 1..n
  OBVIOUS
<1> DEFINE S == {l \in DOMAIN added: added[l].key = added[i].key}
<1>2. S \subseteq Nat /\ S # {}
  BY <1>1
<1>3. Min(S) \in S /\ \A y \in S: Min(S) <= y
  BY <1>2, MinOf
<1> QED
  BY <1>3 DEF First

LEMMA EntryIs ==
  ASSUME NEW a \in Seq(Entry), NEW i \in DOMAIN a
  PROVE  a[i].route \in Route /\ a[i].key \in Seq(Segment)
<1>1. a[i] \in Entry
  OBVIOUS
<1> QED
  BY <1>1 DEF Entry

LEMMA SuitsWhere ==
  ASSUME added \in Seq(Entry), NEW ask, ask.uri \in Seq(Words), NEW i \in DOMAIN added, Suits(i, ask)
  PROVE  /\ i \in VaryOf(added) <=> Parameters(added[i].key) # {}
         /\ i \in FixedOf(added) <=> Parameters(added[i].key) = {}
         /\ Parameters(added[i].key) = {} => added[i].key = Literal(ask.uri)
         /\ added[i].key \in Matching(ask.uri)
<1>1. added[i].key \in Seq(Segment) /\ ask.uri \in Seq(Words)
  BY EntryIs
<1>2. Compiles(added[i].key)
  BY <1>1, MatchesCompiles DEF Suits
<1> QED
  BY <1>1, <1>2, LiteralIs DEF VaryOf, FixedOf, Varies, Suits, Matching

\* What a search answers, as the additions say it.
Answers(s, ask, margs) ==
  \/ /\ s = [route |-> None, margs |-> margs]
     /\ \A j \in DOMAIN added: ~Suits(j, ask)
  \/ \E i \in DOMAIN added:
       /\ Suits(i, ask)
       /\ \A j \in DOMAIN added: Suits(j, ask) => Better(i, j)
       /\ s.route = added[i].route
       /\ s.margs = IF Parameters(added[i].key) = {} THEN <<>> ELSE Captures(added[i].key, ask.uri)
       /\ Parameters(added[i].key) # {} => Compiles(added[i].key)

LEMMA SearchAnswers ==
  ASSUME added \in Seq(Entry), Grouped(fixed, added, FixedOf(added)), Grouped(vary, added, VaryOf(added)),
         NEW ask, ask.uri \in Seq(Words), NEW margs
  PROVE  Answers(Search(ask, margs), ask, margs)
<1> DEFINE L == Literal(ask.uri)
           s == Search(ask, margs)
           I == FixedOf(added)
           J == VaryOf(added)
<1>1. I \in SUBSET DOMAIN added /\ J \in SUBSET DOMAIN added /\ DOMAIN added = I \cup J
      /\ fixed \in Groups /\ vary \in Groups
  BY DEF FixedOf, VaryOf, Grouped
<1>2. /\ L \in Seq(Segment) /\ Parameters(L) = {} /\ ask.uri \in Seq(Words)
      /\ Matches(L, ask.uri)
  BY LiteralIs
<1>3. \A i \in DOMAIN added: i \in Nat
  OBVIOUS
<1>4. CASE \E f: /\ StopsAt(fixed, {L}, ask, f)
                 /\ s = [route |-> FirstMatch(fixed[f].routes, ask), margs |-> <<>>]
  <2>1. PICK f: /\ StopsAt(fixed, {L}, ask, f)
                /\ s = [route |-> FirstMatch(fixed[f].routes, ask), margs |-> <<>>]
    BY <1>4
  <2>2. PICK i \in I: /\ Chosen(added, I, {L}, ask, i)
                       /\ added[i].key = fixed[f].key /\ added[i].route = FirstMatch(fixed[f].routes, ask)
    BY <1>1, <2>1, StopIs
  <2>3. Suits(i, ask) /\ Parameters(added[i].key) = {} /\ i \in DOMAIN added
    BY <1>1, <1>2, <2>2 DEF Suits, Chosen
  <2>4. ASSUME NEW j \in DOMAIN added, Suits(j, ask) PROVE Better(i, j)
    <3>1. CASE Parameters(added[j].key) # {}
      BY <2>3, <3>1, BetterIs
    <3>2. CASE Parameters(added[j].key) = {}
      <4>1. j \in I /\ added[j].key = L /\ added[i].key = L
        BY <2>2, <2>4, <3>2, SuitsWhere DEF Chosen
      <4>2. i <= j
        <5>1. CASE \A x \in I: added[x].key = added[j].key => \E y \in I: y < x /\ added[y].key = added[i].key
          <6>1. First(i) \in DOMAIN added /\ added[First(i)].key = L
                /\ \A l \in DOMAIN added: added[l].key = L => First(i) <= l
            BY <1>1, <4>1, FirstIs
          <6>2. First(i) \in I
            BY <2>2, <4>1, <6>1 DEF FixedOf
          <6>3. PICK y \in I: y < First(i) /\ added[y].key = L
            BY <4>1, <5>1, <6>1, <6>2
          <6> QED
            BY <1>1, <1>3, <6>1, <6>3
        <5>2. CASE added[j].key = added[i].key /\ i <= j
          BY <5>2
        <5> QED
          BY <2>2, <2>4, <4>1, <5>1, <5>2 DEF Suits, Chosen
      <4>3. First(i) = First(j)
        BY <4>1 DEF First
      <4> QED
        BY <2>3, <3>2, <4>2, <4>3, BetterIs
    <3> QED
      BY <3>1, <3>2
  <2>5. s.route = added[i].route /\ s.margs = <<>>
    BY <2>1, <2>2
  <2> QED
    BY <2>3, <2>4, <2>5 DEF Answers
<1>5. CASE /\ Passes(fixed, {L}, ask)
           /\ \E v: /\ StopsAt(vary, Matching(ask.uri), ask, v)
                    /\ s = [route |-> FirstMatch(vary[v].routes, ask),
                            margs |-> Captures(vary[v].key, ask.uri)]
  <2>1. PICK v: /\ StopsAt(vary, Matching(ask.uri), ask, v)
                /\ s = [route |-> FirstMatch(vary[v].routes, ask),
                        margs |-> Captures(vary[v].key, ask.uri)]
    BY <1>5
  <2>2. PICK i \in J: /\ Chosen(added, J, Matching(ask.uri), ask, i)
                       /\ added[i].key = vary[v].key /\ added[i].route = FirstMatch(vary[v].routes, ask)
    BY <1>1, <2>1, StopIs
  <2>3. Suits(i, ask) /\ i \in DOMAIN added /\ Parameters(added[i].key) # {} /\ Compiles(added[i].key)
    BY <1>1, <2>2 DEF Suits, Matching, VaryOf, Varies, Chosen
  <2>4. \A j \in I: added[j].key \in {L} => ~Fits(added[j].route, ask)
    BY <1>1, <1>5, PassIs
  <2>5. ASSUME NEW j \in DOMAIN added, Suits(j, ask) PROVE Better(i, j)
    <3>1. Parameters(added[j].key) # {}
      BY <2>4, <2>5, SuitsWhere DEF Suits
    <3>2. j \in J /\ added[j].key \in Matching(ask.uri) /\ Fits(added[j].route, ask)
      BY <2>5, <3>1, SuitsWhere DEF Suits
    <3>3. CASE added[j].key = added[i].key /\ i <= j
      <4>1. First(i) = First(j)
        BY <3>3 DEF First
      <4> QED
        BY <2>3, <3>1, <3>3, <4>1, BetterIs
    <3>4. CASE \A x \in J: added[x].key = added[j].key => \E y \in J: y < x /\ added[y].key = added[i].key
      <4>1. First(j) \in DOMAIN added /\ added[First(j)].key = added[j].key
        BY FirstIs
      <4>2. First(j) \in J
        BY <3>2, <4>1 DEF VaryOf
      <4>3. PICK y \in J: y < First(j) /\ added[y].key = added[i].key
        BY <3>4, <4>1, <4>2
      <4>4. First(i) \in DOMAIN added /\ First(i) <= y
        BY <1>1, <2>3, <4>3, FirstIs
      <4>5. First(i) < First(j)
        BY <1>1, <1>3, <4>1, <4>3, <4>4
      <4> QED
        BY <2>3, <3>1, <4>5, BetterIs
    <3> QED
      BY <2>2, <3>2, <3>3, <3>4 DEF Chosen
  <2>6. s.route = added[i].route /\ s.margs = Captures(added[i].key, ask.uri)
    BY <2>1, <2>2
  <2> QED
    BY <2>3, <2>5, <2>6 DEF Answers
<1>6. CASE /\ Passes(fixed, {L}, ask) /\ Passes(vary, Matching(ask.uri), ask)
           /\ s = [route |-> None, margs |-> margs]
  <2>1. \A j \in I: added[j].key \in {L} => ~Fits(added[j].route, ask)
    BY <1>1, <1>6, PassIs
  <2>2. \A j \in J: added[j].key \in Matching(ask.uri) => ~Fits(added[j].route, ask)
    BY <1>1, <1>6, PassIs
  <2>3. ASSUME NEW j \in DOMAIN added, Suits(j, ask) PROVE FALSE
    BY <2>1, <2>2, <2>3, SuitsWhere DEF Suits
  <2> QED
    BY <1>6, <2>3 DEF Answers
<1> QED
  <2>1. \/ \E f: /\ StopsAt(fixed, {L}, ask, f)
                 /\ s = [route |-> FirstMatch(fixed[f].routes, ask), margs |-> <<>>]
        \/ /\ Passes(fixed, {L}, ask)
           /\ \E v: /\ StopsAt(vary, Matching(ask.uri), ask, v)
                    /\ s = [route |-> FirstMatch(vary[v].routes, ask),
                            margs |-> Captures(vary[v].key, ask.uri)]
        \/ /\ Passes(fixed, {L}, ask) /\ Passes(vary, Matching(ask.uri), ask)
           /\ s = [route |-> None, margs |-> margs]
    BY <1>1, SearchIs
  <2> HIDE DEF s
  <2> QED
    BY <1>4, <1>5, <1>6, <2>1

LEMMA FindRouteFits == ASSUME IInv, FindRoute PROVE IInv'
<1> DEFINE s == Search(match.ask, match.margs)
<1>1. /\ match' = [match EXCEPT !.route = s.route, !.margs = s.margs, !.by = "find",
                                !.phase = IF s.route = None THEN "missed" ELSE "found"]
      /\ object' = object /\ prefix' = prefix /\ fixed' = fixed /\ vary' = vary /\ index' = index
      /\ requests' = requests /\ added' = added /\ indexed' = indexed /\ spent' = spent
      /\ moved' = moved
  BY DEF FindRoute, ghosts
<1>2. /\ match \in Match /\ added \in Seq(Entry) /\ MatchFits(match, added, object)
      /\ EntriesFit(added, object, moved)
  BY DEF IInv, Types
<1>3. match.ask \in Asks /\ match.margs \in Seq(Words) /\ match.ask.uri \in Seq(Words)
  BY <1>2, AskIs DEF Match
<1>4. Answers(s, match.ask, match.margs)
  BY <1>2, <1>3, SearchAnswers DEF IInv
<1> HIDE DEF s
<1>5. /\ s.route \in Route \cup {None} /\ s.margs \in Seq(Words)
      /\ \A j \in DOMAIN s.margs: \E i \in DOMAIN match.ask.uri: s.margs[j] = match.ask.uri[i]
      /\ s.route # None =>
           (Parameters(Declared[s.route].pattern) # {} =>
             /\ object[s.route].done
             /\ \E i \in DOMAIN added: /\ added[i].route = s.route
                                       /\ Matches(added[i].key, match.ask.uri)
                                       /\ s.margs = Captures(added[i].key, match.ask.uri))
  <2>1. CASE s = [route |-> None, margs |-> match.margs]
    BY <1>2, <1>3, <2>1 DEF MatchFits, WordsOf
  <2>2. CASE \E i \in DOMAIN added:
               /\ Suits(i, match.ask)
               /\ s.route = added[i].route
               /\ s.margs = IF Parameters(added[i].key) = {} THEN <<>> ELSE Captures(added[i].key, match.ask.uri)
               /\ Parameters(added[i].key) # {} => Compiles(added[i].key)
    <3>1. PICK i \in DOMAIN added:
               /\ Suits(i, match.ask)
               /\ s.route = added[i].route
               /\ s.margs = IF Parameters(added[i].key) = {} THEN <<>> ELSE Captures(added[i].key, match.ask.uri)
               /\ Parameters(added[i].key) # {} => Compiles(added[i].key)
      BY <2>2
    <3>2. added[i].route \in Route /\ added[i].key \in Seq(Segment) /\ Matches(added[i].key, match.ask.uri)
      BY <1>2, <3>1, EntryIs DEF Suits
    <3>3. /\ Captures(added[i].key, match.ask.uri) \in Seq(Words)
          /\ \A j \in DOMAIN Captures(added[i].key, match.ask.uri):
               \E k \in DOMAIN match.ask.uri: Captures(added[i].key, match.ask.uri)[j] = match.ask.uri[k]
      BY <1>3, <3>2, CapturesAre
    <3>4. EntryFits(added[i], object, moved)
      BY <1>2 DEF EntriesFit
    <3>5. ASSUME Parameters(Declared[added[i].route].pattern) # {}
          PROVE  Parameters(added[i].key) # {} /\ object[added[i].route].done
      <4>1. Stands(added[i].key, Declared[added[i].route].pattern)
        BY <3>4 DEF EntryFits
      <4>2. Parameters(added[i].key) # {}
        BY <3>5, <4>1 DEF Stands
      <4> QED
        BY <3>1, <3>4, <4>2 DEF EntryFits
    <3>6. CASE Parameters(added[i].key) = {}
      <4>1. s.margs = <<>>
        BY <3>1, <3>6
      <4> QED
        BY <3>1, <3>2, <3>5, <3>6, <4>1
    <3>7. CASE Parameters(added[i].key) # {}
      <4>1. s.margs = Captures(added[i].key, match.ask.uri)
        BY <3>1, <3>7
      <4> QED
        BY <3>1, <3>2, <3>3, <3>5, <4>1
    <3> QED
      BY <3>6, <3>7
  <2> QED
    BY <1>4, <2>1, <2>2 DEF Answers
<1>6. /\ match' \in Match /\ match'.ask = match.ask /\ match'.route = s.route
      /\ match'.margs = s.margs
      /\ match'.phase \in {"missed", "found"}
  BY <1>1, <1>2, <1>5 DEF Match
<1>7. Types'
  BY <1>1, <1>6 DEF IInv, Types
<1>8. MatchFits(match', added', object')
  BY <1>1, <1>5, <1>6 DEF MatchFits, WordsOf, Found
<1>9. ArgsStandWhereDeclared'
  BY <1>6 DEF ArgsStandWhereDeclared
<1>10. MissingNameIsLater'
  BY <1>1 DEF IInv, MissingNameIsLater
<1> QED
  BY <1>1, <1>7, <1>8, <1>9, <1>10 DEF IInv
-----------------------------------------------------------------------------
(***************************************************************************)
(* The arguments.                                                          *)
(***************************************************************************)

\* The captures of a match that was found stand where the script declared
\* its parameters.
LEMMA CapturesStand ==
  ASSUME added \in Seq(Entry), EntriesFit(added, object, moved),
         NEW m \in Match, m.route \in Route, Found(m, added, object),
         Parameters(Declared[m.route].pattern) # {}
  PROVE  LET D == Declared[m.route].pattern IN
         /\ Len(m.margs) = Cardinality(Parameters(D))
         /\ \A i \in Parameters(D): m.margs[Rank(D, i)] = m.ask.uri[(Len(m.ask.uri) - Len(D)) + i]
<1> DEFINE D == Declared[m.route].pattern
<1>1. PICK e \in DOMAIN added:
        /\ added[e].route = m.route
        /\ Matches(added[e].key, m.ask.uri)
        /\ m.margs = Captures(added[e].key, m.ask.uri)
  BY DEF Found
<1>2. PICK key \in Seq(Segment): key = added[e].key
  BY EntryIs
<1>3. Stands(key, D) /\ D \in Seq(Segment)
  BY <1>1, <1>2, DeclaredIs DEF EntriesFit, EntryFits
<1>4. m.ask.uri \in Seq(Words)
  BY AskIs DEF Match
<1>5. /\ Len(m.margs) = Cardinality(Parameters(key))
      /\ \A i \in Parameters(key): m.margs[Rank(key, i)] = m.ask.uri[i]
  BY <1>1, <1>2, <1>4, CapturesAre
<1>6. Len(key) = Len(m.ask.uri)
  BY <1>1, <1>2 DEF Matches
<1>7. Cardinality(Parameters(key)) = Cardinality(Parameters(D))
      /\ \A i \in Parameters(D): Rank(key, Before(key, D) + i) = Rank(D, i)
  BY <1>3, ShiftedRank
<1>8. \A i \in Parameters(D): Before(key, D) + i \in Parameters(key)
  BY <1>3, BeforeIs
<1>9. ASSUME NEW i \in Parameters(D)
      PROVE  m.margs[Rank(D, i)] = m.ask.uri[(Len(m.ask.uri) - Len(D)) + i]
  BY <1>5, <1>6, <1>7, <1>8 DEF Before
<1> QED
  BY <1>5, <1>7, <1>9

LEMMA ArgumentsStand ==
  ASSUME Types, ObjectsFit(object, spent), EntriesFit(added, object, moved),
         NEW m \in Match, m.route \in Route, MatchFits(m, added, object),
         ~FetchFails(object[m.route], m.margs)
  PROVE  LET o    == object[m.route]
             args == [n \in DOMAIN o.params |-> Decode[m.margs[o.params[n]]]]
             uri  == m.ask.uri
             p    == Declared[m.route].pattern
         IN /\ args \in Arguments
            /\ DOMAIN args \subseteq {Lower[n]: n \in Names(p)}
            /\ \A n \in DOMAIN args: \E i \in DOMAIN uri: args[n] = Decode[uri[i]]
            /\ m.by = "find" =>
                 /\ DOMAIN args = {Lower[n]: n \in Names(p)}
                 /\ \A i \in Parameters(p): args[Lower[p[i][2]]] = Decode[uri[(Len(uri) - Len(p)) + i]]
<1> DEFINE o    == object[m.route]
           args == [n \in DOMAIN o.params |-> Decode[m.margs[o.params[n]]]]
           uri  == m.ask.uri
           D    == Declared[m.route].pattern
<1>1. RouteFits(m.route, o)
  BY DEF ObjectsFit
<1>2. /\ o \in Object /\ Stands(o.pattern, D) /\ D \in Seq(Segment) /\ o.pattern \in Seq(Segment)
      /\ o.params \in Params
  BY <1>1, DeclaredIs DEF RouteFits, Stands, Object
<1>3. uri \in Seq(Words) /\ m.margs \in Seq(Words)
  BY AskIs DEF Match
<1>4. \A j \in DOMAIN m.margs: \E i \in DOMAIN uri: m.margs[j] = uri[i]
  BY DEF MatchFits, WordsOf
<1>5. CASE ~HasParams(o)
  <2>1. DOMAIN o.params = {}
    BY <1>5 DEF HasParams
  <2>2. DOMAIN args = {}
    BY <2>1
  <2>3. args \in Arguments
    <3>1. args \in [{} -> Words] /\ {} \in SUBSET Words
      BY <2>1
    <3> QED
      BY <3>1 DEF Arguments
  <2>4. m.by = "find" => Parameters(D) = {}
    <3> SUFFICES ASSUME m.by = "find", Parameters(D) # {} PROVE FALSE
      OBVIOUS
    <3>1. Found(m, added, object)
      BY RoutesAssumption DEF MatchFits
    <3>2. o.done
      BY <3>1 DEF Found
    <3>3. Parameters(o.pattern) # {}
      BY <1>2 DEF Stands
    <3> QED
      BY <1>1, <1>5, <3>2, <3>3, HasParamsWhen
  <2>5. Parameters(D) = {} => {Lower[n]: n \in Names(D)} = {}
    BY DEF Names
  <2> HIDE DEF args
  <2> QED
    BY <2>2, <2>3, <2>4, <2>5 DEF args
<1>6. CASE HasParams(o)
  <2>1. /\ Len(m.margs) = Cardinality(DOMAIN o.params)
        /\ \A n \in DOMAIN o.params: ~ (o.params[n] > Len(m.margs))
    BY <1>6 DEF FetchFails
  <2>2. o.done /\ Parameters(o.pattern) # {} /\ Parameters(D) # {}
    <3>1. o.done /\ Parameters(o.pattern) # {}
      BY <1>1, <1>6, HasParamsWhen
    <3> QED
      BY <1>2, <3>1 DEF Stands
  <2>3. /\ Lowered(o.pattern, D) /\ DOMAIN o.params = Names(o.pattern)
        /\ \A n \in DOMAIN o.params: o.params[n] = Positions(o.pattern)[n]
    BY <1>1, <2>2 DEF RouteFits
  <2>4. PICK c \in Nat: c = Len(m.margs) /\ DOMAIN m.margs = 1..c
    BY <1>3
  <2>5. \A n \in DOMAIN o.params: o.params[n] \in 1..c
    <3> SUFFICES ASSUME NEW n \in DOMAIN o.params PROVE o.params[n] \in 1..c
      OBVIOUS
    <3>1. o.params[n] \in 1..Cardinality(Parameters(o.pattern))
      BY <1>2, <2>3, PositionsAre
    <3>2. ~ (o.params[n] > c)
      BY <2>1, <2>4
    <3> QED
      BY <1>2, <3>1, <3>2, ParametersAre
  <2>6. \A n \in DOMAIN o.params: \E i \in DOMAIN uri: m.margs[o.params[n]] = uri[i]
    BY <1>4, <2>4, <2>5
  <2>7. \A n \in DOMAIN args: \E i \in DOMAIN uri: args[n] = Decode[uri[i]]
    BY <2>6
  <2>8. DOMAIN args = {Lower[n]: n \in Names(D)}
    BY <1>2, <2>3, DistinctFromDeclared
  <2>9. args \in Arguments
    <3>1. DOMAIN o.params \in SUBSET Words
      BY <1>2, <2>3, NamesAre
    <3>2. \A n \in DOMAIN o.params: Decode[m.margs[o.params[n]]] \in Words
      BY <1>3, <2>4, <2>5, RoutesAssumption
    <3> QED
      BY <3>1, <3>2 DEF Arguments
  <2>10. ASSUME m.by = "find", NEW i \in Parameters(D)
         PROVE  args[Lower[D[i][2]]] = Decode[uri[(Len(uri) - Len(D)) + i]]
    <3>1. Found(m, added, object)
      BY <2>10, RoutesAssumption DEF MatchFits
    <3>2. /\ Len(m.margs) = Cardinality(Parameters(D))
          /\ m.margs[Rank(D, i)] = uri[(Len(uri) - Len(D)) + i]
      BY <2>2, <3>1, CapturesStand DEF Types
    <3>3. Cardinality(Names(o.pattern)) = Cardinality(Parameters(o.pattern))
      BY <1>2, <2>1, <2>3, <3>2, ShiftedRank
    <3>4. Distinct(o.pattern)
      BY <1>2, <3>3, NamesCount
    <3> DEFINE j == Before(o.pattern, D) + i
    <3>5. /\ j \in Parameters(o.pattern) /\ Rank(o.pattern, j) = Rank(D, i)
          /\ o.pattern[j][2] = Lower[D[i][2]]
      BY <1>2, <2>3, BeforeIs, ShiftedRank DEF Lowered
    <3>6. Positions(o.pattern)[o.pattern[j][2]] = Rank(o.pattern, j)
      BY <1>2, <3>4, <3>5, PositionsAre DEF Distinct
    <3>7. Lower[D[i][2]] \in DOMAIN o.params
      BY <1>2, <2>3, <3>5, NamesAre
    <3>8. o.params[Lower[D[i][2]]] = Rank(D, i)
      BY <2>3, <3>5, <3>6, <3>7
    <3> QED
      BY <3>2, <3>7, <3>8
  <2> HIDE DEF args
  <2> QED
    BY <2>7, <2>8, <2>9, <2>10 DEF args
<1> QED
  BY <1>5, <1>6

ArgsStand(uri, r, args, by) ==
  LET p   == Declared[r].pattern
      off == Len(uri) - Len(p)
  IN /\ DOMAIN args \subseteq {Lower[n]: n \in Names(p)}
     /\ \A n \in DOMAIN args: \E i \in DOMAIN uri: args[n] = Decode[uri[i]]
     /\ by = "find" =>
          /\ DOMAIN args = {Lower[n]: n \in Names(p)}
          /\ \A i \in Parameters(p): args[Lower[p[i][2]]] = Decode[uri[off + i]]

LEMMA ArgsStandIs ==
  ASSUME ArgsStand(match'.ask.uri, match'.route, match'.args, match'.by)
  PROVE  ArgsStandWhereDeclared'
BY DEF ArgsStand, ArgsStandWhereDeclared

LEMMA PrepareFits ==
  ASSUME IInv, NEW m \in Match, m.route \in Route, MatchFits(m, added, object), Prepare(m)
  PROVE  IInv'
<1> DEFINE o    == object[m.route]
           args == [n \in DOMAIN o.params |-> Decode[m.margs[o.params[n]]]]
<1>1. /\ prefix' = prefix /\ fixed' = fixed /\ vary' = vary /\ index' = index
      /\ requests' = requests /\ added' = added /\ indexed' = indexed /\ moved' = moved
  BY DEF Prepare
<1>2. /\ Types /\ ObjectsFit(object, spent) /\ EntriesFit(added, object, moved)
  BY DEF IInv
<1>3. MissingNameIsLater'
  BY <1>1 DEF IInv, MissingNameIsLater
<1>4. CASE FetchFails(o, m.margs)
  <2>1. match' = [m EXCEPT !.phase = "refused"] /\ object' = object /\ spent' = spent
    BY <1>4 DEF Prepare
  <2>2. /\ match' \in Match /\ match'.phase = "refused" /\ match'.route = m.route
        /\ match'.margs = m.margs /\ match'.ask = m.ask /\ match'.by = m.by
    BY <2>1 DEF Match
  <2>3. Types'
    BY <1>1, <1>2, <2>1, <2>2 DEF Types
  <2>4. MatchFits(match', added', object')
    BY <1>1, <2>1, <2>2 DEF MatchFits, WordsOf, Found
  <2>5. ArgsStandWhereDeclared'
    BY <2>2 DEF ArgsStandWhereDeclared
  <2> QED
    BY <1>1, <1>3, <2>1, <2>3, <2>4, <2>5 DEF IInv
<1>5. CASE ~FetchFails(o, m.margs)
  <2>1. /\ match' = [m EXCEPT !.phase = "prepared", !.args = args]
        /\ object' = [object EXCEPT ![m.route].used = HasParams(o)]
        /\ spent' = IF HasParams(o) THEN spent \cup {m.route} ELSE spent
    BY <1>5 DEF Prepare
  <2>2. LET uri == m.ask.uri
            p   == Declared[m.route].pattern
        IN /\ args \in Arguments
           /\ DOMAIN args \subseteq {Lower[n]: n \in Names(p)}
           /\ \A n \in DOMAIN args: \E i \in DOMAIN uri: args[n] = Decode[uri[i]]
           /\ m.by = "find" =>
                /\ DOMAIN args = {Lower[n]: n \in Names(p)}
                /\ \A i \in Parameters(p): args[Lower[p[i][2]]] = Decode[uri[(Len(uri) - Len(p)) + i]]
    BY <1>2, <1>5, ArgumentsStand
  <2>3. o \in Object /\ RouteFits(m.route, o) /\ HasParams(o) \in BOOLEAN
    BY <1>2 DEF ObjectsFit, RouteFits, HasParams
  <2> DEFINE u == [o EXCEPT !.used = HasParams(o)]
  <2>4. /\ u \in Object /\ u.pattern = o.pattern /\ u.done = o.done /\ u.params = o.params
        /\ u.used = HasParams(o)
    BY <2>3 DEF Object
  <2>5. /\ object' = [object EXCEPT ![m.route] = u]
    BY <2>1
  <2> HIDE DEF u, args
  <2>6. /\ object' \in [Route -> Object] /\ object'[m.route] = u
        /\ \A r \in Route: r # m.route => object'[r] = object[r]
    BY <1>2, <2>4, <2>5 DEF Types
  <2>7. /\ match' \in Match /\ match'.phase = "prepared" /\ match'.route = m.route
        /\ match'.margs = m.margs /\ match'.ask = m.ask /\ match'.by = m.by /\ match'.args = args
    BY <2>1, <2>2 DEF Match
  <2>8. Types'
    <3>1. spent' \subseteq Route
      BY <1>2, <2>1 DEF Types
    <3> QED
      BY <1>1, <1>2, <2>6, <2>7, <3>1 DEF Types
  <2>9. ObjectsFit(object', spent')
    <3> SUFFICES ASSUME NEW r \in Route
                 PROVE  RouteFits(r, object'[r]) /\ (object'[r].used => r \in spent')
      BY DEF ObjectsFit
    <3>1. CASE r = m.route
      <4>1. RouteFits(r, u)
        BY <2>3, <2>4, <3>1 DEF RouteFits
      <4> QED
        BY <2>1, <2>4, <2>6, <3>1, <4>1
    <3>2. CASE r # m.route
      BY <1>2, <2>1, <2>6, <3>2 DEF ObjectsFit
    <3> QED
      BY <3>1, <3>2
  <2>10. \A r \in Route: (object'[r].done <=> object[r].done) /\ KeyOf(object'[r]) = KeyOf(object[r])
    BY <2>4, <2>6 DEF KeyOf, HasParams
  <2>11. added \in Seq(Entry)
    BY <1>2 DEF Types
  <2>12. EntriesFit(added', object', moved')
    <3>1. \A i \in DOMAIN added: added[i].route \in Route
      BY <2>11, EntryIs
    <3>2. EntriesFit(added, object', moved)
      BY <1>2, <2>10, <2>11, <3>1, EntriesStay
    <3> QED
      BY <1>1, <3>2
  <2>13. MatchFits(match', added', object')
    <3>1. MatchFits(m, added, object')
      BY <2>10, <2>11, MatchStays
    <3> QED
      BY <1>1, <2>7, <3>1 DEF MatchFits, WordsOf, Found
  <2>14. ArgsStandWhereDeclared'
    <3>1. ArgsStand(m.ask.uri, m.route, args, m.by)
      BY <2>2 DEF ArgsStand
    <3>2. ArgsStand(match'.ask.uri, match'.route, match'.args, match'.by)
      BY <2>7, <3>1
    <3> QED
      BY <3>2, ArgsStandIs
  <2> QED
    BY <1>1, <1>3, <2>8, <2>9, <2>12, <2>13, <2>14 DEF IInv
<1> QED
  BY <1>4, <1>5

LEMMA PrepareCallFits == ASSUME IInv, PrepareCall PROVE IInv'
<1>1. match \in Match /\ match.route \in Route /\ MatchFits(match, added, object)
  BY DEF IInv, Types, PrepareCall, Match
<1> QED
  BY <1>1, PrepareFits DEF PrepareCall

LEMMA SetRouteFits == ASSUME IInv, NEW r \in Route, SetRoute(r) PROVE IInv'
<1> DEFINE m == [match EXCEPT !.route = r, !.by = "set"]
<1>1. match \in Match /\ MatchFits(match, added, object)
  BY DEF IInv, Types
<1>2. /\ m \in Match /\ m.route = r /\ m.by = "set" /\ m.margs = match.margs /\ m.ask = match.ask
  BY <1>1 DEF Match
<1>3. Prepare(m)
  BY DEF SetRoute
<1> HIDE DEF m
<1>4. MatchFits(m, added, object)
  BY <1>1, <1>2 DEF MatchFits, WordsOf
<1> QED
  BY <1>2, <1>3, <1>4, PrepareFits

LEMMA StepFits == ASSUME IInv, [Next]_vars PROVE IInv'
<1>1. ASSUME NEW r \in Route, AddRoute(r) PROVE IInv'
  <2>1. prefix \in PrefixWords \cup {None} /\ prefix' = prefix
    BY <1>1 DEF IInv, Types, AddRoute
  <2> QED
    BY <1>1, <2>1, AddFits DEF AddRoute
<1>2. ASSUME NEW r \in OwnCompile, Compile(r) PROVE IInv'
  BY <1>2, CompileFits, RoutesAssumption
<1>3. ASSUME NEW r \in OwnChoice, SetRoute(r) PROVE IInv'
  BY <1>3, SetRouteFits, RoutesAssumption
<1>4. ASSUME NEW r \in Route, NEW pre \in PrefixWords \cup {None}, AddRoutes(pre, r) PROVE IInv'
  <2>1. prefix' \in PrefixWords \cup {None}
    BY <1>4 DEF AddRoutes
  <2>2. CASE Add(pre, r)
    BY <2>1, <2>2, AddFits
  <2>3. CASE UNCHANGED <<object, fixed, vary, index, match, requests, ghosts>>
    BY <2>1, <2>3, LeftOutFits
  <2> QED
    BY <1>4, <2>2, <2>3 DEF AddRoutes
<1>5. ASSUME NEW ask \in Asks, NewMatch(ask) PROVE IInv'
  BY <1>5, NewMatchFits
<1>6. CASE GetRoute
  BY <1>6, GetRouteFits
<1>7. CASE FindRoute
  BY <1>7, FindRouteFits
<1>8. CASE PrepareCall
  BY <1>8, PrepareCallFits
<1>9. CASE NextRequest
  BY <1>9, NextRequestFits
<1>10. CASE UNCHANGED vars
  BY <1>10, StutterFits
<1> QED
  BY <1>1, <1>2, <1>3, <1>4, <1>5, <1>6, <1>7, <1>8, <1>9, <1>10 DEF Next

\* The parts of the invariant, for every step of the set and of a match
\* (route_set.cpp, route_match.cpp).
THEOREM Invariance == Spec => []IInv
BY InitFits, StepFits, PTL DEF Spec
-----------------------------------------------------------------------------
(***************************************************************************)
(* What follows.                                                           *)
(***************************************************************************)

\* Every variable has its type, for any routes, words and bounds
\* (route_set.cpp, route.cpp and route_match.cpp: what their members hold).
THEOREM TypeCorrect == Spec => []TypeOK
<1>1. ASSUME IInv PROVE TypeOK
  <2>0. Types /\ ObjectsFit(object, spent)
    BY <1>1 DEF IInv
  <2>1. ASSUME NEW r \in Route
        PROVE  /\ DOMAIN object[r] = {"pattern", "done", "params", "used"}
               /\ object[r].pattern \in Seq(Segment)
               /\ object[r].done \in BOOLEAN /\ object[r].used \in BOOLEAN
               /\ \A n \in DOMAIN object[r].params:
                    n \in Words /\ object[r].params[n] \in 1..Len(object[r].pattern)
    <3>1. object[r] \in Object /\ RouteFits(r, object[r])
      BY <2>0 DEF ObjectsFit, RouteFits
    <3>2. /\ DOMAIN object[r] = {"pattern", "done", "params", "used"}
          /\ object[r].pattern \in Seq(Segment)
          /\ object[r].done \in BOOLEAN /\ object[r].used \in BOOLEAN
      BY <3>1 DEF Object
    <3>3. ASSUME NEW n \in DOMAIN object[r].params
          PROVE  n \in Words /\ object[r].params[n] \in 1..Len(object[r].pattern)
      <4>1. object[r].done /\ n \in Names(object[r].pattern)
            /\ object[r].params[n] = Positions(object[r].pattern)[n]
        BY <3>1, <3>2, <3>3 DEF RouteFits
      <4>2. object[r].params[n] \in 1..Cardinality(Parameters(object[r].pattern))
        BY <3>2, <4>1, PositionsAre
      <4>3. n \in Words
        BY <3>2, <4>1, NamesAre
      <4> QED
        BY <3>2, <4>2, <4>3, ParametersAre
    <3> QED
      BY <3>2, <3>3
  <2>2. /\ match.ask \in Asks /\ match.route \in Route \cup {None}
        /\ match.margs \in Seq(Words) /\ match.by \in {"none", "find", "set"}
        /\ match.phase \in {"new", "found", "missed", "prepared", "refused"}
    BY <2>0 DEF Types, Match
  <2>3. fixed \in Groups /\ vary \in Groups
    BY <1>1 DEF IInv, Grouped
  <2> QED
    BY <1>1, <2>0, <2>1, <2>2, <2>3 DEF TypeOK, Types, IInv
<1> QED
  BY <1>1, Invariance, PTL

\* The arguments of a route that was found stand in the URI where its script
\* declared them, and those of a route that was set are words of the URI
\* (fetchArgs, route_match.cpp 250, 591).
THEOREM ArgumentsAreInPlace == Spec => []ArgsStandWhereDeclared
<1>1. IInv => ArgsStandWhereDeclared
  BY DEF IInv
<1> QED
  BY <1>1, Invariance, PTL

\* The index of names leads to routes of the set, and misses only what was
\* added after it was made (getRoute, route_set.cpp 252).
THEOREM TheIndexMissesWhatIsLater == Spec => []MissingNameIsLater
<1>1. IInv => MissingNameIsLater
  BY DEF IInv
<1> QED
  BY <1>1, Invariance, PTL

LEMMA SearchedSteps ==
  ASSUME IInv, [Next]_vars, match' # match
  PROVE  /\ FindRoute \/ match'.phase \in {"new", "prepared", "refused"}
         /\ match'.phase = "refused" /\ match'.by = "find" =>
              PrepareCall /\ match'.route = match.route /\ match.by = "find"
<1>0. match \in Match
  BY DEF IInv, Types
<1>1. ASSUME NEW r \in Route, NEW pre, Add(pre, r) PROVE FALSE
  BY <1>1 DEF Add
<1>2. ASSUME NEW m \in Match, Prepare(m)
      PROVE  match'.phase \in {"prepared", "refused"} /\ match'.route = m.route /\ match'.by = m.by
  BY <1>2 DEF Prepare, Match
<1>3. ASSUME NEW r \in Route, SetRoute(r)
      PROVE  match'.phase \in {"prepared", "refused"} /\ match'.by = "set"
  <2> DEFINE m == [match EXCEPT !.route = r, !.by = "set"]
  <2>1. m \in Match /\ m.by = "set"
    BY <1>0 DEF Match
  <2>2. Prepare(m)
    BY <1>3 DEF SetRoute
  <2> HIDE DEF m
  <2> QED
    BY <1>2, <2>1, <2>2
<1>4. ASSUME PrepareCall
      PROVE  /\ match'.phase \in {"prepared", "refused"}
             /\ match'.route = match.route /\ match'.by = match.by
  BY <1>0, <1>2, <1>4 DEF PrepareCall
<1>5. ASSUME FindRoute PROVE match'.phase \in {"found", "missed"}
  BY <1>0, <1>5 DEF FindRoute, Match
<1>6. ASSUME NEW ask \in Asks, NewMatch(ask) PROVE match'.phase = "new"
  BY <1>6, NewMatchIs DEF NewMatch
<1>7. ASSUME NextRequest PROVE match'.phase = "new"
  BY <1>7, NewMatchIs DEF NextRequest
<1>8. ASSUME NEW r \in Route, AddRoute(r) PROVE FALSE
  BY <1>1, <1>8 DEF AddRoute
<1>9. ASSUME NEW r \in Route, NEW pre, AddRoutes(pre, r) PROVE FALSE
  BY <1>1, <1>9 DEF AddRoutes
<1>10. ASSUME NEW r \in OwnCompile, Compile(r) PROVE FALSE
  BY <1>10 DEF Compile
<1>11. ASSUME GetRoute PROVE FALSE
  BY <1>11 DEF GetRoute
<1>12. ~ UNCHANGED vars
  BY DEF vars
<1>13. Next
  BY <1>12
<1>14. CASE \E r \in OwnChoice: SetRoute(r)
  BY <1>3, <1>14, RoutesAssumption
<1>15. CASE PrepareCall
  BY <1>4, <1>15
<1>16. CASE FindRoute
  BY <1>5, <1>16
<1>17. CASE \E ask \in Asks: NewMatch(ask)
  BY <1>6, <1>17
<1>18. CASE NextRequest
  BY <1>7, <1>18
<1> QED
  BY <1>8, <1>9, <1>10, <1>11, <1>13, <1>14, <1>15, <1>16, <1>17, <1>18 DEF Next

\* A route that was found is refused its arguments only when two of its
\* parameters have one name or a match has used the route before
\* (fetchArgs, route_match.cpp 825).
THEOREM RefusalHasACause == Spec => RefusedHasCause
<1>1. ASSUME IInv, [Next]_vars, match' # match, match'.phase = "refused", match'.by = "find"
      PROVE  LET p == Declared[match'.route].pattern IN
             \/ match'.route \in spent
             \/ \E i, j \in Parameters(p): i # j /\ Lower[p[i][2]] = Lower[p[j][2]]
  <2>1. PrepareCall /\ match'.route = match.route /\ match.by = "find"
    BY <1>1, SearchedSteps
  <2>2. /\ Types /\ ObjectsFit(object, spent) /\ EntriesFit(added, object, moved)
        /\ MatchFits(match, added, object) /\ match \in Match
    BY <1>1 DEF IInv, Types
  <2>3. match.route \in Route
    BY <2>1, <2>2 DEF PrepareCall, Match
  <2> DEFINE o == object[match.route]
             D == Declared[match.route].pattern
  <2>4. FetchFails(o, match.margs)
    <3> SUFFICES ASSUME ~FetchFails(o, match.margs) PROVE FALSE
      OBVIOUS
    <3>1. match' = [match EXCEPT !.phase = "prepared",
                      !.args = [n \in DOMAIN o.params |-> Decode[match.margs[o.params[n]]]]]
      BY <2>1 DEF PrepareCall, Prepare
    <3>2. match'.phase = "prepared"
      BY <2>2, <3>1 DEF Match
    <3> QED
      BY <1>1, <3>2
  <2>5. RouteFits(match.route, o) /\ (o.used => match.route \in spent)
    BY <2>2, <2>3 DEF ObjectsFit
  <2>6. /\ Stands(o.pattern, D) /\ D \in Seq(Segment) /\ o.pattern \in Seq(Segment)
    BY <2>3, <2>5, DeclaredIs DEF RouteFits, Stands
  <2>7. o.done /\ Parameters(o.pattern) # {} /\ Parameters(D) # {}
    <3>1. o.done /\ Parameters(o.pattern) # {}
      BY <2>3, <2>4, <2>5, HasParamsWhen DEF FetchFails
    <3> QED
      BY <2>6, <3>1 DEF Stands
  <2>8. /\ Lowered(o.pattern, D) /\ DOMAIN o.params = Names(o.pattern)
        /\ \A n \in DOMAIN o.params: o.params[n] = Positions(o.pattern)[n]
    BY <2>5, <2>7 DEF RouteFits
  <2>9. Len(match.margs) = Cardinality(Parameters(o.pattern))
    <3>1. Found(match, added, object)
      BY <2>1, <2>2 DEF MatchFits, PrepareCall
    <3>2. Len(match.margs) = Cardinality(Parameters(D))
      BY <2>2, <2>3, <2>7, <3>1, CapturesStand DEF Types
    <3> QED
      BY <2>6, <3>2, ShiftedRank
  <2>10. \A n \in DOMAIN o.params: ~ (o.params[n] > Len(match.margs))
    <3> SUFFICES ASSUME NEW n \in DOMAIN o.params PROVE ~ (o.params[n] > Len(match.margs))
      OBVIOUS
    <3>1. o.params[n] \in 1..Cardinality(Parameters(o.pattern))
      BY <2>6, <2>8, PositionsAre
    <3> QED
      BY <2>6, <2>9, <3>1, ParametersAre
  <2>11. CASE o.used
    BY <2>1, <2>5, <2>11
  <2>12. CASE ~o.used
    <3>1. Cardinality(Names(o.pattern)) # Cardinality(Parameters(o.pattern))
      BY <2>4, <2>8, <2>9, <2>10, <2>12 DEF FetchFails
    <3>2. ~Distinct(o.pattern)
      BY <2>6, <3>1, NamesCount
    <3>3. ~ (\A i, j \in Parameters(D): Lower[D[i][2]] = Lower[D[j][2]] => i = j)
      BY <2>6, <2>8, <3>2, DistinctFromDeclared
    <3> QED
      BY <2>1, <3>3
  <2> QED
    BY <2>11, <2>12
<1>2. ASSUME IInv, [Next]_vars
      PROVE  [match'.phase = "refused" /\ match' # match /\ match'.by = "find" =>
                LET p == Declared[match'.route].pattern IN
                \/ match'.route \in spent
                \/ \E i, j \in Parameters(p): i # j /\ Lower[p[i][2]] = Lower[p[j][2]]]_vars
  BY <1>1, <1>2
<1> QED
  BY <1>2, Invariance, PTL DEF Spec, RefusedHasCause

LEMMA TheBestIsOne ==
  ASSUME added \in Seq(Entry), NEW i \in DOMAIN added, NEW j \in DOMAIN added, Better(i, j), Better(j, i)
  PROVE  i = j
<1> DEFINE oi == Parameters(added[i].key) # {}
           oj == Parameters(added[j].key) # {}
<1>1. PICK x \in Nat: x = First(i)
  BY FirstIs
<1>2. PICK y \in Nat: y = First(j)
  BY FirstIs
<1>3. (~oi /\ oj) \/ ((oi <=> oj) /\ x < y) \/ ((oi <=> oj) /\ x = y /\ i <= j)
  BY <1>1, <1>2, BetterIs
<1>4. (~oj /\ oi) \/ ((oj <=> oi) /\ y < x) \/ ((oj <=> oi) /\ y = x /\ j <= i)
  BY <1>1, <1>2, BetterIs
<1>5. i \in Nat /\ j \in Nat
  OBVIOUS
<1> HIDE DEF oi, oj
<1>6. x = y /\ i <= j /\ j <= i
  BY <1>3, <1>4
<1> QED
  BY <1>5, <1>6

\* What a search finds is what the order of the additions says, also in a set
\* that was stored and read (findRoute, route_match.cpp 229;
\* route_set.cpp 324).
THEOREM TheFirstIsFound == Spec => FindsTheFirst
<1>1. ASSUME IInv, [Next]_vars, match'.phase \in {"found", "missed"}, match' # match
      PROVE  match'.route = Wanted(match.ask)
  <2>1. FindRoute
    BY <1>1, SearchedSteps
  <2>2. match \in Match /\ added \in Seq(Entry)
    BY <1>1 DEF IInv, Types
  <2> DEFINE s == Search(match.ask, match.margs)
  <2>3. match'.route = s.route
    BY <2>1, <2>2 DEF FindRoute, Match
  <2>4. match.ask \in Asks
    BY <2>2 DEF Match
  <2>5. Answers(s, match.ask, match.margs)
    BY <1>1, <2>2, <2>4, AskIs, SearchAnswers DEF IInv
  <2> DEFINE fit == {i \in DOMAIN added: Suits(i, match.ask)}
  <2>6. Wanted(match.ask) = IF fit = {} THEN None
                            ELSE added[CHOOSE i \in fit: \A j \in fit: Better(i, j)].route
    BY DEF Wanted, Suits
  <2> HIDE DEF s
  <2>7. CASE s = [route |-> None, margs |-> match.margs] /\ \A j \in DOMAIN added: ~Suits(j, match.ask)
    <3>1. fit = {}
      BY <2>7
    <3> QED
      BY <2>3, <2>6, <2>7, <3>1
  <2>8. CASE \E i \in DOMAIN added: /\ Suits(i, match.ask)
                                    /\ \A j \in DOMAIN added: Suits(j, match.ask) => Better(i, j)
                                    /\ s.route = added[i].route
    <3>1. PICK i \in fit: (\A j \in fit: Better(i, j)) /\ s.route = added[i].route
      BY <2>8
    <3>2. PICK b: b = CHOOSE x \in fit: \A j \in fit: Better(x, j)
      OBVIOUS
    <3>3. b \in fit /\ \A j \in fit: Better(b, j)
      BY <3>1, <3>2
    <3>4. b = i
      BY <2>2, <3>1, <3>3, TheBestIsOne
    <3> QED
      BY <2>3, <2>6, <3>1, <3>2, <3>4
  <2> QED
    BY <2>5, <2>7, <2>8 DEF Answers
<1>2. ASSUME IInv, [Next]_vars
      PROVE  [match'.phase \in {"found", "missed"} /\ match' # match
                => match'.route = Wanted(match.ask)]_vars
  BY <1>1, <1>2
<1> QED
  BY <1>2, Invariance, PTL DEF Spec, FindsTheFirst
-----------------------------------------------------------------------------
(***************************************************************************)
(* The URL of a route.                                                     *)
(***************************************************************************)
LEMMA FlattenedOne ==
  ASSUME NEW ss, Len(ss) = 1
  PROVE  FlattenSeq(ss) = ss[1]
<1> DEFINE f == CHOOSE f: Joins(f, ss, 1)
<1>1. FlattenSeq(ss) = f[1]
  BY FlattenedIs
<1>2. Joins(f, ss, 1)
  BY JoinsExist
<1> HIDE DEF f
<1>3. f[1] = ss[1]
  BY <1>2 DEF Joins
<1> QED
  BY <1>1, <1>3

LEMMA BothParts ==
  ASSUME NEW T, NEW c \in Seq(T), NEW b \in Seq(T), NEW z, z = Len(c), NEW y, y = Len(b)
  PROVE  /\ c \o b \in Seq(T) /\ Len(c \o b) = z + y
         /\ \A k \in 1..z: (c \o b)[k] = c[k]
         /\ \A k \in 1..y: (c \o b)[z + k] = b[k]
OBVIOUS

LEMMA OneAfter ==
  ASSUME NEW T, NEW a \in Seq(T), NEW v \in T, NEW x, x = Len(a)
  PROVE  /\ a \o <<v>> \in Seq(T) /\ Len(a \o <<v>>) = x + 1 /\ (a \o <<v>>)[x + 1] = v
         /\ \A k \in 1..x: (a \o <<v>>)[k] = a[k]
OBVIOUS

LEMMA AroundOne ==
  ASSUME NEW T, NEW a \in Seq(T), NEW v \in T, NEW b \in Seq(T),
         NEW x \in Nat, x = Len(a), NEW y \in Nat, y = Len(b)
  PROVE  LET w == a \o <<v>> \o b IN
         /\ w \in Seq(T) /\ Len(w) = (x + 1) + y /\ w[x + 1] = v
         /\ \A k \in 1..x: w[k] = a[k]
         /\ \A k \in 1..y: w[(x + 1) + k] = b[k]
<1>1. PICK c: c = a \o <<v>>
  OBVIOUS
<1>2. c \in Seq(T) /\ Len(c) = x + 1 /\ c[x + 1] = v /\ \A k \in 1..x: c[k] = a[k]
  BY <1>1, OneAfter
<1>3. /\ c \o b \in Seq(T) /\ Len(c \o b) = (x + 1) + y
      /\ \A k \in 1..(x + 1): (c \o b)[k] = c[k]
      /\ \A k \in 1..y: (c \o b)[(x + 1) + k] = b[k]
  <2>1. PICK z: z = x + 1
    OBVIOUS
  <2>2. c \in Seq(T) /\ z = Len(c)
    BY <1>2, <2>1
  <2>3. /\ c \o b \in Seq(T) /\ Len(c \o b) = z + y
        /\ \A k \in 1..z: (c \o b)[k] = c[k]
        /\ \A k \in 1..y: (c \o b)[z + k] = b[k]
    BY <2>2, BothParts
  <2> QED
    BY <2>1, <2>3
<1>4. x + 1 \in 1..(x + 1) /\ \A k \in 1..x: k \in 1..(x + 1)
  OBVIOUS
<1>5. PICK w: w = c \o b
  OBVIOUS
<1>6. w[x + 1] = v /\ \A k \in 1..x: w[k] = a[k]
  BY <1>2, <1>3, <1>4, <1>5
<1>7. w = a \o <<v>> \o b
  BY <1>1, <1>5
<1> QED
  BY <1>3, <1>5, <1>6, <1>7

LEMMA Replaced ==
  ASSUME NEW text \in Seq(Words), NEW i \in 1..Len(text), NEW v \in Words
  PROVE  LET w == SubSeq(text, 1, i - 1) \o <<v>> \o SubSeq(text, i + 1, Len(text)) IN
         /\ w \in Seq(Words) /\ Len(w) = Len(text) /\ w[i] = v
         /\ \A k \in 1..Len(text): k # i => w[k] = text[k]
<1>1. PICK n \in Nat: n = Len(text) /\ DOMAIN text = 1..n
  OBVIOUS
<1>2. PICK a \in Seq(Words): a = SubSeq(text, 1, i - 1) /\ Len(a) = i - 1
        /\ \A k \in 1..(i - 1): a[k] = text[k]
  <2>1. /\ SubSeq(text, 1, i - 1) \in Seq(Words) /\ Len(SubSeq(text, 1, i - 1)) = i - 1
        /\ \A k \in 1..(i - 1): SubSeq(text, 1, i - 1)[k] = text[k]
    BY <1>1, SubSeqProperties
  <2> QED
    BY <2>1
<1>3. PICK b \in Seq(Words): b = SubSeq(text, i + 1, n) /\ Len(b) = n - i
        /\ \A k \in 1..(n - i): b[k] = text[i + k]
  <2>1. /\ SubSeq(text, i + 1, n) \in Seq(Words) /\ Len(SubSeq(text, i + 1, n)) = n - i
        /\ \A k \in 1..(n - i): SubSeq(text, i + 1, n)[k] = text[i + k]
    BY <1>1, SubSeqProperties
  <2> QED
    BY <2>1
<1>4. PICK x \in Nat: x = i - 1 /\ x = Len(a) /\ i = x + 1
  BY <1>1, <1>2
<1>5. PICK y \in Nat: y = n - i /\ y = Len(b) /\ n = (x + 1) + y
  <2>1. i \in 1..n /\ Len(b) = n - i
    BY <1>1, <1>3
  <2>2. n - i \in Nat /\ n = i + (n - i)
    BY <2>1
  <2>3. PICK y \in Nat: y = n - i /\ n = i + y
    BY <2>2
  <2>4. i = x + 1
    BY <1>4
  <2> QED
    BY <2>1, <2>3, <2>4
<1>6. PICK w: w = a \o <<v>> \o b
  OBVIOUS
<1>7. w \in Seq(Words) /\ Len(w) = n /\ w[i] = v /\ (\A k \in 1..(i - 1): w[k] = text[k])
      /\ \A k \in 1..(n - i): w[i + k] = text[i + k]
  <2>1. /\ w \in Seq(Words) /\ Len(w) = (x + 1) + y /\ w[x + 1] = v
        /\ \A k \in 1..x: w[k] = a[k]
        /\ \A k \in 1..y: w[(x + 1) + k] = b[k]
    <3>1. a \in Seq(Words) /\ b \in Seq(Words) /\ x \in Nat /\ x = Len(a) /\ y \in Nat /\ y = Len(b)
      BY <1>2, <1>3, <1>4, <1>5
    <3> DEFINE u == a \o <<v>> \o b
    <3>2. /\ u \in Seq(Words) /\ Len(u) = (x + 1) + y /\ u[x + 1] = v
          /\ \A k \in 1..x: u[k] = a[k]
          /\ \A k \in 1..y: u[(x + 1) + k] = b[k]
      BY ONLY <3>1, v \in Words, AroundOne, SMTT(30)
    <3> QED
      BY <1>6, <3>2
  <2> QED
    BY <1>2, <1>3, <1>4, <1>5, <2>1, ZenonT(40)
<1>8. ASSUME NEW k \in 1..n, k # i PROVE w[k] = text[k]
  <2>1. CASE k \in 1..(i - 1)
    BY <1>7, <2>1
  <2>2. CASE k \notin 1..(i - 1)
    <3>1. k - i \in 1..(n - i) /\ k = i + (k - i)
      BY <1>1, <1>8, <2>2
    <3>2. PICK l \in 1..(n - i): k = i + l
      BY <3>1
    <3> QED
      BY <1>7, <3>2
  <2> QED
    BY <2>1, <2>2
<1>9. w = SubSeq(text, 1, i - 1) \o <<v>> \o SubSeq(text, i + 1, Len(text))
  BY <1>1, <1>2, <1>3, <1>6
<1> QED
  BY <1>1, <1>7, <1>8, <1>9

(* The one hole of a pattern, where there is one.                          *)
LEMMA HolesAre ==
  ASSUME NEW p \in Seq(Segment), Cardinality(Holes(p)) <= 1
  PROVE  \/ Holes(p) = {}
         \/ \E i \in Parameters(p): /\ Holes(p) = {i} /\ Cardinality(Holes(p)) = 1
                                    /\ Hole(p, 1) = i /\ p[i][2] \in Fillable
<1>1. /\ Parameters(p) \subseteq Nat /\ IsFiniteSet(Parameters(p))
      /\ Holes(p) \subseteq Parameters(p)
  BY ParametersAre DEF Holes
<1>2. IsFiniteSet(Holes(p)) /\ Cardinality(Holes(p)) \in Nat
  BY <1>1, FS_Subset, FS_CardinalityType
<1>3. SUFFICES ASSUME Holes(p) # {}
               PROVE  \E i \in Parameters(p): /\ Holes(p) = {i} /\ Cardinality(Holes(p)) = 1
                                    /\ Hole(p, 1) = i /\ p[i][2] \in Fillable
  OBVIOUS
<1>4. Cardinality(Holes(p)) = 1
  <2>1. Cardinality(Holes(p)) # 0
    BY <1>2, <1>3, FS_EmptySet
  <2> QED
    BY <1>2, <2>1
<1>5. PICK i: Holes(p) = {i}
  BY <1>2, <1>4, FS_Singleton
<1>6. i \in Parameters(p) /\ i \in Nat /\ p[i][2] \in Fillable
  BY <1>1, <1>5 DEF Holes
<1>7. {k \in Holes(p): k <= i} = {i}
  BY <1>5, <1>6
<1>8. Cardinality({k \in Holes(p): k <= i}) = 1
  BY <1>7, FS_Singleton
<1>9. Hole(p, 1) = i
  BY <1>5, <1>8 DEF Hole
<1> QED
  BY <1>4, <1>5, <1>6, <1>9

(* What a URL has of the pattern and of the values.                        *)
Filled(p, values, url) ==
  /\ url \in Seq(Words) /\ Len(url) = Len(p)
  /\ \A k \in 1..Len(p): ~IsParameter(p[k]) => url[k] = p[k][2]
  /\ \A k \in Parameters(p): p[k][2] \in Fillable => url[k] = values[p[k][2]]

LEMMA UrlIs ==
  ASSUME NEW r \in Route, NEW o, RouteFits(r, o), o.done, Cardinality(Holes(o.pattern)) <= 1,
         NEW values \in [Names(o.pattern) \cap Fillable -> Given]
  PROVE  Filled(o.pattern, values, RouteUrl(o, values))
<1>1. PICK p \in Seq(Segment): p = o.pattern /\ Compiles(p)
  BY DEF RouteFits, Stands
<1>2. PICK n \in Nat: n = Len(p) /\ DOMAIN p = 1..n
  BY <1>1
<1>3. \A k \in 1..n: p[k] \in Segment /\ p[k][2] \in Words
  BY <1>1, <1>2, SegmentIs DEF Compiles
<1> DEFINE text == [i \in 1..n |-> IF IsParameter(p[i]) THEN Raw ELSE p[i][2]]
<1>4. text \in [1..n -> Words]
  BY <1>3, RoutesAssumption
<1>5. text \in Seq(Words) /\ Len(text) = n /\ DOMAIN text = 1..n
  BY <1>4
<1>6. \A k \in 1..n: ~IsParameter(p[k]) => text[k] = p[k][2]
  OBVIOUS
<1>7. HasParams(o) <=> Parameters(p) # {}
  BY <1>1, HasParamsWhen
<1>8. CASE Holes(p) = {}
  <2>1. RouteUrl(o, values) = text
    BY <1>1, <1>2, <1>8 DEF RouteUrl
  <2>2. \A k \in Parameters(p): p[k][2] \notin Fillable
    BY <1>8 DEF Holes
  <2> HIDE DEF text
  <2> QED
    BY <1>1, <1>2, <1>5, <1>6, <2>1, <2>2 DEF Filled
<1>9. CASE Holes(p) # {}
  <2>1. PICK i \in Parameters(p): /\ Holes(p) = {i} /\ Cardinality(Holes(p)) = 1
                                  /\ Hole(p, 1) = i /\ p[i][2] \in Fillable
    BY <1>1, <1>9, HolesAre
  <2>2. i = Hole(p, 1)
    BY <2>1
  <2>3. i \in Parameters(p) /\ i \in 1..n
    BY <1>1, <1>2, ParametersAre
  <2>4. \A k \in Parameters(p): p[k][2] \in Fillable => k = i
    BY <2>1 DEF Holes
  <2>5. PICK v \in Words: v = values[p[i][2]] /\ p[i][2] \in DOMAIN values
    BY <1>1, <2>1, NamesAre, RoutesAssumption
  <2> DEFINE from == [j \in 1..1 |-> IF j = 1 THEN 0 ELSE Hole(p, j - 1)]
             one  == SubSeq(text, 1, i - 1) \o <<v>> \o SubSeq(text, i + 1, n)
             ss   == [j \in DOMAIN from |->
                        SubSeq(text, from[j] + 1, Hole(p, j) - 1)
                          \o <<IF p[Hole(p, j)][2] \in DOMAIN values THEN values[p[Hole(p, j)][2]] ELSE Empty>>
                          \o SubSeq(text, Hole(p, j) + 1, Len(p))]
  <2>6. RouteUrl(o, values) = FlattenSeq(ss)
    BY <1>1, <1>2, <1>7, <1>9, <2>1, <2>3 DEF RouteUrl
  <2>7. DOMAIN from = 1..1 /\ from[1] = 0
    OBVIOUS
  <2> HIDE DEF from, text
  <2>8. Len(ss) = 1
    BY <2>7
  <2>9. ss[1] = one
    <3> DEFINE put == IF p[i][2] \in DOMAIN values THEN values[p[i][2]] ELSE Empty
    <3>1. put = v
      BY <2>5
    <3>2. ss[1] = SubSeq(text, from[1] + 1, Hole(p, 1) - 1)
                    \o <<IF p[Hole(p, 1)][2] \in DOMAIN values THEN values[p[Hole(p, 1)][2]] ELSE Empty>>
                    \o SubSeq(text, Hole(p, 1) + 1, Len(p))
      <4>1. 1 \in DOMAIN from
        BY <2>7
      <4> QED
        BY ONLY <4>1, Zenon
    <3>3. from[1] + 1 = 1
      BY <2>7
    <3> HIDE DEF ss
    <3>4. ss[1] = SubSeq(text, 1, i - 1) \o <<put>> \o SubSeq(text, i + 1, n)
      BY ONLY <1>2, <2>2, <3>2, <3>3, Zenon DEF put
    <3> HIDE DEF put
    <3> QED
      BY <3>1, <3>4
  <2> HIDE DEF ss
  <2>10. RouteUrl(o, values) = one
    BY <2>6, <2>8, <2>9, FlattenedOne
  <2>11. /\ one \in Seq(Words) /\ Len(one) = n /\ one[i] = v
         /\ \A k \in 1..n: k # i => one[k] = text[k]
    <3>1. text \in Seq(Words) /\ i \in 1..Len(text) /\ v \in Words /\ Len(text) = n
      BY <1>5, <2>3
    <3>2. one = SubSeq(text, 1, i - 1) \o <<v>> \o SubSeq(text, i + 1, Len(text))
      BY <3>1
    <3> HIDE DEF one
    <3> QED
      BY ONLY <3>1, <3>2, Replaced, ZenonT(40)
  <2> HIDE DEF one
  <2>12. \A k \in 1..n: ~IsParameter(p[k]) => one[k] = p[k][2]
    <3>1. IsParameter(p[i])
      BY <2>3 DEF Parameters
    <3> QED
      BY <1>6, <2>11, <3>1
  <2>13. \A k \in Parameters(p): p[k][2] \in Fillable => one[k] = values[p[k][2]]
    BY <2>4, <2>5, <2>11
  <2> QED
    BY <1>1, <1>2, <2>10, <2>11, <2>12, <2>13 DEF Filled
<1> QED
  BY <1>8, <1>9

\* The URL of a route with at most one hole leads to a route of the set, and
\* gives back the value that was put there, also when the route was used or
\* stored in between; a parameter whose name routeUrl does not know is no
\* hole (route_set.cpp 576, route.cpp 391).
THEOREM TheUrlLeadsBack == Spec => []UrlLeadsBack
<1>1. ASSUME IInv PROVE UrlLeadsBack
  <2> SUFFICES ASSUME NEW i \in DOMAIN added, object[added[i].route].done,
                      added[i].route \notin moved,
                      Cardinality(Holes(object[added[i].route].pattern)) <= 1,
                      NEW values \in [Names(object[added[i].route].pattern) \cap Fillable -> Given]
               PROVE  LET r   == added[i].route
                          o   == object[r]
                          url == RouteUrl(o, values)
                          ask == [uri |-> url, verbs |-> Declared[r].verbs, ajax |-> Declared[r].ajax]
                      IN /\ Fits(r, ask) => Search(ask, <<>>).route # None
                         /\ Matches(added[i].key, url)
                         /\ \A n \in DOMAIN values: Captures(added[i].key, url)[o.params[n]] = values[n]
    BY DEF UrlLeadsBack
  <2> DEFINE r   == added[i].route
             o   == object[r]
             url == RouteUrl(o, values)
             ask == [uri |-> url, verbs |-> Declared[r].verbs, ajax |-> Declared[r].ajax]
  <2>1. /\ added \in Seq(Entry) /\ ObjectsFit(object, spent) /\ EntriesFit(added, object, moved)
    BY <1>1 DEF IInv, Types
  <2>2. r \in Route /\ added[i].key \in Seq(Segment)
    BY <2>1, EntryIs
  <2>3. RouteFits(r, o)
    BY <2>1, <2>2 DEF ObjectsFit
  <2>4. PICK p \in Seq(Segment): p = o.pattern
    BY <2>3 DEF RouteFits, Stands
  <2>5. /\ url \in Seq(Words) /\ Len(url) = Len(p)
        /\ \A k \in 1..Len(p): ~IsParameter(p[k]) => url[k] = p[k][2]
        /\ \A k \in Parameters(p): p[k][2] \in Fillable => url[k] = values[p[k][2]]
    <3>1. o.done /\ Cardinality(Holes(o.pattern)) <= 1 /\ values \in [Names(o.pattern) \cap Fillable -> Given]
      OBVIOUS
    <3> HIDE DEF o
    <3>2. Filled(o.pattern, values, RouteUrl(o, values))
      <4> HIDE DEF r
      <4> QED
        BY ONLY <2>2, <2>3, <3>1, UrlIs
    <3> QED
      BY <2>4, <3>2 DEF Filled
  <2>6. PICK key \in Seq(Segment): key = added[i].key /\ key = IF HasParams(o) THEN Key(p) ELSE p
    BY <2>1, <2>2, <2>4 DEF EntriesFit, EntryFits, KeyOf
  <2>7. /\ Len(key) = Len(p) /\ Parameters(key) = Parameters(p)
        /\ \A k \in 1..Len(p): ~IsParameter(p[k]) => key[k] = p[k]
    BY <2>4, <2>6, KeyIs
  <2> HIDE DEF url
  <2>8. Matches(key, url)
    <3> SUFFICES ASSUME NEW k \in 1..Len(p) PROVE IsParameter(key[k]) \/ key[k][2] = url[k]
      <4>1. Len(key) = Len(url) /\ DOMAIN key = 1..Len(p)
        BY <2>5, <2>6, <2>7
      <4> QED
        BY <4>1, ZenonT(20) DEF Matches
    <3>1. CASE IsParameter(p[k])
      <4>1. k \in Parameters(key)
        BY <2>7, <3>1 DEF Parameters
      <4> QED
        BY <4>1 DEF Parameters
    <3>2. CASE ~IsParameter(p[k])
      BY <2>5, <2>7, <3>2
    <3> QED
      BY <3>1, <3>2
  <2>9. ASSUME NEW n \in DOMAIN values PROVE Captures(key, url)[o.params[n]] = values[n]
    <3>1. n \in Names(p) /\ n \in Fillable /\ o.params[n] = Positions(p)[n]
      BY <2>3, <2>4 DEF RouteFits
    <3>2. PICK k \in Parameters(p): p[k][2] = n /\ Positions(p)[n] = Rank(p, k)
      BY <3>1, PositionsAre
    <3>3. Rank(key, k) = Rank(p, k)
      BY <2>7 DEF Rank
    <3>4. Captures(key, url)[Rank(key, k)] = url[k]
      BY <2>5, <2>7, <2>8, <3>2, CapturesAre
    <3> QED
      BY <2>5, <3>1, <3>2, <3>3, <3>4
  <2>10. ASSUME Fits(r, ask) PROVE Search(ask, <<>>).route # None
    <3>1. ask.uri = url
      OBVIOUS
    <3>2. Suits(i, ask)
      BY <2>6, <2>8, <2>10, <3>1 DEF Suits
    <3>3. Answers(Search(ask, <<>>), ask, <<>>)
      BY <1>1, <2>1, <2>5, <3>1, SearchAnswers DEF IInv
    <3> HIDE DEF ask
    <3>4. PICK j \in DOMAIN added: Search(ask, <<>>).route = added[j].route
      BY <3>2, <3>3 DEF Answers
    <3>5. added[j].route \in Route
      BY <2>1, EntryIs
    <3> QED
      BY <3>4, <3>5, RoutesAssumption
  <2> QED
    BY <2>6, <2>8, <2>9, <2>10 DEF url
<1> QED
  BY <1>1, Invariance, PTL
=============================================================================
