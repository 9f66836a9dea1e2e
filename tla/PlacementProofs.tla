-------------------------- MODULE PlacementProofs --------------------------
(***************************************************************************)
(* The memory ledger of a node, for every finite set of instances, every   *)
(* size and budget and every bound on attempts, leases, restarts, timeouts *)
(* and deaths: the types, that what the gateway may route to is counted    *)
(* and fits the budget together with the loads under way, and what more    *)
(* the ledger and the engines keep up to the first restart.                *)
(*                                                                         *)
(* First what Bytes is on sets of instances and what the plans are as      *)
(* sequences; then the types; then, one variable after the other, what a   *)
(* step of the whole system may do to it (the ...Effect lemmas), from      *)
(* which the invariants follow without looking at the actions again.       *)
(***************************************************************************)
EXTENDS Placement, FiniteSetTheorems, SequenceTheorems, WellFoundedInduction, TLAPS

-----------------------------------------------------------------------------
(* Sums over sets of instances *)

(* A set of numbers has a least one. *)
LEMMA Least ==
    ASSUME NEW T \in SUBSET Nat, T # {}
    PROVE  \E x \in T : \A y \in T : x <= y
<1>1. PICK x \in T : \A y \in T : ~(<<y, x>> \in OpToRel(<, Nat))
  BY WFMin, NatLessThanWellFounded
<1>2. \A y \in T : ~(y < x)
  BY <1>1 DEF OpToRel
<1> QED BY <1>2

Pick(s) == CHOOSE x \in s : TRUE

(* What the recursion of the sum says of one set *)
SumAt(f, s) == f[s] = IF s = {} THEN 0 ELSE Size[Pick(s)] + f[s \ {Pick(s)}]
SumRule(f, S) ==
    f = [s \in SUBSET S |-> IF s = {} THEN 0
                            ELSE Size[Pick(s)] + f[s \ {Pick(s)}]]

(* Bytes is the value of a function that follows the recursion. *)
LEMMA BytesIs == ASSUME NEW S PROVE Bytes(S) = (CHOOSE f : SumRule(f, S))[S]
BY Zenon DEF Bytes, MapThenSumSet, MapThenFoldSet, SumRule, Pick

(* A set that is not empty loses one element with its choice. *)
LEMMA Smaller ==
    ASSUME NEW s \in SUBSET Instances
    PROVE  /\ IsFiniteSet(s) /\ Cardinality(s) \in Nat
           /\ Cardinality(s) = 0 <=> s = {}
           /\ Cardinality(s) <= Cardinality(Instances)
           /\ \A x \in s : /\ s \ {x} \in SUBSET Instances
                           /\ Cardinality(s \ {x}) = Cardinality(s) - 1
           /\ s # {} => Pick(s) \in s
<1>1. IsFiniteSet(Instances)
  BY PlacementAssumption
<1>2. IsFiniteSet(s) /\ Cardinality(s) <= Cardinality(Instances)
  BY <1>1, FS_Subset
<1>3. Cardinality(s) \in Nat
  BY <1>2, FS_CardinalityType
<1>4. Cardinality(s) = 0 <=> s = {}
  BY <1>2, FS_EmptySet
<1>5. \A x \in s : Cardinality(s \ {x}) = Cardinality(s) - 1
  BY <1>2, FS_RemoveElement
<1>6. s # {} => Pick(s) \in s
  BY DEF Pick
<1> QED BY <1>2, <1>3, <1>4, <1>5, <1>6

Small(n) == {s \in SUBSET Instances : Cardinality(s) <= n}

(* Some function follows the recursion on all sets of instances. *)
LEMMA SumExists ==
    \E f \in [SUBSET Instances -> Nat] :
        \A s \in SUBSET Instances : SumAt(f, s)
<1> DEFINE Good(n) == \E f \in [Small(n) -> Nat] : \A s \in Small(n) : SumAt(f, s)
           Bad == {n \in Nat : ~Good(n)}
<1>1. \A i \in Instances : Size[i] \in Nat
  BY PlacementAssumption
<1>2. Good(0)
  <2> DEFINE f == [s \in Small(0) |-> 0]
  <2>1. \A s \in Small(0) : s = {}
    BY Smaller DEF Small
  <2>2. f \in [Small(0) -> Nat] /\ \A s \in Small(0) : SumAt(f, s)
    BY <2>1 DEF SumAt
  <2> QED BY <2>2
<1>3. ASSUME NEW m \in Nat, m # 0, Good(m - 1) PROVE Good(m)
  <2>1. PICK f \in [Small(m - 1) -> Nat] : \A s \in Small(m - 1) : SumAt(f, s)
    BY <1>3
  <2> DEFINE g == [s \in Small(m) |-> IF s = {} THEN 0
                                      ELSE Size[Pick(s)] + f[s \ {Pick(s)}]]
  <2>2. ASSUME NEW s \in Small(m), s # {}
        PROVE  /\ Pick(s) \in Instances /\ s \ {Pick(s)} \in Small(m - 1)
               /\ s \ {Pick(s)} \in Small(m)
    <3>1. s \in SUBSET Instances /\ Cardinality(s) <= m /\ Pick(s) \in s
      BY <2>2, Smaller DEF Small
    <3>2. /\ s \ {Pick(s)} \in SUBSET Instances
          /\ Cardinality(s \ {Pick(s)}) = Cardinality(s) - 1
          /\ Cardinality(s) \in Nat
      BY <3>1, Smaller
    <3> QED BY <3>1, <3>2, <1>3 DEF Small
  <2>3. g \in [Small(m) -> Nat]
    <3>1. ASSUME NEW s \in Small(m), s # {}
          PROVE  Size[Pick(s)] + f[s \ {Pick(s)}] \in Nat
      <4>1. Size[Pick(s)] \in Nat /\ f[s \ {Pick(s)}] \in Nat
        BY <1>1, <2>2, <3>1
      <4> QED BY <4>1
    <3> QED BY <3>1
  <2>4. \A s \in Small(m - 1) : s \in Small(m) /\ g[s] = f[s]
    <3>1. ASSUME NEW s \in Small(m - 1) PROVE s \in Small(m)
      BY <1>3, Smaller DEF Small
    <3> QED BY <2>1, <3>1 DEF SumAt
  <2>5. ASSUME NEW s \in Small(m) PROVE SumAt(g, s)
    BY <2>2, <2>4 DEF SumAt
  <2> QED BY <2>3, <2>5
<1>4. \A n \in Nat : Good(n)
  <2> HIDE DEF Good
  <2> SUFFICES ASSUME Bad # {} PROVE FALSE
    OBVIOUS
  <2>1. PICK m \in Bad : \A n \in Bad : m <= n
    BY Least
  <2>2. m \in Nat /\ m # 0 /\ ~Good(m)
    BY <1>2
  <2>3. m - 1 \in Nat /\ m - 1 \notin Bad
    BY <2>1, <2>2
  <2> QED BY <1>3, <2>2, <2>3
<1>5. Cardinality(Instances) \in Nat /\ Small(Cardinality(Instances)) = SUBSET Instances
  BY Smaller DEF Small
<1> QED BY <1>4, <1>5

(* That function gives the bytes of every set of instances. *)
LEMMA SumIsBytes ==
    \E f \in [SUBSET Instances -> Nat] :
        \A S \in SUBSET Instances : SumAt(f, S) /\ Bytes(S) = f[S]
<1>1. PICK f \in [SUBSET Instances -> Nat] : \A s \in SUBSET Instances : SumAt(f, s)
  BY SumExists
<1>2. ASSUME NEW S \in SUBSET Instances PROVE Bytes(S) = f[S]
  <2> DEFINE g == [s \in SUBSET S |-> f[s]]
             h == CHOOSE k : SumRule(k, S)
             Sizes == {Cardinality(s) : s \in {t \in SUBSET S : h[t] # f[t]}}
  <2>1. SumRule(g, S)
    <3>1. ASSUME NEW s \in SUBSET S
          PROVE  f[s] = IF s = {} THEN 0 ELSE Size[Pick(s)] + g[s \ {Pick(s)}]
      BY <1>1 DEF SumAt
    <3> QED BY <3>1, Zenon DEF SumRule
  <2>2. SumRule(h, S)
    BY <2>1, Zenon
  <2> HIDE DEF h
  <2>3. \A s \in SUBSET S : SumAt(h, s)
    BY <2>2 DEF SumRule, SumAt
  <2>4. ASSUME Sizes # {} PROVE FALSE
    <3>1. Sizes \in SUBSET Nat
      BY Smaller
    <3>2. PICK n \in Sizes : \A m \in Sizes : n <= m
      BY <2>4, <3>1, Least
    <3>3. PICK s \in SUBSET S : h[s] # f[s] /\ n = Cardinality(s)
      BY <3>2
    <3>4. s # {}
      BY <1>1, <2>3, <3>3 DEF SumAt
    <3> DEFINE t == s \ {Pick(s)}
    <3>5. /\ t \in SUBSET S /\ Cardinality(t) = Cardinality(s) - 1
          /\ Cardinality(s) \in Nat /\ Cardinality(t) \in Nat
      BY <3>3, <3>4, Smaller
    <3>6. Cardinality(t) \notin Sizes
      BY <3>2, <3>3, <3>5
    <3>7. h[t] = f[t]
      BY <3>5, <3>6
    <3>8. f[s] = Size[Pick(s)] + f[t] /\ h[s] = Size[Pick(s)] + h[t]
      BY <1>1, <2>3, <3>3, <3>4 DEF SumAt
    <3> QED BY <3>3, <3>7, <3>8
  <2>5. h[S] = f[S]
    BY <2>4
  <2> QED BY <2>5, BytesIs DEF h
<1> QED BY <1>1, <1>2

(* The sum of nothing, and that sums are numbers *)
LEMMA BytesNat ==
    /\ Bytes({}) = 0
    /\ \A S \in SUBSET Instances : Bytes(S) \in Nat
    /\ \A i \in Instances : Size[i] \in Nat
<1>1. PICK f \in [SUBSET Instances -> Nat] :
          \A S \in SUBSET Instances : SumAt(f, S) /\ Bytes(S) = f[S]
  BY SumIsBytes
<1>2. SumAt(f, {}) /\ Bytes({}) = f[{}]
  BY <1>1
<1>3. Bytes({}) = 0
  BY <1>2 DEF SumAt
<1>4. \A i \in Instances : Size[i] \in Nat
  BY PlacementAssumption
<1> QED BY <1>1, <1>3, <1>4

(* Any element may be counted last. *)
LEMMA BytesAdd ==
    ASSUME NEW S \in SUBSET Instances, NEW x \in S
    PROVE  Bytes(S) = Bytes(S \ {x}) + Size[x]
<1> DEFINE Adds(s) == \A y \in s : Bytes(s) = Bytes(s \ {y}) + Size[y]
           Sizes == {Cardinality(s) : s \in {t \in SUBSET Instances : ~Adds(t)}}
<1>1. ASSUME NEW s \in SUBSET Instances, s # {}
      PROVE  Pick(s) \in s /\ Bytes(s) = Size[Pick(s)] + Bytes(s \ {Pick(s)})
  BY <1>1, SumIsBytes, Smaller DEF SumAt
<1>2. ASSUME Sizes # {} PROVE FALSE
  <2>1. Sizes \in SUBSET Nat
    BY Smaller
  <2>2. PICK n \in Sizes : \A m \in Sizes : n <= m
    BY <1>2, <2>1, Least
  <2>3. PICK s \in SUBSET Instances : ~Adds(s) /\ n = Cardinality(s)
    BY <2>2
  <2>4. PICK y \in s : Bytes(s) # Bytes(s \ {y}) + Size[y]
    BY <2>3
  <2> DEFINE p == Pick(s)
  <2>5. p \in s /\ Bytes(s) = Size[p] + Bytes(s \ {p})
    BY <1>1, <2>4
  <2> HIDE DEF p
  <2>6. \A z \in s : /\ s \ {z} \in SUBSET Instances
                     /\ Cardinality(s \ {z}) \in Nat
                     /\ Cardinality(s \ {z}) = Cardinality(s) - 1
    <3> TAKE z \in s
    <3> QED BY Smaller
  <2>7. \A z \in s : Adds(s \ {z})
    <3>1. ASSUME NEW z \in s PROVE Cardinality(s \ {z}) \notin Sizes
      <4> HIDE DEF Sizes
      <4> QED BY <2>1, <2>2, <2>3, <2>6
    <3> QED BY <2>6, <3>1
  <2>8. /\ Bytes(s \ {p}) \in Nat /\ Bytes(s \ {y}) \in Nat
        /\ Bytes((s \ {p}) \ {y}) \in Nat
        /\ Size[p] \in Nat /\ Size[y] \in Nat
    BY <2>5, BytesNat
  <2>9. y # p
    BY <2>4, <2>5, <2>8
  <2>10. /\ Bytes(s \ {p}) = Bytes((s \ {p}) \ {y}) + Size[y]
         /\ Bytes(s \ {y}) = Bytes((s \ {y}) \ {p}) + Size[p]
    BY <2>5, <2>7, <2>9
  <2>11. (s \ {p}) \ {y} = (s \ {y}) \ {p}
    OBVIOUS
  <2> QED BY <2>4, <2>5, <2>8, <2>10, <2>11
<1>3. Adds(S)
  BY <1>2
<1> QED BY <1>3

(* A set and the rest of a larger one add up. *)
LEMMA BytesDiff ==
    ASSUME NEW S \in SUBSET Instances, NEW T \in SUBSET S
    PROVE  /\ Bytes(S) = Bytes(T) + Bytes(S \ T)
           /\ Bytes(T) <= Bytes(S)
<1> DEFINE Adds(t) == Bytes(S) = Bytes(t) + Bytes(S \ t)
           Sizes == {Cardinality(t) : t \in {u \in SUBSET S : ~Adds(u)}}
<1>1. ASSUME Sizes # {} PROVE FALSE
  <2>1. Sizes \in SUBSET Nat
    <3>1. \A t \in SUBSET S : Cardinality(t) \in Nat
      BY Smaller
    <3> QED BY <3>1
  <2>2. PICK n \in Sizes : \A m \in Sizes : n <= m
    BY <1>1, <2>1, Least
  <2>3. PICK t \in SUBSET S : ~Adds(t) /\ n = Cardinality(t)
    BY <2>2
  <2>4. t # {}
    <3>1. S \ {} = S
      OBVIOUS
    <3>2. Bytes(S) \in Nat /\ Bytes({}) = 0
      BY BytesNat
    <3>3. Adds({})
      BY <3>1, <3>2
    <3> QED BY <2>3, <3>3
  <2>5. PICK x : x \in t
    BY <2>4
  <2> DEFINE u == t \ {x}
  <2>6. u \in SUBSET S /\ Cardinality(u) \in Nat /\ Cardinality(u) = Cardinality(t) - 1
    BY <2>5, Smaller
  <2>7. Adds(u)
    <3>1. Cardinality(u) \notin Sizes
      <4> HIDE DEF Sizes
      <4> QED BY <2>1, <2>2, <2>3, <2>6
    <3> QED BY <2>6, <3>1
  <2>8. (S \ u) \ {x} = S \ t /\ x \in S \ u
    BY <2>5
  <2>9. Bytes(t) = Bytes(u) + Size[x] /\ Bytes(S \ u) = Bytes(S \ t) + Size[x]
    <3>1. Bytes(t) = Bytes(u) + Size[x]
      BY <2>5, BytesAdd
    <3>2. Bytes(S \ u) = Bytes((S \ u) \ {x}) + Size[x]
      BY <2>8, BytesAdd
    <3> QED BY <3>1, <3>2, <2>8
  <2>10. /\ Bytes(u) \in Nat /\ Bytes(S \ t) \in Nat /\ Size[x] \in Nat
         /\ Bytes(t) \in Nat /\ Bytes(S \ u) \in Nat
    BY <2>5, BytesNat
  <2> HIDE DEF u
  <2> QED BY <2>3, <2>7, <2>9, <2>10
<1>2. Adds(T)
  BY <1>1
<1>3. Bytes(T) \in Nat /\ Bytes(S \ T) \in Nat
  BY BytesNat
<1> QED BY <1>2, <1>3

-----------------------------------------------------------------------------
(* Sequences without repetitions *)

NoDup(s) == \A j, k \in 1 .. Len(s) : s[j] = s[k] => j = k
Has(s, x) == \E k \in 1 .. Len(s) : s[k] = x

(* A sequence without repetitions is as long as its set is large. *)
LEMMA NoDupLength ==
    ASSUME NEW S, NEW s \in Seq(S), NoDup(s)
    PROVE  Len(s) = Cardinality(ToSet(s))
<1>1. s \in Bijection(1 .. Len(s), ToSet(s))
  BY DEF Bijection, Injection, Surjection, IsInjective, ToSet, NoDup
<1>2. ExistsBijection(1 .. Len(s), ToSet(s))
  BY <1>1 DEF ExistsBijection
<1>3. Len(s) \in Nat
  OBVIOUS
<1>4. IsFiniteSet(1 .. Len(s)) /\ Cardinality(1 .. Len(s)) = Len(s)
  <2>1. Cardinality(1 .. Len(s)) = IF 1 > Len(s) THEN 0 ELSE Len(s) - 1 + 1
    BY <1>3, FS_Interval
  <2> QED BY <1>3, <2>1, FS_Interval
<1> QED BY <1>2, <1>4, FS_Bijection

(* The set of a sequence has what the sequence has. *)
LEMMA HasSet == ASSUME NEW S, NEW s \in Seq(S), NEW x
                PROVE  Has(s, x) <=> x \in ToSet(s)
BY DEF Has, ToSet

(* The queue grows at its end: *)
LEMMA GrowSeq ==
    ASSUME NEW S, NEW s \in Seq(S), NEW x \in S, NoDup(s), ~Has(s, x),
           NEW t, t = Append(s, x)
    PROVE  /\ t \in Seq(S) /\ NoDup(t) /\ t # <<>>
           /\ s # <<>> => Head(t) = Head(s)
           /\ \A y : Has(t, y) <=> y = x \/ Has(s, y)
<1>1. /\ t \in Seq(S) /\ Len(t) = Len(s) + 1 /\ Len(s) \in Nat
      /\ t[Len(s) + 1] = x /\ \A k \in 1 .. Len(s) : t[k] = s[k]
  OBVIOUS
<1>2. NoDup(t)
  BY <1>1 DEF NoDup, Has
<1>3. t # <<>> /\ (s # <<>> => Head(t) = Head(s))
  BY <1>1
<1>4. ASSUME NEW y PROVE Has(t, y) <=> y = x \/ Has(s, y)
  <2>1. \A k \in 1 .. Len(t) : k \in 1 .. Len(s) \/ k = Len(s) + 1
    BY <1>1
  <2>2. /\ Len(s) + 1 \in 1 .. Len(t)
        /\ \A k \in 1 .. Len(s) : k \in 1 .. Len(t)
    BY <1>1
  <2> QED BY <1>1, <2>1, <2>2 DEF Has
<1> QED BY <1>1, <1>2, <1>3, <1>4

(* and its head leaves it. *)
LEMMA DropHead ==
    ASSUME NEW S, NEW s \in Seq(S), NoDup(s), s # <<>>
    PROVE  /\ Tail(s) \in Seq(S) /\ NoDup(Tail(s))
           /\ Head(s) \in S /\ Has(s, Head(s))
           /\ \A y : Has(Tail(s), y) <=> y # Head(s) /\ Has(s, y)
<1> DEFINE t == Tail(s)
<1>1. /\ t \in Seq(S) /\ Len(s) \in Nat /\ Len(s) >= 1 /\ Len(t) = Len(s) - 1
      /\ \A k \in 1 .. Len(t) : t[k] = s[k + 1]
      /\ Head(s) = s[1] /\ Head(s) \in S
  OBVIOUS
<1> HIDE DEF t
<1>2. NoDup(t)
  <2> SUFFICES ASSUME NEW j \in 1 .. Len(t), NEW k \in 1 .. Len(t), t[j] = t[k]
               PROVE  j = k
    BY DEF NoDup
  <2>1. j + 1 \in 1 .. Len(s) /\ k + 1 \in 1 .. Len(s) /\ s[j + 1] = s[k + 1]
    BY <1>1
  <2>2. j + 1 = k + 1
    BY <2>1 DEF NoDup
  <2> QED BY <2>2
<1>3. Has(s, Head(s))
  BY <1>1 DEF Has
<1>4. ASSUME NEW y PROVE Has(t, y) <=> y # Head(s) /\ Has(s, y)
  <2>1. ASSUME NEW k \in 1 .. Len(t), t[k] = y PROVE y # Head(s) /\ Has(s, y)
    <3>1. k + 1 \in 1 .. Len(s) /\ 1 \in 1 .. Len(s) /\ k + 1 # 1
          /\ s[k + 1] = y
      BY <1>1, <2>1
    <3> QED BY <1>1, <3>1 DEF NoDup, Has
  <2>2. ASSUME NEW k \in 1 .. Len(s), s[k] = y, y # Head(s) PROVE Has(t, y)
    <3>1. k - 1 \in 1 .. Len(t) /\ (k - 1) + 1 = k
      BY <1>1, <2>2
    <3>2. t[k - 1] = y
      BY <1>1, <2>2, <3>1
    <3> QED BY <3>1, <3>2 DEF Has
  <2> QED BY <2>1, <2>2 DEF Has
<1> QED BY <1>1, <1>2, <1>3, <1>4 DEF t

(* A permutation of a finite set has its elements, once each. *)
LEMMA Permutes ==
    ASSUME NEW S, IsFiniteSet(S), NEW s \in SetToSeqs(S)
    PROVE  s \in Seq(S) /\ NoDup(s) /\ \A x : Has(s, x) <=> x \in S
<1> DEFINE n == Cardinality(S)
<1>1. n \in Nat
  BY FS_CardinalityType
<1>2. s \in [1 .. n -> S] /\ \A j, k \in 1 .. n : j # k => s[j] # s[k]
  BY DEF SetToSeqs
<1>3. s \in Seq(S) /\ Len(s) = n
  BY <1>1, <1>2
<1>4. s \in Injection(1 .. n, S)
  BY <1>2 DEF Injection, IsInjective
<1>5. IsFiniteSet(1 .. n) /\ Cardinality(1 .. n) = n
  <2>1. Cardinality(1 .. n) = IF 1 > n THEN 0 ELSE n - 1 + 1
    BY <1>1, FS_Interval
  <2> QED BY <1>1, <2>1, FS_Interval
<1>6. s \in Surjection(1 .. n, S)
  BY <1>4, <1>5, FS_Injection
<1>7. \A x \in S : \E k \in 1 .. n : s[k] = x
  BY <1>6 DEF Surjection
<1> QED BY <1>2, <1>3, <1>7 DEF NoDup, Has

(* An element moves to the end. *)
LEMMA ToTheEnd ==
    ASSUME NEW S, NEW s \in Seq(S), NoDup(s), NEW x \in S, Has(s, x),
           NEW t, t = Append(RemoveFirst(s, x), x)
    PROVE  t \in Seq(S) /\ NoDup(t) /\ \A y : Has(t, y) <=> Has(s, y)
<1>1. PICK k \in 1 .. Len(s) : s[k] = x
  BY DEF Has
<1>2. \A j \in 1 .. Len(s) : s[j] = x <=> j = k
  BY <1>1 DEF NoDup
<1> DEFINE I == {j \in 1 .. Len(s) : s[j] = x}
           left == SubSeq(s, 1, k - 1)
           right == SubSeq(s, k + 1, Len(s))
           r == left \o right
<1>3. I = {k}
  BY <1>1, <1>2
<1>4. Min(I) = k
  <2>1. k \in I /\ \A y \in I : k <= y
    BY <1>3
  <2>2. Min(I) \in I
    <3> HIDE DEF I
    <3> QED BY <2>1, Zenon DEF Min
  <2> QED BY <2>2, <1>3
<1>5. SelectInSeq(s, LAMBDA v : v = x) = k
  BY <1>3, <1>4 DEF SelectInSeq
<1>6. RemoveFirst(s, x) = r
  BY <1>1, <1>5 DEF RemoveFirst, RemoveAt
<1>7. Len(s) \in Nat /\ k \in Nat /\ k >= 1 /\ k <= Len(s)
  BY <1>1
<1>8. /\ left \in Seq(S) /\ Len(left) = k - 1
      /\ \A j \in 1 .. k - 1 : left[j] = s[j]
  <2>1. \A j \in 1 .. k - 1 : s[j] \in S
    BY <1>7
  <2>2. /\ SubSeq(s, 1, k - 1) \in Seq(S)
        /\ Len(SubSeq(s, 1, k - 1)) = IF 1 <= k - 1 THEN k - 1 - 1 + 1 ELSE 0
        /\ \A j \in 1 .. k - 1 - 1 + 1 : SubSeq(s, 1, k - 1)[j] = s[1 + j - 1]
    BY <1>7, <2>1, SubSeqProperties
  <2> HIDE DEF left
  <2> QED BY <1>7, <2>2 DEF left
<1>9. /\ right \in Seq(S) /\ Len(right) = Len(s) - k
      /\ \A j \in 1 .. Len(s) - k : right[j] = s[k + j]
  <2>1. \A j \in k + 1 .. Len(s) : s[j] \in S
    BY <1>7
  <2>2. /\ SubSeq(s, k + 1, Len(s)) \in Seq(S)
        /\ Len(SubSeq(s, k + 1, Len(s))) = IF k + 1 <= Len(s) THEN Len(s) - (k + 1) + 1 ELSE 0
        /\ \A j \in 1 .. Len(s) - (k + 1) + 1 : SubSeq(s, k + 1, Len(s))[j] = s[k + 1 + j - 1]
    BY <1>7, <2>1, SubSeqProperties
  <2>3. \A j \in 1 .. Len(s) - k : k + 1 + j - 1 = k + j
    BY <1>7
  <2> HIDE DEF right
  <2> QED BY <1>7, <2>2, <2>3 DEF right
<1> HIDE DEF left, right
<1>10. /\ r \in Seq(S) /\ Len(r) = Len(s) - 1
       /\ \A j \in 1 .. Len(s) - 1 : r[j] = IF j < k THEN s[j] ELSE s[j + 1]
  <2>1. /\ r \in Seq(S) /\ Len(r) = Len(left) + Len(right)
        /\ \A j \in 1 .. Len(left) + Len(right) :
              r[j] = IF j <= Len(left) THEN left[j] ELSE right[j - Len(left)]
    BY <1>8, <1>9, ConcatProperties
  <2> HIDE DEF r
  <2>2. Len(r) = Len(s) - 1
    BY <1>7, <1>8, <1>9, <2>1
  <2>3. ASSUME NEW j \in 1 .. Len(s) - 1
        PROVE  r[j] = IF j < k THEN s[j] ELSE s[j + 1]
    <3>1. /\ j \in Nat /\ j >= 1 /\ j <= Len(s) - 1
          /\ Len(left) = k - 1 /\ j \in 1 .. Len(left) + Len(right)
      BY <1>7, <1>8, <1>9
    <3>2. r[j] = IF j <= Len(left) THEN left[j] ELSE right[j - Len(left)]
      BY <2>1, <3>1
    <3>3. CASE j < k
      <4>1. j \in 1 .. k - 1 /\ j <= Len(left)
        BY <1>7, <3>1, <3>3
      <4>2. left[j] = s[j]
        BY <1>8, <4>1
      <4> QED BY <3>3, <3>2, <4>1, <4>2
    <3>4. CASE ~(j < k)
      <4>1. /\ j - Len(left) \in 1 .. Len(s) - k
            /\ k + (j - Len(left)) = j + 1 /\ ~(j <= Len(left))
        BY <1>7, <3>1, <3>4
      <4>2. right[j - Len(left)] = s[j + 1]
        BY <1>9, <4>1
      <4> QED BY <3>4, <3>2, <4>1, <4>2
    <3> QED BY <3>3, <3>4
  <2> QED BY <2>1, <2>2, <2>3
<1> HIDE DEF r
<1>11. NoDup(r)
  <2> SUFFICES ASSUME NEW j \in 1 .. Len(r), NEW l \in 1 .. Len(r), r[j] = r[l]
               PROVE  j = l
    BY DEF NoDup
  <2> DEFINE at(m) == IF m < k THEN m ELSE m + 1
  <2>1. /\ at(j) \in 1 .. Len(s) /\ at(l) \in 1 .. Len(s)
        /\ s[at(j)] = s[at(l)]
    BY <1>7, <1>10
  <2>2. at(j) = at(l)
    <3> HIDE DEF at
    <3> QED BY <2>1 DEF NoDup
  <2> QED BY <1>7, <1>10, <2>2
<1>12. ASSUME NEW y PROVE Has(r, y) <=> y # x /\ Has(s, y)
  <2>1. ASSUME Has(r, y) PROVE y # x /\ Has(s, y)
    <3>1. PICK j \in 1 .. Len(r) : r[j] = y
      BY <2>1 DEF Has
    <3> DEFINE m == IF j < k THEN j ELSE j + 1
    <3>2. m \in 1 .. Len(s) /\ m # k /\ s[m] = y
      BY <1>7, <1>10, <3>1
    <3> HIDE DEF m
    <3> QED BY <1>2, <3>2 DEF Has
  <2>2. ASSUME y # x, Has(s, y) PROVE Has(r, y)
    <3>1. PICK m \in 1 .. Len(s) : s[m] = y
      BY <2>2 DEF Has
    <3>2. m # k
      BY <2>2, <3>1, <1>1
    <3> DEFINE j == IF m < k THEN m ELSE m - 1
    <3>3. j \in 1 .. Len(r) /\ r[j] = y
      BY <1>7, <1>10, <3>1, <3>2
    <3> HIDE DEF j
    <3> QED BY <3>3 DEF Has
  <2> QED BY <2>1, <2>2
<1>13. t = Append(r, x)
  BY <1>6
<1>14. /\ t \in Seq(S) /\ NoDup(t)
       /\ \A y : Has(t, y) <=> y = x \/ Has(r, y)
  BY <1>10, <1>11, <1>12, <1>13, GrowSeq
<1> QED BY <1>12, <1>14

-----------------------------------------------------------------------------
(* Types, strengthened until they are inductive *)

Load(i) == <<"load", i, i>>
States == {"requested", "reserving", "launching", "ready", "draining"}
              \cup Terminal
Decisions == {None, "requested", "evicting", "reserving", "loading", "ready",
              "refused", "failed"}
Engines == Running \cup Terminal \cup {None}
Rows == Counted \cup {None, "released", "failed"}

(* A workflow that is not started, or starts again, has attempts left, and *)
(* one that evicts has victims.                                            *)
FlowType ==
    /\ inst \in [Instances -> States] /\ dec \in [Instances -> Decisions]
    /\ pc \in [Instances -> Steps] /\ attempt \in [Instances -> 0..MaxAttempts]
    /\ victims \in [Instances -> Seq(Instances)]
    /\ snapshot.free \in Int /\ snapshot.held \in SUBSET Instances
    /\ lock \in Instances \cup {None}
    /\ \A i \in Instances :
          /\ NoDup(victims[i])
          /\ inst[i] = "requested" => pc[i] = "idle"
          /\ pc[i] \in {"idle", "start"} => attempt[i] < MaxAttempts
          /\ pc[i] \in {"evict", "unloading"} <=> victims[i] # <<>>

LedgerType ==
    /\ res \in [Instances -> Rows]
    /\ pinned \in [Instances -> BOOLEAN] /\ leases \in [Instances -> 0..MaxLeases]
    /\ recency \in Seq(Instances) /\ NoDup(recency)
    /\ \A i \in Instances : Has(recency, i) <=> res[i] # None

NodeType ==
    /\ engine \in [Instances -> Engines] /\ proc \in [Instances -> Engines]
    /\ measured \in {-1} \cup 0..Bytes(Instances)
    /\ ttl \in Instances \cup {None}

WorkType ==
    /\ cmd \in [Commands -> {None, "queued", "succeeded", "failed"}]
    /\ queue \in Seq(Commands) /\ NoDup(queue)
    /\ \A e \in Commands : Has(queue, e) <=> cmd[e] = "queued"
    /\ call \in {"idle", "called", "applied"}
    /\ call # "idle" => queue # <<>>

BoundType ==
    crashes \in 0..MaxCrashes /\ timeouts \in 0..MaxTimeouts /\ deaths \in 0..MaxDeaths

(* What a plan, a snapshot, the idle pass or a command names, and what is  *)
(* routed to, has a reservation row: rows are never deleted.               *)
RowInv ==
    /\ \A i, v \in Instances : Has(victims[i], v) => res[v] # None
    /\ \A v \in snapshot.held : res[v] # None
    /\ ttl # None => res[ttl] # None
    /\ \A e \in Commands : cmd[e] # None => res[e[3]] # None
    /\ \A i \in Instances : inst[i] \in {"ready", "draining"} => res[i] # None

TypeInv ==
    FlowType /\ LedgerType /\ NodeType /\ WorkType /\ BoundType /\ RowInv

(* The commands are the loads and the unloads. *)
LEMMA CommandFacts ==
    /\ \A i \in Instances : /\ Load(i) \in Commands /\ Load(i)[3] = i
                            /\ Load(i)[1] = "load" /\ Load(i) \notin Unloads
    /\ \A by \in Instances \cup {Idle, Operator}, v \in Instances :
          /\ <<"unload", by, v>> \in Unloads /\ <<"unload", by, v>>[3] = v
          /\ <<"unload", by, v>>[1] = "unload"
    /\ \A e \in Commands : e[3] \in Instances /\ (e \in Unloads \/ e = Load(e[3]))
    /\ \A e \in Unloads : /\ e \in Commands /\ e[1] = "unload"
                          /\ e[3] \in Instances
                          /\ \A i \in Instances : e # Load(i)
BY DEF Commands, Loads, Unloads, Load

(* The strengthened types imply the types. *)
LEMMA TypeSuffices == TypeInv => TypeOK
<1> SUFFICES ASSUME TypeInv PROVE TypeOK
  OBVIOUS
<1> USE DEF TypeInv
<1>1. ASSUME NEW i \in Instances
      PROVE  /\ Len(victims[i]) \in 0..Cardinality(Instances)
             /\ ToSet(victims[i]) \subseteq Instances
  <2>1. victims[i] \in Seq(Instances) /\ NoDup(victims[i])
    BY DEF FlowType
  <2>2. ToSet(victims[i]) \in SUBSET Instances
    BY <2>1 DEF ToSet
  <2>3. Len(victims[i]) = Cardinality(ToSet(victims[i]))
    BY <2>1, NoDupLength
  <2> QED BY <2>2, <2>3, Smaller
<1>2. ToSet(recency) = {i \in Instances : res[i] # None}
  <2>1. \A x : x \in ToSet(recency) <=> Has(recency, x)
    BY HasSet DEF LedgerType
  <2>2. \A x : Has(recency, x) => x \in Instances
    BY DEF LedgerType, Has
  <2> QED BY <2>1, <2>2 DEF LedgerType
<1>3. Len(recency) = Cardinality(ToSet(recency))
  BY NoDupLength DEF LedgerType
<1>4. ToSet(queue) = {e \in Commands : cmd[e] = "queued"}
  <2>1. \A x : x \in ToSet(queue) <=> Has(queue, x)
    BY HasSet DEF WorkType
  <2>2. \A x : Has(queue, x) => x \in Commands
    BY DEF WorkType, Has
  <2> QED BY <2>1, <2>2 DEF WorkType
<1>5. Len(queue) = Cardinality(ToSet(queue))
  BY NoDupLength DEF WorkType
<1>6. /\ inst \in [Instances -> {"requested", "reserving", "launching", "ready",
                                 "draining"} \cup Terminal]
      /\ dec \in [Instances -> {None, "requested", "evicting", "reserving",
                                "loading", "ready", "refused", "failed"}]
      /\ pc \in [Instances -> Steps]
      /\ attempt \in [Instances -> 0..MaxAttempts]
      /\ lock \in Instances \cup {None}
      /\ snapshot.free \in Int /\ snapshot.held \subseteq Instances
  BY DEF FlowType, States, Decisions
<1>7. /\ res \in [Instances -> Counted \cup {None, "released", "failed"}]
      /\ pinned \in [Instances -> BOOLEAN]
      /\ leases \in [Instances -> 0..MaxLeases]
  BY DEF LedgerType, Rows
<1>8. /\ engine \in [Instances -> Running \cup Terminal \cup {None}]
      /\ proc \in [Instances -> Running \cup Terminal \cup {None}]
      /\ measured \in {-1} \cup 0..Bytes(Instances)
      /\ ttl \in Instances \cup {None}
  BY DEF NodeType, Engines
<1>9. /\ cmd \in [Commands -> {None, "queued", "succeeded", "failed"}]
      /\ call \in {"idle", "called", "applied"}
  BY DEF WorkType
<1>10. /\ crashes \in 0..MaxCrashes /\ timeouts \in 0..MaxTimeouts
       /\ deaths \in 0..MaxDeaths
  BY DEF BoundType
<1> QED BY <1>1, <1>2, <1>3, <1>4, <1>5, <1>6, <1>7, <1>8, <1>9, <1>10 DEF TypeOK

(* The residents are up, and nothing else has begun. *)
LEMMA TypeInit == Init => TypeInv
<1> SUFFICES ASSUME Init PROVE TypeInv
  OBVIOUS
<1> USE PlacementAssumption
<1>1. FlowType
  BY DEF Init, FlowType, States, Decisions, Steps, NoDup, None
<1>2. recency \in Seq(Resident) /\ NoDup(recency) /\ \A x : Has(recency, x) <=> x \in Resident
  <2>1. IsFiniteSet(Resident)
    BY FS_Subset
  <2> QED BY <2>1, Permutes DEF Init
<1>3. LedgerType
  <2>1. recency \in Seq(Instances)
    BY <1>2
  <2> QED BY <1>2, <2>1 DEF Init, LedgerType, Rows, Counted, None
<1>4. NodeType
  BY DEF Init, NodeType, Engines, Running, None
<1>5. WorkType
  BY DEF Init, WorkType, NoDup, Has, None
<1>6. BoundType
  BY DEF Init, BoundType
<1>7. RowInv
  <2>1. \A e \in Commands : cmd[e] # None => res[e[3]] # None
    <3>1. ASSUME NEW e \in Commands, cmd[e] # None PROVE res[e[3]] # None
      <4>1. e[3] \in Instances
        BY CommandFacts
      <4>2. e[3] \in Resident
        BY <3>1 DEF Init, None
      <4> QED BY <4>1, <4>2 DEF Init, None
    <3> QED BY <3>1
  <2> QED BY <2>1 DEF Init, RowInv, Has, None
<1> QED BY <1>1, <1>3, <1>4, <1>5, <1>6, <1>7 DEF TypeInv

-----------------------------------------------------------------------------
(* Steps keep the types *)

(* What is written to the queue *)
LEMMA Enqueues ==
    ASSUME WorkType, NEW e \in Commands, Enqueue(e), call' = call
    PROVE  /\ WorkType'
           /\ queue # <<>> => queue' # <<>> /\ Head(queue') = Head(queue)
           /\ cmd[e] # None => UNCHANGED <<cmd, queue>>
           /\ cmd[e] = None => cmd'[e] = "queued"
           /\ \A x \in Commands : x # e => cmd'[x] = cmd[x]
<1>1. CASE cmd[e] # None
  <2>1. UNCHANGED <<cmd, queue>>
    BY <1>1 DEF Enqueue, WorkType
  <2> QED BY <1>1, <2>1 DEF WorkType, NoDup, Has
<1>2. CASE cmd[e] = None
  <2>1. cmd' = [cmd EXCEPT ![e] = "queued"] /\ queue' = Append(queue, e)
    BY <1>2 DEF Enqueue
  <2>2. queue \in Seq(Commands) /\ NoDup(queue) /\ ~Has(queue, e)
    BY <1>2 DEF WorkType, None
  <2>3. /\ queue' \in Seq(Commands) /\ NoDup(queue') /\ queue' # <<>>
        /\ queue # <<>> => Head(queue') = Head(queue)
        /\ \A y : Has(queue', y) <=> y = e \/ Has(queue, y)
    BY <2>1, <2>2, GrowSeq
  <2>4. /\ cmd' \in [Commands -> {None, "queued", "succeeded", "failed"}]
        /\ cmd'[e] = "queued" /\ \A x \in Commands : x # e => cmd'[x] = cmd[x]
    BY <2>1 DEF WorkType
  <2>5. NoDup(queue)' /\ \A y \in Commands : Has(queue, y)' <=> cmd'[y] = "queued"
    BY <2>3, <2>4 DEF WorkType, NoDup, Has
  <2>6. WorkType'
    BY <2>3, <2>4, <2>5 DEF WorkType
  <2> QED BY <1>2, <2>3, <2>4, <2>6
<1> QED BY <1>1, <1>2

(* The head of the queue ends. *)
LEMMA Finishes ==
    ASSUME WorkType, queue # <<>>, NEW state \in {"succeeded", "failed"},
           Finish(state)
    PROVE  /\ WorkType' /\ Current \in Commands /\ cmd[Current] = "queued"
           /\ cmd'[Current] = state /\ call' = "idle"
           /\ \A x \in Commands : x # Current => cmd'[x] = cmd[x]
<1>1. /\ queue' \in Seq(Commands) /\ NoDup(queue')
      /\ Current \in Commands /\ Has(queue, Current)
      /\ \A y : Has(queue', y) <=> y # Current /\ Has(queue, y)
  BY DropHead DEF Finish, Current, WorkType
<1>2. cmd[Current] = "queued"
  BY <1>1 DEF WorkType
<1>3. /\ cmd' \in [Commands -> {None, "queued", "succeeded", "failed"}]
      /\ cmd'[Current] = state /\ call' = "idle"
      /\ \A x \in Commands : x # Current => cmd'[x] = cmd[x]
  BY <1>1 DEF Finish, WorkType
<1>4. NoDup(queue)' /\ \A y \in Commands : Has(queue, y)' <=> cmd'[y] = "queued"
  <2>1. NoDup(queue)'
    BY <1>1 DEF NoDup
  <2>2. ASSUME NEW y \in Commands PROVE Has(queue', y) <=> cmd'[y] = "queued"
    BY <1>1, <1>3 DEF WorkType
  <2> QED BY <2>1, <2>2 DEF Has
<1>5. WorkType'
  BY <1>1, <1>3, <1>4 DEF WorkType
<1> QED BY <1>1, <1>2, <1>3, <1>5

(* The idle pass orders its unload. *)
LEMMA IdleQueues ==
    ASSUME WorkType, ttl \in Instances, IdleReleased
    PROVE  /\ WorkType' /\ <<"unload", Idle, ttl>> \in Commands
           /\ queue # <<>> => queue' # <<>> /\ Head(queue') = Head(queue)
           /\ cmd'[<<"unload", Idle, ttl>>] = "queued"
           /\ \A x \in Commands : x # <<"unload", Idle, ttl>> => cmd'[x] = cmd[x]
<1> DEFINE e == <<"unload", Idle, ttl>>
<1>1. e \in Commands
  BY CommandFacts
<1>2. /\ cmd' = [cmd EXCEPT ![e] = "queued"] /\ call' = call
      /\ queue' = IF cmd[e] = "queued" THEN queue ELSE Append(queue, e)
  BY DEF IdleReleased
<1> HIDE DEF e
<1>3. /\ cmd' \in [Commands -> {None, "queued", "succeeded", "failed"}]
      /\ cmd'[e] = "queued" /\ \A x \in Commands : x # e => cmd'[x] = cmd[x]
  BY <1>1, <1>2 DEF WorkType
<1>4. /\ queue' \in Seq(Commands) /\ NoDup(queue') /\ queue' # <<>>
      /\ queue # <<>> => Head(queue') = Head(queue)
      /\ \A y : Has(queue', y) <=> y = e \/ Has(queue, y)
  <2>1. CASE cmd[e] = "queued"
    <3>1. queue' = queue /\ Has(queue, e)
      BY <1>1, <1>2, <2>1 DEF WorkType
    <3>2. queue # <<>>
      BY <3>1 DEF Has, WorkType
    <3> QED BY <3>1, <3>2 DEF WorkType
  <2>2. CASE cmd[e] # "queued"
    <3>1. queue' = Append(queue, e) /\ ~Has(queue, e)
      BY <1>1, <1>2, <2>2 DEF WorkType
    <3> QED BY <1>1, <3>1, GrowSeq DEF WorkType
  <2> QED BY <2>1, <2>2
<1>5. NoDup(queue)' /\ \A y \in Commands : Has(queue, y)' <=> cmd'[y] = "queued"
  BY <1>3, <1>4 DEF WorkType, NoDup, Has
<1>6. WorkType'
  BY <1>2, <1>3, <1>4, <1>5 DEF WorkType
<1> QED BY <1>1, <1>3, <1>4, <1>6 DEF e

(* A reservation becomes pending. *)
LEMMA PendingTypes ==
    ASSUME LedgerType, NEW i \in Instances, MakePending(i),
           UNCHANGED <<pinned, leases>>
    PROVE  /\ LedgerType' /\ res' = [res EXCEPT ![i] = "pending"]
<1>1. res' = [res EXCEPT ![i] = "pending"] /\ res' \in [Instances -> Rows]
  BY DEF MakePending, LedgerType, Rows, Counted
<1>2. CASE res[i] # None
  <2>1. recency' = recency
    BY <1>2 DEF MakePending
  <2> QED BY <1>1, <1>2, <2>1 DEF LedgerType, NoDup, Has, None
<1>3. CASE res[i] = None
  <2>1. recency' = Append(recency, i) /\ ~Has(recency, i)
    BY <1>3 DEF MakePending, LedgerType
  <2>2. /\ recency' \in Seq(Instances) /\ NoDup(recency')
        /\ \A y : Has(recency', y) <=> y = i \/ Has(recency, y)
    BY <2>1, GrowSeq DEF LedgerType
  <2>3. NoDup(recency)' /\ \A y \in Instances : Has(recency, y)' <=> res'[y] # None
    BY <1>1, <2>2 DEF LedgerType, NoDup, Has, None
  <2> QED BY <1>1, <2>2, <2>3 DEF LedgerType
<1> QED BY <1>1, <1>2, <1>3

(* Reservations change state, and no row comes or goes. *)
LEMMA RowsTypes ==
    ASSUME LedgerType, res' \in [Instances -> Rows], recency' = recency,
           \A i \in Instances : res'[i] # None <=> res[i] # None,
           pinned' \in [Instances -> BOOLEAN], leases' \in [Instances -> 0..MaxLeases]
    PROVE  LedgerType'
BY DEF LedgerType, NoDup, Has

(* A plan names reservations that were held, each once. *)
LEMMA PlanFacts ==
    ASSUME LedgerType, NEW need, NEW free, NEW held, NEW plan \in Plans(need, free, held)
    PROVE  /\ plan \in Seq(Instances) /\ NoDup(plan)
           /\ \A v : Has(plan, v) => v \in Instances /\ v \in held /\ res[v] # None
           /\ ToSet(plan) \subseteq Instances /\ ToSet(plan) \subseteq held
           /\ Bytes(ToSet(plan)) >= need - free
<1>1. PICK V \in SUBSET Evictable(held) : plan \in SetToSeqs(V)
  BY DEF Plans
<1>2. Evictable(held) \subseteq held /\ Evictable(held) \subseteq ToSet(recency)
  BY DEF Evictable
<1>3. ToSet(recency) \subseteq Instances /\ \A v \in ToSet(recency) : res[v] # None
  BY HasSet DEF LedgerType, ToSet
<1>4. V \in SUBSET Instances
  BY <1>2, <1>3
<1>5. plan \in Seq(V) /\ NoDup(plan) /\ \A x : Has(plan, x) <=> x \in V
  BY <1>1, <1>4, Permutes, Smaller
<1>6. plan \in Seq(Instances)
  BY <1>4, <1>5
<1>7. ToSet(plan) \subseteq V
  BY <1>5 DEF ToSet
<1>8. Bytes(ToSet(plan)) >= need - free
  BY DEF Plans
<1> QED BY <1>2, <1>3, <1>4, <1>5, <1>6, <1>7, <1>8

(* Parts that do not change *)
LEMMA Same ==
    /\ FlowType /\ UNCHANGED flow => FlowType'
    /\ LedgerType /\ UNCHANGED ledger => LedgerType'
    /\ NodeType /\ UNCHANGED <<engine, proc, measured, ttl>> => NodeType'
    /\ WorkType /\ UNCHANGED work => WorkType'
    /\ BoundType /\ UNCHANGED faults => BoundType'
BY DEF FlowType, LedgerType, NodeType, WorkType, BoundType, flow, ledger, work,
       faults, NoDup, Has

(* The names that need a row are old, or have one. *)
LEMMA RowStep ==
    ASSUME TypeInv,
           \A v \in Instances : res[v] # None => res'[v] # None,
           \A i, v \in Instances :
              Has(victims'[i], v) => Has(victims[i], v) \/ res'[v] # None,
           \A v \in snapshot'.held : v \in snapshot.held \/ res'[v] # None,
           ttl' = None \/ ttl' = ttl \/ res'[ttl'] # None,
           \A e \in Commands : cmd'[e] # None => cmd[e] # None \/ res'[e[3]] # None,
           \A i \in Instances : inst'[i] \in {"ready", "draining"} =>
              inst[i] \in {"ready", "draining"} \/ res'[i] # None
    PROVE  RowInv'
<1>1. \A i, v \in Instances : Has(victims'[i], v) => res'[v] # None
  BY DEF TypeInv, RowInv
<1>2. \A v \in snapshot'.held : res'[v] # None
  BY DEF TypeInv, RowInv, FlowType
<1>3. ttl' # None => res'[ttl'] # None
  BY DEF TypeInv, RowInv, NodeType
<1>4. \A e \in Commands : cmd'[e] # None => res'[e[3]] # None
  BY CommandFacts DEF TypeInv, RowInv
<1>5. \A i \in Instances : inst'[i] \in {"ready", "draining"} => res'[i] # None
  BY DEF TypeInv, RowInv
<1>6. \A i, v \in Instances : Has(victims[i], v)' <=> Has(victims'[i], v)
  BY DEF Has
<1> QED BY <1>1, <1>2, <1>3, <1>4, <1>5, <1>6 DEF RowInv

(* A plan is committed, or refused. *)
LEMMA AdmitTypes ==
    ASSUME TypeInv, NEW i \in Instances, pc[i] \in {"plan", "draining"},
           NEW need, NEW free, NEW held, NEW plan \in Plans(need, free, held),
           Admit(i, plan), UNCHANGED <<inst, attempt, pinned, leases>>,
           snapshot'.free \in Int, snapshot'.held \in {{}, snapshot.held},
           lock' \in Instances \cup {None}, Unchanged(<<>>)
    PROVE  TypeInv'
<1>1. /\ plan \in Seq(Instances) /\ NoDup(plan)
      /\ \A v : Has(plan, v) => v \in Instances /\ v \in held /\ res[v] # None
  BY PlanFacts DEF TypeInv
<1>2. LedgerType' /\ res' = [res EXCEPT ![i] = "pending"]
  BY PendingTypes DEF Admit, TypeInv
<1>3. victims' = [victims EXCEPT ![i] = plan]
  BY DEF Admit
<1>4. \A j \in Instances : /\ NoDup(victims'[j])
                           /\ victims'[j] = IF j = i THEN plan ELSE victims[j]
  BY <1>1, <1>3 DEF TypeInv, FlowType
<1>5. \A j \in Instances : NoDup(victims[j])'
  BY <1>4 DEF NoDup
<1>6. FlowType'
  <2>1. victims' \in [Instances -> Seq(Instances)]
    BY <1>1, <1>3 DEF TypeInv, FlowType
  <2>2. /\ inst' \in [Instances -> States] /\ dec' \in [Instances -> Decisions]
        /\ pc' \in [Instances -> Steps] /\ attempt' \in [Instances -> 0..MaxAttempts]
    BY DEF Admit, TypeInv, FlowType, Decisions, Steps
  <2>3. \A j \in Instances :
          /\ inst'[j] = "requested" => pc'[j] = "idle"
          /\ pc'[j] \in {"idle", "start"} => attempt'[j] < MaxAttempts
          /\ pc'[j] \in {"evict", "unloading"} <=> victims'[j] # <<>>
    BY <1>4 DEF Admit, TypeInv, FlowType
  <2> QED BY <1>5, <2>1, <2>2, <2>3 DEF TypeInv, FlowType
<1>7. NodeType' /\ WorkType' /\ BoundType'
  BY Same DEF Unchanged, TypeInv
<1>8. RowInv'
  <2>1. \A v \in Instances : res[v] # None => res'[v] # None
    BY <1>2 DEF TypeInv, LedgerType, None
  <2>2. \A j, v \in Instances :
            Has(victims'[j], v) => Has(victims[j], v) \/ res'[v] # None
    BY <1>1, <1>4, <2>1
  <2> QED BY <2>1, <2>2, RowStep DEF Unchanged, work
<1> QED BY <1>2, <1>6, <1>7, <1>8 DEF TypeInv

(* Steps of a decision that change neither plan nor queue *)
LEMMA MoveTypes ==
    ASSUME TypeInv, NEW i \in Instances, pc[i] \notin {"idle", "evict", "unloading"},
           NEW p \in Steps \ {"idle", "start", "evict", "unloading"},
           pc' = [pc EXCEPT ![i] = p], dec' \in [Instances -> Decisions],
           attempt' \in [Instances -> 0..MaxAttempts],
           \A j \in Instances : j # i => attempt'[j] = attempt[j],
           snapshot'.free \in Int, snapshot'.held \in SUBSET Instances,
           \A v \in snapshot'.held : res[v] # None,
           lock' \in Instances \cup {None},
           UNCHANGED <<inst, victims>>, UNCHANGED ledger, Unchanged(<<>>)
    PROVE  TypeInv'
<1>1. FlowType'
  <2>1. pc' \in [Instances -> Steps] /\ \A j \in Instances : NoDup(victims[j])'
    BY DEF TypeInv, FlowType, NoDup
  <2>2. \A j \in Instances :
          /\ inst'[j] = "requested" => pc'[j] = "idle"
          /\ pc'[j] \in {"idle", "start"} => attempt'[j] < MaxAttempts
          /\ pc'[j] \in {"evict", "unloading"} <=> victims'[j] # <<>>
    BY DEF TypeInv, FlowType
  <2> QED BY <2>1, <2>2 DEF TypeInv, FlowType
<1>2. LedgerType' /\ NodeType' /\ WorkType' /\ BoundType'
  BY Same DEF Unchanged, TypeInv
<1>3. RowInv'
  BY RowStep DEF Unchanged, work, ledger, TypeInv, FlowType
<1> QED BY <1>1, <1>2, <1>3 DEF TypeInv

(* A failed step *)
LEMMA FailTypes ==
    ASSUME TypeInv, NEW i \in Instances, pc[i] # "idle", Fail(i),
           UNCHANGED <<inst, attempt, snapshot, lock, pinned, leases, recency>>,
           Unchanged(<<>>)
    PROVE  TypeInv'
<1>1. victims' = [victims EXCEPT ![i] = <<>>]
  BY DEF Fail
<1>2. \A j \in Instances : victims'[j] = IF j = i THEN <<>> ELSE victims[j]
  BY <1>1 DEF TypeInv, FlowType
<1>3. \A j \in Instances : NoDup(victims[j])'
  BY <1>2 DEF TypeInv, FlowType, NoDup
<1>4. FlowType'
  <2>1. victims' \in [Instances -> Seq(Instances)]
    BY <1>1 DEF TypeInv, FlowType
  <2>2. /\ inst' \in [Instances -> States] /\ dec' \in [Instances -> Decisions]
        /\ pc' \in [Instances -> Steps] /\ attempt' \in [Instances -> 0..MaxAttempts]
    BY DEF Fail, TypeInv, FlowType, Decisions, Steps
  <2>3. \A j \in Instances :
          /\ inst'[j] = "requested" => pc'[j] = "idle"
          /\ pc'[j] \in {"idle", "start"} => attempt'[j] < MaxAttempts
          /\ pc'[j] \in {"evict", "unloading"} <=> victims'[j] # <<>>
    BY <1>2 DEF Fail, TypeInv, FlowType
  <2> QED BY <1>3, <2>1, <2>2, <2>3 DEF TypeInv, FlowType
<1>5. /\ res' \in [Instances -> Rows]
      /\ \A j \in Instances : res'[j] # None <=> res[j] # None
  BY DEF Fail, TypeInv, LedgerType, Rows, Counted, None
<1>6. LedgerType'
  BY <1>5, RowsTypes DEF TypeInv, LedgerType
<1>7. NodeType' /\ WorkType' /\ BoundType'
  BY Same DEF Unchanged, TypeInv
<1>8. \A j, v \in Instances : Has(victims'[j], v) => Has(victims[j], v)
  BY <1>2 DEF Has
<1>9. RowInv'
  BY <1>5, <1>8, RowStep DEF Unchanged, work
<1> QED BY <1>4, <1>6, <1>7, <1>9 DEF TypeInv

(* The transactions of a placement decision *)
LEMMA DecisionTypes ==
    ASSUME TypeInv, NEW i \in Instances, Decision(i) PROVE TypeInv'
<1>1. CASE Start(i)
  <2>1. /\ dec' \in [Instances -> Decisions] /\ pc[i] = "start"
        /\ \E p \in {"done", "plan"} : pc' = [pc EXCEPT ![i] = p]
        /\ UNCHANGED <<inst, victims, snapshot, lock>> /\ UNCHANGED ledger
        /\ Unchanged(<<>>)
    BY <1>1 DEF Start, Unchanged, TypeInv, FlowType, Decisions
  <2>2. /\ attempt' \in [Instances -> 0..MaxAttempts]
        /\ \A j \in Instances : j # i => attempt'[j] = attempt[j]
    <3>1. attempt[i] < MaxAttempts /\ MaxAttempts \in Nat
          /\ attempt \in [Instances -> 0..MaxAttempts]
      BY <2>1, PlacementAssumption DEF TypeInv, FlowType
    <3>2. attempt' = [attempt EXCEPT ![i] = attempt[i] + 1]
      BY <1>1 DEF Start
    <3> QED BY <3>1, <3>2
  <2>3. PICK p \in {"done", "plan"} : pc' = [pc EXCEPT ![i] = p]
    BY <2>1
  <2>4. /\ snapshot'.free \in Int /\ snapshot'.held \in SUBSET Instances
        /\ \A v \in snapshot'.held : res[v] # None
        /\ lock' \in Instances \cup {None}
    BY <2>1 DEF TypeInv, FlowType, RowInv
  <2>5. p \in Steps \ {"idle", "start", "evict", "unloading"}
    BY <2>3 DEF Steps
  <2> QED BY <2>1, <2>2, <2>3, <2>4, <2>5, MoveTypes
<1>2. CASE Plan(i)
  <2> DEFINE free == Budget - Occupied
             held == Holding({"held"})
  <2>1. /\ pc[i] = "plan" /\ UNCHANGED <<inst, attempt, pinned, leases>>
        /\ Unchanged(<<>>)
    BY <1>2 DEF Plan
  <2>2. \/ /\ \E plan \in Plans(Size[i], free, held) : Admit(i, plan)
           /\ UNCHANGED <<snapshot, lock>>
        \/ /\ pc' = [pc EXCEPT ![i] = "draining"] /\ lock' = i
           /\ snapshot' = [free |-> free, held |-> held]
           /\ UNCHANGED <<dec, victims, res, recency>>
        \/ Refuse(i) /\ UNCHANGED <<snapshot, lock>>
    BY <1>2 DEF Plan
  <2>3. free \in Int
    BY BytesNat, PlacementAssumption DEF Occupied, Holding, TypeInv, NodeType
  <2>4. held \in SUBSET Instances /\ \A v \in held : res[v] # None
    BY DEF Holding, None
  <2> HIDE DEF free, held
  <2>5. CASE /\ \E plan \in Plans(Size[i], free, held) : Admit(i, plan)
             /\ UNCHANGED <<snapshot, lock>>
    BY <2>1, <2>5, AdmitTypes DEF TypeInv, FlowType
  <2>6. CASE /\ pc' = [pc EXCEPT ![i] = "draining"] /\ lock' = i
             /\ snapshot' = [free |-> free, held |-> held]
             /\ UNCHANGED <<dec, victims, res, recency>>
    BY <2>1, <2>3, <2>4, <2>6, MoveTypes DEF TypeInv, FlowType, Steps, ledger
  <2>7. CASE Refuse(i) /\ UNCHANGED <<snapshot, lock>>
    BY <2>1, <2>7, MoveTypes
       DEF TypeInv, FlowType, RowInv, Steps, ledger, Refuse, Decisions
  <2> QED BY <2>2, <2>5, <2>6, <2>7
<1>3. CASE Replan(i)
  <2>1. /\ pc[i] = "draining" /\ UNCHANGED <<inst, attempt, pinned, leases>>
        /\ Unchanged(<<>>) /\ lock' = None /\ snapshot'.free \in Int
        /\ snapshot'.held = {}
    BY <1>3 DEF Replan
  <2>2. CASE \E plan \in Plans(Size[i], snapshot.free, snapshot.held) : Admit(i, plan)
    BY <2>1, <2>2, AdmitTypes
  <2>3. CASE Refuse(i)
    BY <2>1, <2>3, MoveTypes
       DEF TypeInv, FlowType, RowInv, Steps, ledger, Refuse, Decisions
  <2> QED BY <1>3, <2>2, <2>3 DEF Replan
<1>4. CASE Evict(i)
  <2> DEFINE v == Head(victims[i])
  <2>1. pc[i] = "evict" /\ victims[i] # <<>> /\ victims[i] \in Seq(Instances)
        /\ NoDup(victims[i])
    BY <1>4 DEF Evict, TypeInv, FlowType
  <2>2. v \in Instances /\ Has(victims[i], v)
    BY <2>1, DropHead
  <2>3. res[v] # None
    BY <2>2 DEF TypeInv, RowInv
  <2> HIDE DEF v
  <2>4. CASE engine[v] \in {"starting", "ready"}
    <3>1. /\ res' = [res EXCEPT ![v] = "releasing"] /\ Enqueue(<<"unload", i, v>>)
          /\ pc' = [pc EXCEPT ![i] = "unloading"] /\ call' = call
          /\ UNCHANGED <<inst, dec, attempt, victims, snapshot, lock>>
          /\ UNCHANGED <<pinned, leases, recency>>
          /\ UNCHANGED <<engine, proc, measured, ttl>> /\ UNCHANGED faults
      BY <1>4, <2>4 DEF Evict, v
    <3>2. <<"unload", i, v>> \in Commands /\ <<"unload", i, v>>[3] = v
      BY <2>2, CommandFacts
    <3>3. WorkType' /\ \A x \in Commands : x # <<"unload", i, v>> => cmd'[x] = cmd[x]
      BY <3>1, <3>2, Enqueues DEF TypeInv
    <3>4. FlowType'
      <4>1. pc' \in [Instances -> Steps] /\ \A j \in Instances : NoDup(victims[j])'
        BY <3>1 DEF TypeInv, FlowType, NoDup, Steps
      <4>2. \A j \in Instances :
          /\ inst'[j] = "requested" => pc'[j] = "idle"
          /\ pc'[j] \in {"idle", "start"} => attempt'[j] < MaxAttempts
          /\ pc'[j] \in {"evict", "unloading"} <=> victims'[j] # <<>>
        BY <2>1, <3>1 DEF TypeInv, FlowType
      <4> QED BY <3>1, <4>1, <4>2 DEF TypeInv, FlowType
    <3>5. /\ res' \in [Instances -> Rows]
          /\ \A j \in Instances : res'[j] # None <=> res[j] # None
      BY <2>2, <2>3, <3>1 DEF TypeInv, LedgerType, Rows, Counted, None
    <3>6. LedgerType'
      BY <3>1, <3>5, RowsTypes DEF TypeInv, LedgerType
    <3>7. NodeType' /\ BoundType'
      BY <3>1, Same DEF TypeInv
    <3>8. RowInv'
      BY <2>2, <2>3, <3>1, <3>2, <3>3, <3>5, RowStep
    <3> QED BY <3>3, <3>4, <3>6, <3>7, <3>8 DEF TypeInv
  <2>5. CASE engine[v] \notin {"starting", "ready"}
    <3>1. /\ Fail(i) /\ Unchanged(<<>>)
          /\ UNCHANGED <<inst, attempt, snapshot, lock, pinned, leases, recency>>
      BY <1>4, <2>5 DEF Evict, v, Unchanged, work
    <3> QED BY <2>1, <3>1, FailTypes
  <2> QED BY <2>4, <2>5
<1>5. CASE Unloaded(i)
  <2> DEFINE rest == Tail(victims[i])
  <2>1. /\ pc[i] = "unloading" /\ Unchanged(<<>>)
        /\ UNCHANGED <<inst, attempt, snapshot, lock, pinned, leases, recency>>
    BY <1>5 DEF Unloaded
  <2>2. CASE Fail(i)
    BY <2>1, <2>2, FailTypes
  <2>3. CASE /\ victims' = [victims EXCEPT ![i] = rest]
             /\ pc' = [pc EXCEPT ![i] = IF rest = <<>> THEN "reserve" ELSE "evict"]
             /\ UNCHANGED <<dec, res>>
    <3>1. victims[i] # <<>> /\ victims[i] \in Seq(Instances) /\ NoDup(victims[i])
      BY <2>1 DEF TypeInv, FlowType
    <3>2. /\ rest \in Seq(Instances) /\ NoDup(rest)
          /\ \A y : Has(rest, y) => Has(victims[i], y)
      BY <3>1, DropHead
    <3> HIDE DEF rest
    <3>3. \A j \in Instances : victims'[j] = IF j = i THEN rest ELSE victims[j]
      BY <2>3 DEF TypeInv, FlowType
    <3>4. \A j \in Instances : NoDup(victims[j])'
      BY <3>2, <3>3 DEF TypeInv, FlowType, NoDup
    <3>5. FlowType'
      <4>1. victims' \in [Instances -> Seq(Instances)]
        BY <2>3, <3>2 DEF TypeInv, FlowType
      <4>2. pc' \in [Instances -> Steps]
        BY <2>3 DEF TypeInv, FlowType, Steps
      <4>3. \A j \in Instances :
          /\ inst'[j] = "requested" => pc'[j] = "idle"
          /\ pc'[j] \in {"idle", "start"} => attempt'[j] < MaxAttempts
          /\ pc'[j] \in {"evict", "unloading"} <=> victims'[j] # <<>>
        BY <2>1, <2>3, <3>3 DEF TypeInv, FlowType
      <4> QED BY <2>1, <2>3, <3>4, <4>1, <4>2, <4>3 DEF TypeInv, FlowType
    <3>6. LedgerType' /\ NodeType' /\ WorkType' /\ BoundType'
      BY <2>1, <2>3, Same DEF Unchanged, TypeInv, ledger
    <3>7. \A j, v \in Instances : Has(victims'[j], v) => Has(victims[j], v)
      BY <3>2, <3>3
    <3>8. RowInv'
      BY <2>1, <2>3, <3>7, RowStep DEF Unchanged, work
    <3> QED BY <3>5, <3>6, <3>8 DEF TypeInv
  <2> QED BY <1>5, <2>2, <2>3 DEF Unloaded
<1>6. CASE Reserve(i)
  <2>1. /\ pc[i] = "reserve" /\ MakePending(i) /\ Enqueue(Load(i)) /\ call' = call
        /\ engine' = [engine EXCEPT ![i] = IF @ = None THEN "starting" ELSE @]
        /\ dec' = [dec EXCEPT ![i] = "loading"] /\ pc' = [pc EXCEPT ![i] = "loading"]
        /\ UNCHANGED <<inst, attempt, victims, snapshot, lock>>
        /\ UNCHANGED <<pinned, leases>> /\ UNCHANGED <<proc, measured, ttl>>
        /\ UNCHANGED faults
    BY <1>6 DEF Reserve, Load
  <2>2. Load(i) \in Commands /\ Load(i)[3] = i
    BY CommandFacts
  <2>3. WorkType' /\ \A x \in Commands : x # Load(i) => cmd'[x] = cmd[x]
    BY <2>1, <2>2, Enqueues DEF TypeInv
  <2>4. LedgerType' /\ res' = [res EXCEPT ![i] = "pending"]
    BY <2>1, PendingTypes DEF TypeInv
  <2>5. FlowType'
    <3>1. /\ pc' \in [Instances -> Steps] /\ dec' \in [Instances -> Decisions]
          /\ \A j \in Instances : NoDup(victims[j])'
      BY <2>1 DEF TypeInv, FlowType, NoDup, Steps, Decisions
    <3>2. \A j \in Instances :
          /\ inst'[j] = "requested" => pc'[j] = "idle"
          /\ pc'[j] \in {"idle", "start"} => attempt'[j] < MaxAttempts
          /\ pc'[j] \in {"evict", "unloading"} <=> victims'[j] # <<>>
      BY <2>1 DEF TypeInv, FlowType
    <3> QED BY <2>1, <3>1, <3>2 DEF TypeInv, FlowType
  <2>6. NodeType' /\ BoundType'
    BY <2>1, Same DEF TypeInv, NodeType, Engines, Running
  <2>7. \A v \in Instances : res[v] # None => res'[v] # None
    BY <2>4 DEF TypeInv, LedgerType, None
  <2>8. res'[i] # None
    BY <2>4 DEF TypeInv, LedgerType, None
  <2>9. RowInv'
    BY <2>1, <2>2, <2>3, <2>7, <2>8, RowStep
  <2> QED BY <2>3, <2>4, <2>5, <2>6, <2>9 DEF TypeInv
<1>7. CASE Loaded(i)
  <2>1. /\ pc[i] = "loading" /\ Unchanged(<<>>)
        /\ UNCHANGED <<inst, attempt, snapshot, lock, pinned, leases, recency>>
    BY <1>7 DEF Loaded
  <2>2. CASE Fail(i)
    BY <2>1, <2>2, FailTypes
  <2>3. CASE /\ dec' = [dec EXCEPT ![i] = "ready"] /\ pc' = [pc EXCEPT ![i] = "done"]
             /\ UNCHANGED <<victims, res>>
    BY <2>1, <2>3, MoveTypes DEF TypeInv, FlowType, RowInv, Steps, ledger, Decisions
  <2> QED BY <1>7, <2>2, <2>3 DEF Loaded
<1> QED BY <1>1, <1>2, <1>3, <1>4, <1>5, <1>6, <1>7 DEF Decision

(* Only instances change their state. *)
LEMMA InstTypes ==
    ASSUME TypeInv, NEW i \in Instances, NEW s \in States \ {"requested"},
           inst' = [inst EXCEPT ![i] = s],
           s \in {"ready", "draining"} => res[i] # None,
           UNCHANGED <<dec, pc, attempt, victims, snapshot, lock>>,
           UNCHANGED ledger, Unchanged(<<>>)
    PROVE  TypeInv'
<1>1. FlowType'
  BY DEF TypeInv, FlowType, NoDup
<1>2. LedgerType' /\ NodeType' /\ WorkType' /\ BoundType'
  BY Same DEF Unchanged, TypeInv
<1>3. RowInv'
  <2>1. \A j \in Instances : inst'[j] \in {"ready", "draining"} =>
            inst[j] \in {"ready", "draining"} \/ res'[j] # None
    BY DEF TypeInv, FlowType, ledger
  <2> QED BY <2>1, RowStep DEF Unchanged, work, ledger
<1> QED BY <1>1, <1>2, <1>3 DEF TypeInv

(* A reservation and an instance end. *)
LEMMA EndTypes ==
    ASSUME TypeInv, inst' \in [Instances -> States],
           \A i \in Instances : inst'[i] = inst[i] \/ inst'[i] \in Terminal,
           res' \in [Instances -> Rows],
           \A i \in Instances : res'[i] # None <=> res[i] # None,
           leases' \in [Instances -> 0..MaxLeases],
           UNCHANGED <<dec, pc, attempt, victims, snapshot, lock>>,
           UNCHANGED <<pinned, recency>>
    PROVE  /\ FlowType' /\ LedgerType'
           /\ \A i \in Instances : inst'[i] \in {"ready", "draining"} =>
                 inst[i] \in {"ready", "draining"} \/ res'[i] # None
<1>1. FlowType'
  BY DEF TypeInv, FlowType, NoDup, Terminal
<1>2. LedgerType'
  BY RowsTypes DEF TypeInv, LedgerType
<1> QED BY <1>1, <1>2 DEF Terminal

(* The launch and drain workflows and the operator's request to drain *)
LEMMA InstanceTypes ==
    ASSUME TypeInv, NEW i \in Instances, Instance(i) \/ DrainRequest(i)
    PROVE  TypeInv'
<1>1. CASE Launch(i)
  <2>1. FlowType'
    BY <1>1 DEF Launch, TypeInv, FlowType, NoDup, States, Decisions, Steps
  <2>2. LedgerType' /\ NodeType' /\ WorkType' /\ BoundType'
    BY <1>1, Same DEF Launch, Unchanged, TypeInv
  <2>3. RowInv'
    <3>1. \A j \in Instances : inst'[j] \in {"ready", "draining"} =>
            inst[j] \in {"ready", "draining"} \/ res'[j] # None
      BY <1>1 DEF Launch, TypeInv, FlowType
    <3> QED BY <1>1, <3>1, RowStep DEF Launch, Unchanged, work, ledger
  <2> QED BY <2>1, <2>2, <2>3 DEF TypeInv
<1>2. CASE LaunchFails(i)
  <2>1. /\ inst' \in [Instances -> States]
        /\ \A j \in Instances : inst'[j] = inst[j] \/ inst'[j] \in Terminal
        /\ res' \in [Instances -> Rows]
        /\ \A j \in Instances : res'[j] # None <=> res[j] # None
    BY <1>2 DEF LaunchFails, TypeInv, FlowType, LedgerType, States, Terminal,
                Rows, Counted, None
  <2>2. /\ FlowType' /\ LedgerType'
        /\ \A j \in Instances : inst'[j] \in {"ready", "draining"} =>
              inst[j] \in {"ready", "draining"} \/ res'[j] # None
    BY <1>2, <2>1, EndTypes DEF LaunchFails, TypeInv, LedgerType
  <2>3. NodeType' /\ WorkType' /\ BoundType'
    BY <1>2, Same DEF LaunchFails, Unchanged, TypeInv
  <2>4. RowInv'
    BY <1>2, <2>1, <2>2, RowStep DEF LaunchFails, Unchanged, work
  <2> QED BY <2>2, <2>3, <2>4 DEF TypeInv
<1>3. CASE LaunchLoads(i) \/ LaunchReady(i) \/ DrainRequest(i)
  <2>1. PICK s \in {"launching", "ready", "draining"} :
            /\ inst' = [inst EXCEPT ![i] = s]
            /\ s \in {"ready", "draining"} => res[i] # None
            /\ UNCHANGED <<dec, pc, attempt, victims, snapshot, lock>>
            /\ UNCHANGED ledger /\ Unchanged(<<>>)
    BY <1>3 DEF LaunchLoads, LaunchReady, DrainRequest, Unchanged, None,
                TypeInv, RowInv
  <2> QED BY <2>1, InstTypes DEF States
<1>4. CASE Drained(i)
  <2>1. PICK s \in Terminal :
            /\ inst' = [inst EXCEPT ![i] = s]
            /\ UNCHANGED <<dec, pc, attempt, victims, snapshot, lock>>
            /\ UNCHANGED ledger /\ Unchanged(<<>>)
    BY <1>4 DEF Drained, Unchanged, Terminal
  <2> QED BY <2>1, InstTypes DEF States, Terminal
<1>5. CASE Drain(i)
  <2>1. res[i] # None
    BY <1>5 DEF Drain, TypeInv, RowInv
  <2>2. <<"unload", Operator, i>> \in Commands /\ <<"unload", Operator, i>>[3] = i
    BY CommandFacts
  <2>3. /\ WorkType'
        /\ \A x \in Commands : x # <<"unload", Operator, i>> => cmd'[x] = cmd[x]
    BY <1>5, <2>2, Enqueues DEF Drain, TypeInv
  <2>4. /\ res' \in [Instances -> Rows]
        /\ \A j \in Instances : res'[j] # None <=> res[j] # None
        /\ leases' \in [Instances -> 0..MaxLeases]
    BY <1>5, <2>1, PlacementAssumption
       DEF Drain, TypeInv, LedgerType, Rows, Counted, None
  <2>5. LedgerType'
    BY <1>5, <2>4, RowsTypes DEF Drain, TypeInv, LedgerType
  <2>6. FlowType' /\ NodeType' /\ BoundType'
    BY <1>5, Same DEF Drain, TypeInv
  <2>7. RowInv'
    BY <1>5, <2>1, <2>2, <2>3, <2>4, RowStep DEF Drain, flow
  <2> QED BY <2>3, <2>5, <2>6, <2>7 DEF TypeInv
<1> QED BY <1>1, <1>2, <1>3, <1>4, <1>5 DEF Instance

(* The head of the queue and its target *)
LEMMA CurrentFacts ==
    ASSUME TypeInv, queue # <<>>
    PROVE  /\ Current \in Commands /\ cmd[Current] = "queued" /\ Target \in Instances
           /\ res[Target] # None
           /\ Current[1] = "load" => Current = Load(Target)
           /\ Current[1] = "unload" => Current \in Unloads
<1>1. Current \in Commands /\ Has(queue, Current)
  BY DropHead DEF TypeInv, WorkType, Current
<1>2. cmd[Current] = "queued"
  BY <1>1 DEF TypeInv, WorkType
<1>3. Target \in Instances /\ (Current \in Unloads \/ Current = Load(Target))
  BY <1>1, CommandFacts DEF Target
<1>4. res[Target] # None
  BY <1>1, <1>2 DEF TypeInv, RowInv, Target, None
<1>5. /\ Current \in Unloads => Current[1] = "unload"
      /\ Current = Load(Target) => Current[1] = "load"
  BY <1>3, CommandFacts
<1> QED BY <1>1, <1>2, <1>3, <1>4, <1>5

(* Nothing but the node and the executor's place changes. *)
LEMMA NodeTypes ==
    ASSUME TypeInv, NodeType', WorkType', BoundType', UNCHANGED flow, UNCHANGED ledger,
           ttl' = None \/ ttl' = ttl \/ res[ttl'] # None,
           \A e \in Commands : cmd'[e] # None => cmd[e] # None
    PROVE  TypeInv'
<1>1. FlowType' /\ LedgerType'
  BY Same DEF TypeInv
<1>2. RowInv'
  BY RowStep DEF flow, ledger
<1> QED BY <1>1, <1>2 DEF TypeInv

(* The executor and the deadline of its call *)
LEMMA ExecutorTypes == ASSUME TypeInv, Executor \/ Expire PROVE TypeInv'
<1>1. ASSUME queue # <<>>, NEW state \in {"succeeded", "failed"}, Finish(state),
             UNCHANGED flow, UNCHANGED ledger, UNCHANGED <<engine, proc, measured, ttl>>,
             BoundType'
      PROVE  TypeInv'
  <2>1. WorkType' /\ \A x \in Commands : cmd'[x] # None => cmd[x] # None
    BY <1>1, Finishes DEF TypeInv, None
  <2>2. NodeType'
    BY <1>1, Same DEF TypeInv
  <2> QED BY <1>1, <2>1, <2>2, NodeTypes
<1>2. call # "idle" => queue # <<>>
  BY DEF TypeInv, WorkType
<1>3. CASE LoadCall \/ UnloadCall
  <2>1. queue # <<>>
    BY <1>3 DEF LoadCall, UnloadCall, IsCurrent
  <2>2. Target \in Instances
    BY <2>1, CurrentFacts
  <2>3. CASE Finish("failed") /\ proc' = proc
    BY <1>1, <1>3, <2>1, <2>3, Same DEF LoadCall, UnloadCall, TypeInv
  <2>4. CASE call' = "called" /\ UNCHANGED <<cmd, queue>>
    <3>1. WorkType'
      BY <2>1, <2>4 DEF TypeInv, WorkType, NoDup, Has
    <3>2. NodeType'
      BY <1>3, <2>2, <2>4 DEF LoadCall, UnloadCall, TypeInv, NodeType, Engines, Running, Terminal
    <3> QED BY <1>3, <2>4, <3>1, <3>2, NodeTypes, Same DEF LoadCall, UnloadCall, TypeInv
  <2> QED BY <1>3, <2>3, <2>4 DEF LoadCall, UnloadCall
<1>4. CASE LoadApply \/ UnloadApply
  <2>1. queue # <<>> /\ call' = "applied" /\ UNCHANGED <<cmd, queue>>
    BY <1>4 DEF LoadApply, UnloadApply, IsCurrent
  <2>2. Target \in Instances /\ res[Target] # None
    BY <2>1, CurrentFacts
  <2>3. /\ inst' \in [Instances -> States]
        /\ \A j \in Instances : inst'[j] = inst[j] \/ inst'[j] \in Terminal
        /\ res' \in [Instances -> Rows]
        /\ \A j \in Instances : res'[j] # None <=> res[j] # None
    BY <1>4, <2>2 DEF LoadApply, UnloadApply, flow, TypeInv, FlowType, LedgerType,
                      States, Terminal, Rows, Counted, None
  <2>4. /\ UNCHANGED <<dec, pc, attempt, victims, snapshot, lock>>
        /\ UNCHANGED <<pinned, leases, recency>>
    BY <1>4 DEF LoadApply, UnloadApply, flow
  <2>5. /\ FlowType' /\ LedgerType'
        /\ \A j \in Instances : inst'[j] \in {"ready", "draining"} =>
              inst[j] \in {"ready", "draining"} \/ res'[j] # None
    BY <2>3, <2>4, EndTypes DEF TypeInv, LedgerType
  <2>6. WorkType'
    BY <2>1 DEF TypeInv, WorkType, NoDup, Has
  <2>7. NodeType' /\ BoundType'
    BY <1>4, <2>2, Same DEF LoadApply, UnloadApply, TypeInv, NodeType, Engines, Running, Terminal
  <2>8. RowInv'
    BY <1>4, <2>1, <2>3, <2>4, <2>5, RowStep DEF LoadApply, UnloadApply
  <2> QED BY <2>5, <2>6, <2>7, <2>8 DEF TypeInv
<1>5. CASE Succeed \/ LoadDies
  BY <1>1, <1>2, <1>5, Same DEF Succeed, LoadDies, TypeInv
<1>6. CASE Expire
  <2>1. BoundType'
    BY <1>6, PlacementAssumption DEF Expire, TypeInv, BoundType
  <2> QED BY <1>1, <1>2, <1>6, <2>1 DEF Expire
<1> QED BY <1>3, <1>4, <1>5, <1>6 DEF Executor

(* The idle pass, the gateway, the operator's pins and the node *)
LEMMA NodeStepTypes ==
    ASSUME TypeInv,
           \/ IdleReleased \/ Sample \/ UNCHANGED vars
           \/ \E i \in Instances : \/ IdleFound(i) \/ AcquireLease(i) \/ EndLease(i)
                                   \/ SetPin(i) \/ Progress(i) \/ Die(i)
    PROVE  TypeInv'
<1>1. CASE IdleReleased
  <2>1. ttl \in Instances /\ ttl # None /\ res[ttl] # None
    BY <1>1, NamesAssumption DEF IdleReleased, TypeInv, NodeType, RowInv
  <2>2. /\ WorkType' /\ <<"unload", Idle, ttl>> \in Commands
        /\ \A x \in Commands : x # <<"unload", Idle, ttl>> => cmd'[x] = cmd[x]
    BY <1>1, <2>1, IdleQueues DEF TypeInv
  <2>3. <<"unload", Idle, ttl>>[3] = ttl
    OBVIOUS
  <2>4. /\ res' \in [Instances -> Rows]
        /\ \A j \in Instances : res'[j] # None <=> res[j] # None
    BY <1>1, <2>1 DEF IdleReleased, TypeInv, LedgerType, Rows, Counted, None
  <2>5. LedgerType'
    BY <1>1, <2>4, RowsTypes DEF IdleReleased, TypeInv, LedgerType
  <2>6. FlowType' /\ NodeType' /\ BoundType'
    BY <1>1, Same DEF IdleReleased, TypeInv, NodeType
  <2>7. RowInv'
    BY <1>1, <2>1, <2>2, <2>3, <2>4, RowStep DEF IdleReleased, flow
  <2> QED BY <2>2, <2>5, <2>6, <2>7 DEF TypeInv
<1>2. CASE Sample
  <2>1. measured' \in 0..Bytes(Instances)
    <3> DEFINE R == {i \in Instances : proc[i] \in Running}
    <3>1. Bytes(R) \in Nat /\ Bytes(Instances) \in Nat /\ Bytes(R) <= Bytes(Instances)
      BY BytesNat, BytesDiff
    <3>2. measured' = Bytes(R)
      BY <1>2 DEF Sample
    <3> QED BY <3>1, <3>2
  <2>2. NodeType'
    BY <1>2, <2>1 DEF Sample, TypeInv, NodeType
  <2> QED BY <1>2, <2>2, NodeTypes, Same DEF Sample, TypeInv, work
<1>3. CASE UNCHANGED vars
  BY <1>3, NodeTypes, Same DEF vars, TypeInv, work
<1>4. ASSUME NEW i \in Instances, IdleFound(i) PROVE TypeInv'
  <2>1. NodeType' /\ res[ttl'] # None
    BY <1>4 DEF IdleFound, TypeInv, NodeType, None
  <2> QED BY <1>4, <2>1, NodeTypes, Same DEF IdleFound, TypeInv, work
<1>5. ASSUME NEW i \in Instances, AcquireLease(i) \/ EndLease(i) \/ SetPin(i)
      PROVE  TypeInv'
  <2>1. UNCHANGED flow /\ Unchanged(<<>>) /\ res' = res
    BY <1>5 DEF AcquireLease, EndLease, SetPin, Unchanged
  <2>2. pinned' \in [Instances -> BOOLEAN] /\ leases' \in [Instances -> 0..MaxLeases]
    <3>1. MaxLeases \in Nat
      BY PlacementAssumption
    <3>2. pinned \in [Instances -> BOOLEAN] /\ leases \in [Instances -> 0..MaxLeases]
      BY DEF TypeInv, LedgerType
    <3>3. /\ pinned' = pinned \/ pinned' = [pinned EXCEPT ![i] = ~pinned[i]]
          /\ \/ leases' = leases
             \/ leases[i] < MaxLeases /\ leases' = [leases EXCEPT ![i] = leases[i] + 1]
             \/ leases[i] > 0 /\ leases' = [leases EXCEPT ![i] = leases[i] - 1]
      BY <1>5 DEF AcquireLease, EndLease, SetPin
    <3>4. pinned' \in [Instances -> BOOLEAN]
      BY <3>2, <3>3, Zenon
    <3>5. leases' \in [Instances -> 0..MaxLeases]
      BY <3>1, <3>2, <3>3
    <3> QED BY <3>4, <3>5
  <2>3. LedgerType'
    <3>1. CASE recency' = recency
      BY <2>1, <2>2, <3>1, RowsTypes DEF TypeInv, LedgerType
    <3>2. CASE AcquireLease(i)
      <4>1. recency' = Append(RemoveFirst(recency, i), i) /\ Has(recency, i)
        BY <3>2 DEF AcquireLease, Touch, TypeInv, LedgerType, None
      <4>2. /\ recency' \in Seq(Instances) /\ NoDup(recency')
            /\ \A y : Has(recency', y) <=> Has(recency, y)
        BY <4>1, ToTheEnd DEF TypeInv, LedgerType
      <4>3. NoDup(recency)' /\ \A y \in Instances : Has(recency, y)' <=> res'[y] # None
        BY <2>1, <4>2 DEF TypeInv, LedgerType, NoDup, Has
      <4> QED BY <2>1, <2>2, <4>2, <4>3 DEF TypeInv, LedgerType
    <3> QED BY <1>5, <3>1, <3>2 DEF EndLease, SetPin
  <2>4. FlowType' /\ NodeType' /\ WorkType' /\ BoundType'
    BY <2>1, Same DEF TypeInv, Unchanged
  <2>5. RowInv'
    BY <2>1, RowStep DEF flow, Unchanged, work
  <2> QED BY <2>3, <2>4, <2>5 DEF TypeInv
<1>6. ASSUME NEW i \in Instances, Progress(i) \/ Die(i) PROVE TypeInv'
  <2>1. NodeType'
    BY <1>6 DEF Progress, Die, TypeInv, NodeType, Engines, Running, Terminal
  <2>2. BoundType'
    BY <1>6, PlacementAssumption DEF Progress, Die, TypeInv, BoundType, faults
  <2> QED BY <1>6, <2>1, <2>2, NodeTypes, Same DEF Progress, Die, TypeInv, work
<1> QED BY <1>1, <1>2, <1>3, <1>4, <1>5, <1>6

(* The reconciler and a restart of the scheduler *)
LEMMA ReconcilerTypes ==
    ASSUME TypeInv, Crash \/ \E i \in Instances : Reconciler(i) \/ Unknown(i)
    PROVE  TypeInv'
<1>1. CASE Crash
  <2>1. FlowType'
    BY <1>1, PlacementAssumption DEF Crash, TypeInv, FlowType, NoDup, Steps
  <2>2. LedgerType'
    BY <1>1, Same DEF Crash, TypeInv
  <2>3. NodeType' /\ WorkType' /\ BoundType'
    BY <1>1, PlacementAssumption
       DEF Crash, TypeInv, NodeType, WorkType, BoundType, NoDup, Has
  <2>4. RowInv'
    <3>1. \A i, v \in Instances : ~Has(victims'[i], v)
      BY <1>1 DEF Crash, Has
    <3> QED BY <1>1, <3>1, RowStep DEF Crash, ledger
  <2> QED BY <2>1, <2>2, <2>3, <2>4 DEF TypeInv
<1>2. ASSUME NEW i \in Instances, Sync(i) \/ Unknown(i) \/ ReleaseTerminal(i)
      PROVE  TypeInv'
  <2>1. /\ inst' \in [Instances -> States]
        /\ \A j \in Instances : inst'[j] = inst[j] \/ inst'[j] \in Terminal
        /\ res' \in [Instances -> Rows]
        /\ \A j \in Instances : res'[j] # None <=> res[j] # None
    <3>1. inst \in [Instances -> States] /\ res \in [Instances -> Rows]
      BY DEF TypeInv, FlowType, LedgerType
    <3>2. CASE UNCHANGED <<inst, res>>
      BY <3>1, <3>2
    <3>3. CASE FailInstance(i)
      BY <3>1, <3>3 DEF FailInstance, States, Terminal, Rows, Counted, None
    <3>4. CASE ReleaseTerminal(i)
      BY <3>1, <3>4 DEF ReleaseTerminal, flow, Rows, Counted, None
    <3> QED BY <1>2, <3>2, <3>3, <3>4 DEF Sync, Unknown
  <2>2. /\ UNCHANGED <<dec, pc, attempt, victims, snapshot, lock>>
        /\ UNCHANGED <<pinned, leases, recency>>
        /\ UNCHANGED <<proc, measured, ttl>> /\ UNCHANGED work
    BY <1>2 DEF Sync, Unknown, ReleaseTerminal, flow, Unchanged
  <2>3. /\ FlowType' /\ LedgerType'
        /\ \A j \in Instances : inst'[j] \in {"ready", "draining"} =>
              inst[j] \in {"ready", "draining"} \/ res'[j] # None
    BY <2>1, <2>2, EndTypes DEF TypeInv, LedgerType
  <2>4. NodeType'
    BY <1>2, <2>2 DEF Sync, Unknown, ReleaseTerminal, Unchanged, TypeInv, NodeType,
                      Engines, Running, Terminal
  <2>5. WorkType' /\ BoundType'
    BY <1>2, <2>2, Same, PlacementAssumption
       DEF Sync, Unknown, ReleaseTerminal, Unchanged, TypeInv, BoundType, faults
  <2>6. RowInv'
    BY <2>1, <2>2, <2>3, RowStep DEF work
  <2> QED BY <2>3, <2>4, <2>5, <2>6 DEF TypeInv
<1> QED BY <1>1, <1>2 DEF Reconciler

(* No step of any actor breaks the types. *)
LEMMA TypeStep == TypeInv /\ [Next]_vars => TypeInv'
<1> SUFFICES ASSUME TypeInv, [Next]_vars PROVE TypeInv'
  OBVIOUS
<1>1. ASSUME NEW i \in Instances,
             \/ Decision(i) \/ Instance(i) \/ IdleFound(i) \/ Progress(i)
             \/ Reconciler(i) \/ Unknown(i) \/ Environment(i)
      PROVE  TypeInv'
  BY <1>1, DecisionTypes, InstanceTypes, NodeStepTypes, ReconcilerTypes, Zenon
     DEF Environment
<1>2. ASSUME \/ Executor \/ IdleReleased \/ Expire \/ Sample \/ Crash
             \/ UNCHANGED vars
      PROVE  TypeInv'
  BY <1>2, ExecutorTypes, NodeStepTypes, ReconcilerTypes, Zenon
<1> QED BY <1>1, <1>2, Zenon DEF Next

(* Every variable keeps its type, for all constants: the queue holds the   *)
(* commands that are queued and the recency order the reservation rows,    *)
(* each once, and no plan names an instance twice.                         *)
THEOREM Typing == Spec => []TypeOK
BY TypeInit, TypeStep, TypeSuffices, PTL DEF Spec

-----------------------------------------------------------------------------
(* What is routed to is counted *)

(* The rows a decision writes are rows of the instances. *)
Shape ==
    /\ DOMAIN inst = Instances /\ DOMAIN dec = Instances
    /\ DOMAIN pc = Instances /\ DOMAIN res = Instances

(* An instance is routed to only after its decision has ended well, and    *)
(* such a decision is never taken up again: nothing but an unload takes    *)
(* its reservation.                                                        *)
Settled(i) ==
    /\ inst[i] \in {"ready", "draining"} =>
           dec[i] = "ready" /\ res[i] \in {"held", "releasing"}
    /\ dec[i] = "ready" => pc[i] = "done"

LedgerInv == Shape /\ \A i \in Instances : Settled(i)

(* The residents are up, and nothing else has begun. *)
LEMMA LedgerInit == Init => LedgerInv
BY DEF Init, LedgerInv, Shape, Settled, None

(* The transactions of a placement decision *)
LEMMA DecisionKeeps ==
    ASSUME LedgerInv, NEW i \in Instances, Decision(i)
    PROVE  LedgerInv'
<1> USE DEF LedgerInv, Shape, Settled, ledger
<1>1. CASE Start(i)
  BY <1>1 DEF Start, Unchanged
<1>2. CASE Plan(i)
  <2>1. /\ pc[i] = "plan" /\ inst' = inst
        /\ \/ \E plan : Admit(i, plan)
           \/ pc' = [pc EXCEPT ![i] = "draining"] /\ dec' = dec /\ res' = res
           \/ Refuse(i)
    BY <1>2 DEF Plan
  <2> QED BY <2>1 DEF Admit, MakePending, Refuse
<1>3. CASE Replan(i)
  <2>1. /\ pc[i] = "draining" /\ inst' = inst
        /\ (\E plan : Admit(i, plan)) \/ Refuse(i)
    BY <1>3 DEF Replan
  <2> QED BY <2>1 DEF Admit, MakePending, Refuse
<1>4. CASE Evict(i)
  BY <1>4 DEF Evict, Fail
<1>5. CASE Unloaded(i)
  BY <1>5 DEF Unloaded, Fail, Unchanged
<1>6. CASE Reserve(i)
  BY <1>6 DEF Reserve, MakePending
<1>7. CASE Loaded(i)
  BY <1>7 DEF Loaded, Fail, Unchanged
<1> QED BY <1>1, <1>2, <1>3, <1>4, <1>5, <1>6, <1>7 DEF Decision

(* The launch and drain workflows and the operator's request to drain *)
LEMMA InstanceKeeps ==
    ASSUME LedgerInv, NEW i \in Instances, Instance(i) \/ DrainRequest(i)
    PROVE  LedgerInv'
<1> USE DEF LedgerInv, Shape, Settled, flow, ledger
<1>1. CASE Launch(i)
  BY <1>1 DEF Launch, Unchanged
<1>2. CASE LaunchFails(i)
  BY <1>2 DEF LaunchFails
<1>3. CASE LaunchLoads(i) \/ LaunchReady(i) \/ DrainRequest(i)
  BY <1>3 DEF LaunchLoads, LaunchReady, DrainRequest, Unchanged
<1>4. CASE Drain(i)
  BY <1>4 DEF Drain
<1>5. CASE Drained(i)
  BY <1>5 DEF Drained, Unchanged
<1> QED BY <1>1, <1>2, <1>3, <1>4, <1>5 DEF Instance

(* The executor's answers, the reconciler and a restart of the scheduler *)
LEMMA NodeKeeps ==
    ASSUME LedgerInv,
           \/ LoadApply \/ UnloadApply \/ Crash
           \/ \E i \in Instances : Reconciler(i) \/ Unknown(i)
    PROVE  LedgerInv'
<1> USE DEF LedgerInv, Shape, Settled, flow, ledger
<1>1. CASE LoadApply
  BY <1>1 DEF LoadApply
<1>2. CASE UnloadApply
  BY <1>2 DEF UnloadApply, Terminal
<1>3. CASE Crash
  BY <1>3 DEF Crash
<1>4. ASSUME NEW i \in Instances, Sync(i) \/ Unknown(i) PROVE LedgerInv'
  BY <1>4 DEF Sync, Unknown, FailInstance, Terminal
<1>5. ASSUME NEW i \in Instances, ReleaseTerminal(i) PROVE LedgerInv'
  BY <1>5 DEF ReleaseTerminal, Terminal, Unchanged
<1> QED BY <1>1, <1>2, <1>3, <1>4, <1>5 DEF Reconciler

(* Everything else leaves instances, decisions and reservations alone. *)
LEMMA RestKeeps ==
    ASSUME \/ LoadCall \/ UnloadCall \/ Succeed \/ LoadDies \/ Expire \/ Sample
           \/ \E i \in Instances : \/ IdleFound(i) \/ Progress(i)
                                   \/ AcquireLease(i) \/ EndLease(i)
                                   \/ SetPin(i) \/ Die(i)
           \/ UNCHANGED vars
    PROVE  UNCHANGED <<inst, dec, pc, res>>
BY DEF LoadCall, UnloadCall, Succeed, LoadDies, Expire, Sample, IdleFound,
       Progress, AcquireLease, EndLease, SetPin, Die, vars, flow, ledger

(* No step of any actor takes the memory of a routed instance. *)
LEMMA LedgerStep == LedgerInv /\ [Next]_vars => LedgerInv'
<1> SUFFICES ASSUME LedgerInv, [Next]_vars PROVE LedgerInv'
  OBVIOUS
<1>1. ASSUME UNCHANGED <<inst, dec, pc, res>> PROVE LedgerInv'
  BY <1>1 DEF LedgerInv, Shape, Settled
<1>2. ASSUME NEW i \in Instances,
             \/ Decision(i) \/ Instance(i) \/ IdleFound(i) \/ Progress(i)
             \/ Reconciler(i) \/ Unknown(i) \/ Environment(i)
      PROVE  LedgerInv'
  BY <1>1, <1>2, DecisionKeeps, InstanceKeeps, NodeKeeps, RestKeeps, Zenon
     DEF Environment
<1>3. ASSUME \/ Executor \/ Expire \/ Sample \/ Crash \/ UNCHANGED vars
      PROVE  LedgerInv'
  BY <1>1, <1>3, NodeKeeps, RestKeeps, Zenon DEF Executor
<1>4. ASSUME IdleReleased PROVE LedgerInv'
  BY <1>4 DEF IdleReleased, LedgerInv, Shape, Settled, flow
<1> QED BY <1>2, <1>3, <1>4, Zenon DEF Next

(* The ready instances have their memory counted, for all constants:      *)
(* evictions, idle releases, drains, restarted decisions and the          *)
(* reconciler give a reservation back only with its instance.             *)
THEOREM ReadySafety == Spec => []ReadyIsCounted
<1>1. LedgerInv => ReadyIsCounted
  BY DEF LedgerInv, Settled, ReadyIsCounted
<1> QED BY <1>1, LedgerInit, LedgerStep, PTL DEF Spec

-----------------------------------------------------------------------------
(* What a step may do *)

Active == {"evict", "unloading", "reserve", "loading"}
Routed == {"ready", "draining"}

(* To the queue: an unload is ordered with its reservation releasing, a    *)
(* load by the decision that reserves, and the oldest command ends.        *)
Orders(e) ==
    /\ cmd'[e] = "queued" /\ call' = call
    /\ \A x \in Commands : x # e => cmd'[x] = cmd[x]
    /\ queue # <<>> => queue' # <<>> /\ Head(queue') = Head(queue)
    /\ \/ e \in Unloads /\ res'[e[3]] = "releasing"
       \/ e = Load(e[3]) /\ cmd[e] = None /\ Reserve(e[3])

Ends(s) ==
    /\ queue # <<>> /\ cmd[Current] = "queued" /\ cmd'[Current] = s
    /\ \A x \in Commands : x # Current => cmd'[x] = cmd[x]
    /\ call' = "idle" /\ (s = "succeeded" <=> call = "applied")
    /\ UNCHANGED <<flow, ledger, engine, proc, ttl>>

WorkStep ==
    \/ UNCHANGED <<cmd, queue>>
    \/ \E e \in Commands : Orders(e)
    \/ \E s \in {"succeeded", "failed"} : Ends(s)

(* Every step handles the queue in one of these ways. *)
LEMMA WorkEffect == ASSUME TypeInv, [Next]_vars PROVE WorkStep
<1>1. ASSUME NEW i \in Instances, Evict(i) PROVE WorkStep
  <2> DEFINE v == Head(victims[i])
             e == <<"unload", i, v>>
  <2>1. v \in Instances
    BY <1>1, DropHead DEF Evict, TypeInv, FlowType
  <2>2. e \in Unloads /\ e \in Commands /\ e[3] = v
    BY <2>1, CommandFacts
  <2>3. CASE engine[v] \in {"starting", "ready"}
    <3>1. res' = [res EXCEPT ![v] = "releasing"] /\ Enqueue(e) /\ call' = call
      BY <1>1, <2>3 DEF Evict
    <3>2. res'[v] = "releasing"
      BY <2>1, <3>1 DEF TypeInv, LedgerType
    <3> HIDE DEF e, v
    <3>3. CASE cmd[e] = None
      <4>1. Orders(e)
        BY <2>2, <3>1, <3>2, <3>3, Enqueues DEF Orders, TypeInv
      <4> QED BY <2>2, <4>1 DEF WorkStep
    <3>4. CASE cmd[e] # None
      BY <2>2, <3>1, <3>4, Enqueues DEF TypeInv, WorkStep
    <3> QED BY <3>3, <3>4
  <2>4. CASE engine[v] \notin {"starting", "ready"}
    BY <1>1, <2>4 DEF Evict, WorkStep
  <2> QED BY <2>3, <2>4
<1>2. ASSUME NEW i \in Instances, Reserve(i) PROVE WorkStep
  <2>1. Enqueue(Load(i)) /\ call' = call
    BY <1>2 DEF Reserve, Load
  <2>2. Load(i) \in Commands /\ Load(i)[3] = i
    BY CommandFacts
  <2>3. CASE cmd[Load(i)] = None
    <3>1. Orders(Load(i))
      BY <1>2, <2>1, <2>2, <2>3, Enqueues DEF Orders, TypeInv
    <3> QED BY <2>2, <3>1 DEF WorkStep
  <2>4. CASE cmd[Load(i)] # None
    BY <2>1, <2>2, <2>4, Enqueues DEF TypeInv, WorkStep
  <2> QED BY <2>3, <2>4
<1>3. ASSUME NEW i \in Instances, Drain(i) PROVE WorkStep
  <2> DEFINE e == <<"unload", Operator, i>>
  <2>1. e \in Unloads /\ e \in Commands /\ e[3] = i
    BY CommandFacts
  <2>2. Enqueue(e) /\ call' = call /\ cmd[e] = None /\ res'[i] = "releasing"
    BY <1>3 DEF Drain, TypeInv, LedgerType
  <2> HIDE DEF e
  <2>3. Orders(e)
    BY <2>1, <2>2, Enqueues DEF Orders, TypeInv
  <2> QED BY <2>1, <2>3 DEF WorkStep
<1>4. CASE IdleReleased
  <2> DEFINE e == <<"unload", Idle, ttl>>
  <2>1. ttl \in Instances
    BY <1>4 DEF IdleReleased, TypeInv, NodeType
  <2>2. e \in Unloads /\ e \in Commands /\ e[3] = ttl
    BY <2>1, CommandFacts
  <2>3. call' = call /\ res'[ttl] = "releasing"
    BY <1>4, <2>1 DEF IdleReleased, TypeInv, LedgerType
  <2>4. Orders(e)
    BY <1>4, <2>1, <2>2, <2>3, IdleQueues DEF Orders, TypeInv
  <2> QED BY <2>2, <2>4 DEF WorkStep
<1>5. ASSUME NEW s \in {"succeeded", "failed"}, queue # <<>>, Finish(s),
             s = "succeeded" <=> call = "applied",
             UNCHANGED <<flow, ledger, engine, proc, ttl>>
      PROVE  WorkStep
  <2>1. Ends(s)
    BY <1>5, Finishes DEF Ends, TypeInv
  <2> QED BY <2>1 DEF WorkStep
<1>6. CASE Succeed \/ LoadDies \/ Expire
  BY <1>5, <1>6 DEF Succeed, LoadDies, Expire, TypeInv, WorkType
<1>7. CASE LoadCall
  BY <1>5, <1>7 DEF LoadCall, IsCurrent, WorkStep
<1>8. CASE UnloadCall \/ LoadApply \/ UnloadApply \/ Sample \/ Crash \/ UNCHANGED vars
  BY <1>8 DEF UnloadCall, LoadApply, UnloadApply, Sample, Crash, vars, work, WorkStep
<1>9. ASSUME NEW i \in Instances,
             \/ Start(i) \/ Plan(i) \/ Replan(i) \/ Unloaded(i) \/ Loaded(i)
             \/ Launch(i) \/ LaunchFails(i) \/ LaunchLoads(i) \/ LaunchReady(i)
             \/ Drained(i) \/ AcquireLease(i) \/ EndLease(i) \/ SetPin(i)
             \/ ReleaseTerminal(i) \/ DrainRequest(i)
      PROVE  WorkStep
  <2>1. UNCHANGED work
    BY <1>9 DEF Start, Plan, Replan, Unloaded, Loaded, Launch, LaunchFails,
                LaunchLoads, LaunchReady, Drained, AcquireLease, EndLease,
                SetPin, ReleaseTerminal, DrainRequest, Unchanged
  <2> QED BY <2>1 DEF work, WorkStep
<1>10. ASSUME NEW i \in Instances,
              IdleFound(i) \/ Progress(i) \/ Die(i) \/ Sync(i) \/ Unknown(i)
       PROVE  WorkStep
  BY <1>10 DEF IdleFound, Progress, Die, Sync, Unknown, work, WorkStep
<1> QED BY <1>1, <1>2, <1>3, <1>4, <1>6, <1>7, <1>8, <1>9, <1>10, Zenon
        DEF Next, Decision, Instance, Executor, Reconciler, Environment

(* A load is queued once, and ends only at the head of the queue. *)
LEMMA LoadEffect ==
    ASSUME TypeInv, [Next]_vars, NEW v \in Instances
    PROVE  \/ cmd'[Load(v)] = cmd[Load(v)]
           \/ /\ cmd[Load(v)] = None /\ cmd'[Load(v)] = "queued"
              /\ Reserve(v)
           \/ /\ cmd[Load(v)] = "queued" /\ Current = Load(v) /\ queue # <<>>
              /\ call' = "idle" /\ UNCHANGED <<flow, ledger, engine, proc, ttl>>
              /\ \/ cmd'[Load(v)] = "failed" /\ call # "applied"
                 \/ cmd'[Load(v)] = "succeeded" /\ call = "applied"
<1>1. WorkStep
  BY WorkEffect
<1>2. Load(v) \in Commands /\ Load(v) \notin Unloads /\ Load(v)[3] = v
  BY CommandFacts
<1>3. ASSUME NEW e \in Commands, Orders(e), e # Load(v)
      PROVE  cmd'[Load(v)] = cmd[Load(v)]
  BY <1>2, <1>3 DEF Orders
<1>4. ASSUME Orders(Load(v))
      PROVE  cmd[Load(v)] = None /\ cmd'[Load(v)] = "queued" /\ Reserve(v)
  BY <1>2, <1>4 DEF Orders
<1>5. ASSUME NEW s \in {"succeeded", "failed"}, Ends(s), Current # Load(v)
      PROVE  cmd'[Load(v)] = cmd[Load(v)]
  BY <1>2, <1>5 DEF Ends
<1>6. ASSUME NEW s \in {"succeeded", "failed"}, Ends(s), Current = Load(v)
      PROVE  /\ cmd[Load(v)] = "queued" /\ Current = Load(v) /\ queue # <<>>
             /\ call' = "idle" /\ UNCHANGED <<flow, ledger, engine, proc, ttl>>
             /\ \/ cmd'[Load(v)] = "failed" /\ call # "applied"
                \/ cmd'[Load(v)] = "succeeded" /\ call = "applied"
  BY <1>6 DEF Ends
<1> QED BY <1>1, <1>3, <1>4, <1>5, <1>6 DEF WorkStep

(* The head of the queue stays until it ends. *)
LEMMA HeadEffect ==
    ASSUME TypeInv, [Next]_vars, queue # <<>>
    PROVE  \/ queue' # <<>> /\ Current' = Current
           \/ /\ cmd[Current] = "queued" /\ cmd'[Current] \in {"succeeded", "failed"}
              /\ call' = "idle"
BY WorkEffect DEF WorkStep, Orders, Ends, Current

(* To a reservation: it is pending by an admission, held by a load seen    *)
(* ready, releasing by an eviction, a drain or the idle pass, and given up *)
(* with its instance, its engine or its decision.                          *)
ResStep(v) ==
    \/ res'[v] = res[v]
    \/ /\ res'[v] = "pending" /\ pc[v] \in {"plan", "draining", "reserve"}
       /\ pc'[v] \in Active /\ inst'[v] = inst[v]
    \/ res'[v] = "held" /\ LoadApply /\ v = Target
    \/ /\ res'[v] = "releasing" /\ inst' = inst /\ dec' = dec
       /\ \/ /\ \E i \in Instances : pc[i] = "evict" /\ v = Head(victims[i])
             /\ engine[v] \in Running
          \/ inst[v] = "draining" \/ ttl = v
    \/ /\ res'[v] \in {"released", "failed"}
       /\ \/ inst'[v] \in Terminal
          \/ UnloadApply /\ v = Target
          \/ pc'[v] \in {"start", "done"} /\ dec'[v] = "failed" /\ res[v] = "pending"

(* A step of its decision that fails gives up what is pending. *)
LEMMA FailRes ==
    ASSUME TypeInv, NEW i \in Instances, Fail(i), NEW v \in Instances PROVE ResStep(v)
BY DEF Fail, ResStep, TypeInv, LedgerType, FlowType

(* Every step treats a reservation in one of these ways. *)
LEMMA ResEffect == ASSUME TypeInv, [Next]_vars, NEW v \in Instances PROVE ResStep(v)
<1> USE DEF ResStep
<1>1. ASSUME res' = res PROVE ResStep(v)
  BY <1>1
<1>2. ASSUME NEW i \in Instances, Plan(i) \/ Replan(i) PROVE ResStep(v)
  <2>1. /\ pc[i] \in {"plan", "draining"} /\ inst' = inst
        /\ (\E plan : Admit(i, plan)) \/ res' = res
    BY <1>2 DEF Plan, Replan, Refuse
  <2>2. ASSUME NEW plan, Admit(i, plan) PROVE ResStep(v)
    BY <2>1, <2>2 DEF Admit, MakePending, TypeInv, LedgerType, FlowType, Active
  <2> QED BY <1>1, <2>1, <2>2
<1>3. ASSUME NEW i \in Instances, Evict(i) PROVE ResStep(v)
  <2>1. CASE Fail(i)
    BY <2>1, FailRes
  <2>2. CASE /\ res' = [res EXCEPT ![Head(victims[i])] = "releasing"]
             /\ inst' = inst /\ dec' = dec /\ pc[i] = "evict"
             /\ engine[Head(victims[i])] \in Running
    BY <2>2 DEF TypeInv, LedgerType
  <2> QED BY <1>3, <2>1, <2>2 DEF Evict, Running
<1>4. ASSUME NEW i \in Instances, Unloaded(i) \/ Loaded(i) PROVE ResStep(v)
  <2>1. Fail(i) \/ res' = res
    BY <1>4 DEF Unloaded, Loaded
  <2> QED BY <1>1, <2>1, FailRes
<1>5. ASSUME NEW i \in Instances, Reserve(i) PROVE ResStep(v)
  BY <1>5 DEF Reserve, MakePending, TypeInv, LedgerType, FlowType, Active
<1>6. ASSUME NEW i \in Instances, LaunchFails(i) PROVE ResStep(v)
  BY <1>6 DEF LaunchFails, TypeInv, LedgerType, FlowType, Terminal
<1>7. ASSUME NEW i \in Instances, Drain(i) PROVE ResStep(v)
  BY <1>7 DEF Drain, TypeInv, LedgerType, flow
<1>8. CASE IdleReleased
  BY <1>8 DEF IdleReleased, TypeInv, LedgerType, flow
<1>9. CASE LoadApply \/ UnloadApply
  BY <1>9 DEF LoadApply, UnloadApply, TypeInv, LedgerType
<1>10. ASSUME NEW i \in Instances, Sync(i) \/ Unknown(i) PROVE ResStep(v)
  <2>1. FailInstance(i) \/ res' = res
    BY <1>10 DEF Sync, Unknown
  <2>2. CASE FailInstance(i)
    BY <2>2 DEF FailInstance, TypeInv, LedgerType, FlowType, Terminal
  <2> QED BY <1>1, <2>1, <2>2
<1>11. ASSUME NEW i \in Instances, ReleaseTerminal(i) PROVE ResStep(v)
  BY <1>11 DEF ReleaseTerminal, TypeInv, LedgerType, flow
<1>12. ASSUME NEW i \in Instances,
             \/ Start(i) \/ Launch(i) \/ LaunchLoads(i) \/ LaunchReady(i)
             \/ Drained(i) \/ DrainRequest(i) \/ IdleFound(i) \/ Progress(i)
             \/ Die(i) \/ AcquireLease(i) \/ EndLease(i) \/ SetPin(i)
       PROVE  ResStep(v)
  <2>1. res' = res
    BY <1>12 DEF Start, Launch, LaunchLoads, LaunchReady, Drained, DrainRequest,
                 IdleFound, Progress, Die, AcquireLease, EndLease, SetPin, Unchanged, ledger
  <2> QED BY <1>1, <2>1
<1>13. CASE \/ LoadCall \/ UnloadCall \/ Succeed \/ LoadDies \/ Expire \/ Sample
            \/ Crash \/ UNCHANGED vars
  <2>1. res' = res
    BY <1>13 DEF LoadCall, UnloadCall, Succeed, LoadDies, Expire, Sample, Crash, vars, ledger
  <2> QED BY <1>1, <2>1
<1> HIDE DEF ResStep
<1> QED BY <1>2, <1>3, <1>4, <1>5, <1>6, <1>7, <1>8, <1>9, <1>10, <1>11, <1>12,
           <1>13, Zenon
        DEF Next, Decision, Instance, Executor, Reconciler, Environment

(* To an instance: what has ended stays ended, and one is ready only with  *)
(* its decision ready and its reservation held.                            *)
InstStep(v) ==
    /\ inst[v] \in Terminal => inst'[v] \in Terminal
    /\ inst[v] \in Routed => inst'[v] \in Routed \cup Terminal
    /\ inst'[v] \in Routed => inst[v] \in Routed \/ (dec[v] = "ready" /\ res[v] = "held")

(* To its decision: it becomes active by an admission, loads after it has  *)
(* reserved and is ready after its load.                                   *)
FlowStep(v) ==
    /\ pc'[v] \in Active =>
          \/ pc[v] \in Active
          \/ /\ pc[v] \in {"plan", "draining"} /\ res'[v] = "pending"
             /\ Plan(v) \/ Replan(v)
    /\ pc'[v] = "loading" =>
          pc[v] = "loading" \/ (pc[v] = "reserve" /\ res'[v] = "pending")
    /\ dec'[v] = "ready" =>
          \/ dec[v] = "ready"
          \/ /\ pc[v] = "loading" /\ cmd[Load(v)] = "succeeded"
             /\ cmd' = cmd /\ res'[v] = res[v] /\ inst'[v] = inst[v]
    /\ pc[v] = "done" => pc'[v] = "done"

(* Every step treats an instance and its decision so. *)
LEMMA FlowEffect ==
    ASSUME TypeInv, [Next]_vars, NEW v \in Instances PROVE InstStep(v) /\ FlowStep(v)
<1> DEFINE G == InstStep(v) /\ FlowStep(v)
<1> USE DEF InstStep, FlowStep, Routed, Active
<1>1. ASSUME UNCHANGED <<inst, dec, pc>> PROVE G
  BY <1>1
<1>2. ASSUME NEW i \in Instances, pc[i] # "done", Fail(i), inst' = inst PROVE G
  BY <1>2 DEF Fail, TypeInv, FlowType
<1>3. ASSUME NEW i \in Instances, Start(i) PROVE G
  BY <1>3 DEF Start, TypeInv, FlowType
<1>4. ASSUME NEW i \in Instances, Plan(i) \/ Replan(i) PROVE G
  <2>1. /\ pc[i] \in {"plan", "draining"} /\ inst' = inst
        /\ \/ \E plan : Admit(i, plan)
           \/ pc' = [pc EXCEPT ![i] = "draining"] /\ dec' = dec
           \/ Refuse(i)
    BY <1>4 DEF Plan, Replan
  <2>2. ASSUME NEW plan, Admit(i, plan) PROVE G
    <3>1. res'[i] = "pending"
      BY <2>2 DEF Admit, MakePending, TypeInv, LedgerType
    <3> QED BY <1>4, <2>1, <2>2, <3>1 DEF Admit, TypeInv, FlowType
  <2>3. CASE pc' = [pc EXCEPT ![i] = "draining"] /\ dec' = dec
    BY <2>1, <2>3 DEF TypeInv, FlowType
  <2>4. CASE Refuse(i)
    BY <2>1, <2>4 DEF Refuse, TypeInv, FlowType
  <2> QED BY <2>1, <2>2, <2>3, <2>4
<1>5. ASSUME NEW i \in Instances, Evict(i) PROVE G
  <2>1. CASE Fail(i)
    BY <1>2, <1>5, <2>1 DEF Evict
  <2>2. CASE pc' = [pc EXCEPT ![i] = "unloading"] /\ dec' = dec
    BY <1>5, <2>2 DEF Evict, TypeInv, FlowType
  <2> QED BY <1>5, <2>1, <2>2 DEF Evict
<1>6. ASSUME NEW i \in Instances, Unloaded(i) PROVE G
  <2>1. CASE Fail(i)
    BY <1>2, <1>6, <2>1 DEF Unloaded
  <2>2. CASE /\ pc' = [pc EXCEPT ![i] = IF Tail(victims[i]) = <<>> THEN "reserve"
                                        ELSE "evict"]
             /\ dec' = dec
    BY <1>6, <2>2 DEF Unloaded, TypeInv, FlowType
  <2> QED BY <1>6, <2>1, <2>2 DEF Unloaded
<1>7. ASSUME NEW i \in Instances, Reserve(i) PROVE G
  BY <1>7 DEF Reserve, MakePending, TypeInv, FlowType, LedgerType
<1>8. ASSUME NEW i \in Instances, Loaded(i) PROVE G
  <2>1. CASE Fail(i)
    BY <1>2, <1>8, <2>1 DEF Loaded
  <2>2. CASE /\ cmd[Load(i)] = "succeeded" /\ dec' = [dec EXCEPT ![i] = "ready"]
             /\ pc' = [pc EXCEPT ![i] = "done"] /\ res' = res
    BY <1>8, <2>2 DEF Loaded, Unchanged, work, TypeInv, FlowType
  <2> QED BY <1>8, <2>1, <2>2 DEF Loaded, Load
<1>9. ASSUME NEW i \in Instances, Launch(i) PROVE G
  BY <1>9 DEF Launch, TypeInv, FlowType, Terminal
<1>10. ASSUME NEW i \in Instances,
              \/ LaunchFails(i) \/ LaunchLoads(i) \/ LaunchReady(i)
              \/ Drained(i) \/ DrainRequest(i)
       PROVE  G
  BY <1>10 DEF LaunchFails, LaunchLoads, LaunchReady, Drained, DrainRequest,
               TypeInv, FlowType, Terminal
<1>11. CASE UnloadApply
  BY <1>11 DEF UnloadApply, TypeInv, FlowType, Terminal
<1>12. CASE Crash
  BY <1>12 DEF Crash, TypeInv, FlowType
<1>13. ASSUME NEW i \in Instances, Sync(i) \/ Unknown(i) PROVE G
  <2>1. UNCHANGED <<dec, pc>> /\ (FailInstance(i) \/ inst' = inst)
    BY <1>13 DEF Sync, Unknown
  <2>2. CASE FailInstance(i)
    BY <2>1, <2>2 DEF FailInstance, TypeInv, FlowType, Terminal
  <2> QED BY <1>1, <2>1, <2>2
<1>14. ASSUME NEW i \in Instances,
              \/ Drain(i) \/ IdleFound(i) \/ Progress(i) \/ Die(i)
              \/ AcquireLease(i) \/ EndLease(i) \/ SetPin(i) \/ ReleaseTerminal(i)
       PROVE  G
  <2>1. UNCHANGED <<inst, dec, pc>>
    BY <1>14 DEF Drain, IdleFound, Progress, Die, AcquireLease, EndLease, SetPin,
                 ReleaseTerminal, flow
  <2> QED BY <1>1, <2>1
<1>15. CASE \/ LoadCall \/ LoadApply \/ UnloadCall \/ Succeed \/ LoadDies \/ Expire
            \/ IdleReleased \/ Sample \/ UNCHANGED vars
  <2>1. UNCHANGED <<inst, dec, pc>>
    BY <1>15 DEF LoadCall, LoadApply, UnloadCall, Succeed, LoadDies, Expire,
                 IdleReleased, Sample, vars, flow
  <2> QED BY <1>1, <2>1
<1> HIDE DEF InstStep, FlowStep, Routed, Active
<1> QED BY <1>3, <1>4, <1>5, <1>6, <1>7, <1>8, <1>9, <1>10, <1>11, <1>12,
           <1>13, <1>14, <1>15, Zenon
        DEF Next, Decision, Instance, Executor, Reconciler, Environment

(* To what a decision, the lock or the idle pass names: reservations that  *)
(* are held, or were when the lock was taken.                              *)
NameStep ==
    /\ \A v \in snapshot'.held : v \in snapshot.held \/ res[v] = "held"
    /\ ttl' = None \/ ttl' = ttl \/ (ttl' \in Instances \cap Expiring /\ res[ttl'] = "held")
    /\ \A i, v \in Instances : Has(victims'[i], v) =>
          Has(victims[i], v) \/ v \in snapshot.held \/ res[v] = "held"

(* Nobody names anything else. *)
LEMMA NameEffect == ASSUME TypeInv, [Next]_vars PROVE NameStep
<1>1. ASSUME UNCHANGED <<snapshot, victims>>, ttl' \in {None, ttl} PROVE NameStep
  BY <1>1 DEF NameStep
<1>2. ASSUME NEW i \in Instances, Plan(i) PROVE NameStep
  <2> DEFINE held == Holding({"held"})
  <2>1. \/ /\ \E plan \in Plans(Size[i], Budget - Occupied, held) : Admit(i, plan)
           /\ snapshot' = snapshot
        \/ snapshot' = [free |-> Budget - Occupied, held |-> held] /\ victims' = victims
        \/ UNCHANGED <<snapshot, victims>>
    BY <1>2 DEF Plan, Refuse
  <2>2. ttl' = ttl
    BY <1>2 DEF Plan, Unchanged
  <2>3. \A v \in held : res[v] = "held"
    BY DEF Holding
  <2> HIDE DEF held
  <2>4. ASSUME NEW plan \in Plans(Size[i], Budget - Occupied, held), Admit(i, plan),
               snapshot' = snapshot
        PROVE  NameStep
    <3>1. \A v : Has(plan, v) => v \in held
      BY <2>4, PlanFacts DEF TypeInv
    <3>2. \A j \in Instances : victims'[j] = IF j = i THEN plan ELSE victims[j]
      BY <2>4 DEF Admit, TypeInv, FlowType
    <3> QED BY <2>2, <2>3, <2>4, <3>1, <3>2 DEF NameStep
  <2>5. CASE snapshot' = [free |-> Budget - Occupied, held |-> held] /\ victims' = victims
    BY <2>2, <2>3, <2>5 DEF NameStep
  <2> QED BY <1>1, <2>1, <2>2, <2>4, <2>5
<1>3. ASSUME NEW i \in Instances, Replan(i) PROVE NameStep
  <2>1. snapshot'.held = {} /\ ttl' = ttl
    BY <1>3 DEF Replan, Unchanged
  <2>2. ASSUME NEW plan \in Plans(Size[i], snapshot.free, snapshot.held), Admit(i, plan)
        PROVE  NameStep
    <3>1. \A v : Has(plan, v) => v \in snapshot.held
      BY <2>2, PlanFacts DEF TypeInv
    <3>2. \A j \in Instances : victims'[j] = IF j = i THEN plan ELSE victims[j]
      BY <2>2 DEF Admit, TypeInv, FlowType
    <3> QED BY <2>1, <3>1, <3>2 DEF NameStep
  <2>3. CASE Refuse(i)
    BY <2>1, <2>3 DEF Refuse, NameStep
  <2> QED BY <1>3, <2>2, <2>3 DEF Replan
<1>4. ASSUME NEW i \in Instances, Fail(i), snapshot' = snapshot, ttl' = ttl PROVE NameStep
  <2>1. \A j \in Instances : victims'[j] = IF j = i THEN <<>> ELSE victims[j]
    BY <1>4 DEF Fail, TypeInv, FlowType
  <2>2. \A x : ~Has(<<>>, x)
    BY DEF Has
  <2> QED BY <1>4, <2>1, <2>2 DEF NameStep
<1>5. ASSUME NEW i \in Instances, Unloaded(i) PROVE NameStep
  <2>1. snapshot' = snapshot /\ ttl' = ttl
    BY <1>5 DEF Unloaded, Unchanged
  <2>2. CASE victims' = [victims EXCEPT ![i] = Tail(victims[i])]
    <3>1. victims[i] # <<>> /\ victims[i] \in Seq(Instances) /\ NoDup(victims[i])
      BY <1>5 DEF Unloaded, TypeInv, FlowType
    <3>2. \A y : Has(Tail(victims[i]), y) => Has(victims[i], y)
      BY <3>1, DropHead
    <3>3. \A j \in Instances : victims'[j] = IF j = i THEN Tail(victims[i]) ELSE victims[j]
      BY <2>2 DEF TypeInv, FlowType
    <3> QED BY <2>1, <3>2, <3>3 DEF NameStep
  <2> QED BY <1>4, <1>5, <2>1, <2>2 DEF Unloaded
<1>6. ASSUME NEW i \in Instances, Evict(i) \/ Loaded(i) PROVE NameStep
  <2>1. /\ snapshot' = snapshot /\ ttl' = ttl
        /\ Fail(i) \/ victims' = victims
    BY <1>6 DEF Evict, Loaded, Unchanged
  <2> QED BY <1>1, <1>4, <2>1
<1>7. CASE Crash
  <2>1. \A i, v \in Instances : ~Has(victims'[i], v)
    BY <1>7 DEF Crash, Has
  <2> QED BY <1>7, <2>1 DEF Crash, NameStep
<1>8. ASSUME NEW i \in Instances, IdleFound(i) PROVE NameStep
  BY <1>8 DEF IdleFound, NameStep, flow
<1>9. ASSUME NEW i \in Instances,
             \/ Start(i) \/ Reserve(i) \/ Launch(i) \/ LaunchFails(i)
             \/ LaunchLoads(i) \/ LaunchReady(i) \/ Drained(i) \/ DrainRequest(i)
      PROVE  NameStep
  <2>1. UNCHANGED <<snapshot, victims, ttl>>
    BY <1>9 DEF Start, Reserve, Launch, LaunchFails, LaunchLoads, LaunchReady,
                Drained, DrainRequest, Unchanged
  <2> QED BY <1>1, <2>1
<1>10. ASSUME NEW i \in Instances,
             \/ Drain(i) \/ AcquireLease(i) \/ EndLease(i) \/ SetPin(i)
             \/ Progress(i) \/ Die(i) \/ Sync(i) \/ Unknown(i) \/ ReleaseTerminal(i)
       PROVE NameStep
  <2>1. UNCHANGED <<snapshot, victims, ttl>>
    BY <1>10 DEF Drain, AcquireLease, EndLease, SetPin, Progress, Die, Sync, Unknown,
                 ReleaseTerminal, Unchanged, flow
  <2> QED BY <1>1, <2>1
<1>11. CASE \/ LoadCall \/ LoadApply \/ UnloadCall \/ UnloadApply \/ Succeed
            \/ LoadDies \/ Expire \/ IdleReleased \/ Sample \/ UNCHANGED vars
  <2>1. UNCHANGED <<snapshot, victims>> /\ ttl' \in {None, ttl}
    BY <1>11 DEF LoadCall, LoadApply, UnloadCall, UnloadApply, Succeed, LoadDies,
                 Expire, IdleReleased, Sample, vars, flow
  <2> QED BY <1>1, <2>1
<1> QED BY <1>2, <1>3, <1>5, <1>6, <1>7, <1>8, <1>9, <1>10, <1>11, Zenon
        DEF Next, Decision, Instance, Executor, Reconciler, Environment

(* To the lock: a decision takes it to wait and gives it back when it has  *)
(* planned; only a restart takes it away.                                  *)
Waiting(i) ==
    /\ lock = None /\ lock' = i /\ pc' = [pc EXCEPT ![i] = "draining"]
    /\ snapshot' = [free |-> Budget - Occupied, held |-> Holding({"held"})]
    /\ UNCHANGED <<inst, dec, victims, ledger, work>>

LockStep ==
    \/ /\ UNCHANGED <<lock, snapshot>>
       /\ \A v \in Instances : pc'[v] = "draining" <=> pc[v] = "draining"
    \/ \E i \in Instances : Waiting(i)
    \/ /\ lock' = None
       /\ \A v \in Instances : pc'[v] = "draining" => pc[v] = "draining" /\ ~Replan(v)
       /\ Crash \/ \E i \in Instances : Replan(i)

(* Every step treats the lock in one of these ways. *)
LEMMA LockEffect == ASSUME TypeInv, [Next]_vars PROVE LockStep
<1>1. ASSUME UNCHANGED <<lock, snapshot, pc>> PROVE LockStep
  BY <1>1 DEF LockStep
<1>2. ASSUME NEW i \in Instances, NEW p, UNCHANGED <<lock, snapshot>>,
             pc[i] # "draining", p # "draining", pc' = [pc EXCEPT ![i] = p]
      PROVE  LockStep
  BY <1>2 DEF LockStep, TypeInv, FlowType
<1>3. ASSUME NEW i \in Instances, Plan(i) PROVE LockStep
  <2>1. pc[i] = "plan" /\ lock = None /\ Unchanged(<<>>)
        /\ UNCHANGED <<inst, attempt, pinned, leases>>
    BY <1>3 DEF Plan
  <2>2. \/ (\E plan : Admit(i, plan)) /\ UNCHANGED <<snapshot, lock>>
        \/ /\ pc' = [pc EXCEPT ![i] = "draining"] /\ lock' = i
           /\ snapshot' = [free |-> Budget - Occupied, held |-> Holding({"held"})]
           /\ UNCHANGED <<dec, victims, res, recency>>
        \/ Refuse(i) /\ UNCHANGED <<snapshot, lock>>
    BY <1>3 DEF Plan
  <2>3. ASSUME NEW plan, Admit(i, plan), UNCHANGED <<snapshot, lock>> PROVE LockStep
    BY <1>2, <2>1, <2>3 DEF Admit
  <2>4. CASE /\ pc' = [pc EXCEPT ![i] = "draining"] /\ lock' = i
             /\ snapshot' = [free |-> Budget - Occupied, held |-> Holding({"held"})]
             /\ UNCHANGED <<dec, victims, res, recency>>
    BY <2>1, <2>4 DEF LockStep, Waiting, Unchanged, ledger
  <2>5. CASE Refuse(i) /\ UNCHANGED <<snapshot, lock>>
    BY <1>2, <2>1, <2>5 DEF Refuse
  <2> QED BY <2>2, <2>3, <2>4, <2>5
<1>4. ASSUME NEW i \in Instances, Replan(i) PROVE LockStep
  <2>1. lock' = None /\ pc[i] = "draining" /\ ((\E plan : Admit(i, plan)) \/ Refuse(i))
    BY <1>4 DEF Replan
  <2>2. \E p \in {"evict", "reserve", "done"} : pc' = [pc EXCEPT ![i] = p]
    BY <2>1 DEF Admit, Refuse
  <2>3. \A j \in Instances : Replan(j) => \E q \in {"evict", "reserve", "done"} : pc' = [pc EXCEPT ![j] = q]
    BY DEF Replan, Admit, Refuse
  <2>4. \A v \in Instances : pc'[v] = "draining" => pc[v] = "draining" /\ ~Replan(v)
    BY <2>2, <2>3 DEF TypeInv, FlowType
  <2> QED BY <1>4, <2>1, <2>4 DEF LockStep
<1>5. ASSUME NEW i \in Instances,
             Start(i) \/ Evict(i) \/ Unloaded(i) \/ Reserve(i) \/ Loaded(i) \/ Launch(i)
      PROVE  LockStep
  <2>1. UNCHANGED <<lock, snapshot>>
    BY <1>5 DEF Start, Evict, Unloaded, Reserve, Loaded, Launch
  <2>2. /\ pc[i] # "draining"
        /\ \E p \in Steps \ {"draining"} : pc' = [pc EXCEPT ![i] = p]
    BY <1>5 DEF Start, Evict, Unloaded, Reserve, Loaded, Launch, Fail, Steps, TypeInv, FlowType
  <2> QED BY <1>2, <2>1, <2>2
<1>6. CASE Crash
  <2>1. \A v \in Instances : pc'[v] # "draining"
    BY <1>6 DEF Crash
  <2> QED BY <1>6, <2>1 DEF Crash, LockStep
<1>7. ASSUME NEW i \in Instances,
             \/ LaunchFails(i) \/ LaunchLoads(i) \/ LaunchReady(i) \/ Drained(i)
             \/ DrainRequest(i) \/ Sync(i) \/ Unknown(i)
      PROVE  LockStep
  <2>1. UNCHANGED <<lock, snapshot, pc>>
    BY <1>7 DEF LaunchFails, LaunchLoads, LaunchReady, Drained, DrainRequest, Sync, Unknown
  <2> QED BY <1>1, <2>1
<1>8. ASSUME NEW i \in Instances,
             \/ Drain(i) \/ IdleFound(i) \/ Progress(i) \/ Die(i)
             \/ AcquireLease(i) \/ EndLease(i) \/ SetPin(i) \/ ReleaseTerminal(i)
      PROVE  LockStep
  <2>1. UNCHANGED <<lock, snapshot, pc>>
    BY <1>8 DEF Drain, IdleFound, Progress, Die, AcquireLease, EndLease, SetPin,
                ReleaseTerminal, flow
  <2> QED BY <1>1, <2>1
<1>9. CASE \/ LoadCall \/ LoadApply \/ UnloadCall \/ UnloadApply \/ Succeed
           \/ LoadDies \/ Expire \/ IdleReleased \/ Sample \/ UNCHANGED vars
  <2>1. UNCHANGED <<lock, snapshot, pc>>
    BY <1>9 DEF LoadCall, LoadApply, UnloadCall, UnloadApply, Succeed, LoadDies,
                Expire, IdleReleased, Sample, vars, flow
  <2> QED BY <1>1, <2>1
<1> QED BY <1>3, <1>4, <1>5, <1>6, <1>7, <1>8, <1>9, Zenon
        DEF Next, Decision, Instance, Executor, Reconciler, Environment

(* To the executor's call: it is applied by an answer of the node. *)
LEMMA CallEffect ==
    ASSUME TypeInv, [Next]_vars, call' = "applied", call # "applied"
    PROVE  LoadApply \/ UnloadApply
<1>1. \A i \in Instances : Decision(i) \/ Instance(i) => call' = call
  BY DEF Decision, Instance, Start, Plan, Replan, Evict, Unloaded, Reserve, Loaded,
         Launch, LaunchFails, LaunchLoads, LaunchReady, Drain, Drained, Unchanged, work
<1>2. \A i \in Instances : Reconciler(i) \/ Unknown(i) \/ Environment(i)
                               \/ IdleFound(i) \/ Progress(i) => call' = call
  BY DEF Reconciler, Sync, Unknown, ReleaseTerminal, Environment, DrainRequest,
         AcquireLease, EndLease, SetPin, Die, IdleFound, Progress, Unchanged, work
<1>3. LoadCall \/ UnloadCall \/ Succeed \/ LoadDies \/ Expire \/ Crash
          => call' \in {"idle", "called"}
  BY DEF LoadCall, UnloadCall, Succeed, LoadDies, Expire, Crash, Finish
<1>4. IdleReleased \/ Sample \/ UNCHANGED vars => call' = call
  BY DEF IdleReleased, Sample, vars, work
<1> QED BY <1>1, <1>2, <1>3, <1>4, Zenon DEF Next, Executor

(* What was applied is marked next, unless the scheduler restarts. *)
LEMMA AppliedStays ==
    ASSUME TypeInv, [Next]_vars, call = "applied", ~Crash
    PROVE  \/ call' = "applied" /\ queue' # <<>> /\ Current' = Current
           \/ cmd'[Current] = "succeeded"
<1>1. queue # <<>>
  BY DEF TypeInv, WorkType
<1>2. CASE call' = call
  BY <1>1, <1>2, WorkEffect DEF WorkStep, Orders, Ends, Current
<1>3. CASE call' # call
  <2>1. \A i \in Instances : Decision(i) \/ Instance(i) => call' = call
    BY DEF Decision, Instance, Start, Plan, Replan, Evict, Unloaded, Reserve, Loaded,
         Launch, LaunchFails, LaunchLoads, LaunchReady, Drain, Drained, Unchanged, work
  <2>2. \A i \in Instances : Reconciler(i) \/ Unknown(i) \/ Environment(i)
                               \/ IdleFound(i) \/ Progress(i) => call' = call
    BY DEF Reconciler, Sync, Unknown, ReleaseTerminal, Environment, DrainRequest,
         AcquireLease, EndLease, SetPin, Die, IdleFound, Progress, Unchanged, work
  <2>3. ~LoadCall /\ ~UnloadCall /\ ~LoadApply /\ ~UnloadApply /\ ~LoadDies /\ ~Expire
    BY DEF LoadCall, UnloadCall, LoadApply, UnloadApply, LoadDies, Expire
  <2>4. IdleReleased \/ Sample \/ UNCHANGED vars => call' = call
    BY DEF IdleReleased, Sample, vars, work
  <2>5. Succeed
    BY <1>3, <2>1, <2>2, <2>3, <2>4, Zenon DEF Next, Executor
  <2> QED BY <1>1, <2>5, Finishes DEF Succeed, TypeInv
<1> QED BY <1>2, <1>3

-----------------------------------------------------------------------------
(* What a decision may rely on, whatever fails *)

(* The one that waits for a drain holds the lock, and a decision is ready  *)
(* with its load.                                                          *)
LockInv ==
    \A i \in Instances :
        /\ pc[i] = "draining" <=> lock = i
        /\ dec[i] = "ready" => cmd[Load(i)] = "succeeded"

(* The load of what holds memory, or is named to give it up, was ordered,  *)
(* and if it has not ended it is the one the executor works on.            *)
Up(v) ==
    /\ cmd[Load(v)] # None
    /\ cmd[Load(v)] = "queued" => queue # <<>> /\ Current = Load(v)

UpInv ==
    /\ \A v \in Instances :
          res[v] \in {"held", "releasing"} \/ v \in snapshot.held \/ ttl = v => Up(v)
    /\ \A i, v \in Instances : Has(victims[i], v) => Up(v)
    /\ \A e \in Unloads : cmd[e] # None => Up(e[3])

(* An unload that was carried out leaves an instance that will not be      *)
(* routed to again.                                                        *)
Gone(v) ==
    /\ cmd[Load(v)] \in {"succeeded", "failed"}
    /\ res[v] # "held" /\ inst[v] \notin Routed

Carried(e) ==
    cmd[e] = "succeeded" \/ (call = "applied" /\ queue # <<>> /\ Current = e)
GoneInv == \A e \in Unloads : Carried(e) => Gone(e[3])

BaseInv == TypeInv /\ LedgerInv /\ LockInv /\ UpInv /\ GoneInv

(* It holds when the model starts. *)
LEMMA BaseInit == Init => BaseInv
<1> SUFFICES ASSUME Init PROVE BaseInv
  OBVIOUS
<1>1. \A v \in Instances : cmd[Load(v)] = IF v \in Resident THEN "succeeded" ELSE None
  BY CommandFacts DEF Init, Commands, Loads, Load
<1>2. \A e \in Unloads : cmd[e] = None
  BY CommandFacts DEF Init, Commands, Loads, Load
<1>3. LockInv
  BY <1>1, NamesAssumption DEF Init, LockInv, None
<1>4. UpInv
  <2>1. \A v \in Resident : Up(v)
    BY <1>1, PlacementAssumption DEF Up, None
  <2>2. \A i, v \in Instances : ~Has(victims[i], v)
    BY DEF Init, Has
  <2>3. \A v \in Instances :
            res[v] \in {"held", "releasing"} \/ v \in snapshot.held \/ ttl = v => v \in Resident
    BY NamesAssumption DEF Init, None
  <2> QED BY <1>2, <2>1, <2>2, <2>3 DEF UpInv
<1>5. GoneInv
  BY <1>2 DEF Init, GoneInv, Carried, None
<1> QED BY <1>3, <1>4, <1>5, TypeInit, LedgerInit DEF BaseInv

(* The lock and its holder change together. *)
LEMMA LockKeeps == ASSUME BaseInv, [Next]_vars PROVE LockInv'
<1> USE DEF BaseInv
<1>1. ASSUME NEW i \in Instances PROVE pc'[i] = "draining" <=> lock' = i
  <2>1. LockStep
    BY LockEffect
  <2>2. CASE /\ UNCHANGED <<lock, snapshot>>
             /\ \A v \in Instances : pc'[v] = "draining" <=> pc[v] = "draining"
    BY <2>2 DEF LockInv
  <2>3. ASSUME NEW j \in Instances, Waiting(j) PROVE pc'[i] = "draining" <=> lock' = i
    BY <2>3, NamesAssumption DEF LockInv, Waiting, TypeInv, FlowType
  <2>4. CASE Crash
    BY <2>4, NamesAssumption DEF Crash
  <2>5. ASSUME NEW j \in Instances, Replan(j), lock' = None,
               \A v \in Instances : pc'[v] = "draining" => pc[v] = "draining" /\ ~Replan(v)
        PROVE  pc'[i] = "draining" <=> lock' = i
    <3>1. lock = j
      BY <2>5 DEF Replan, LockInv
    <3> QED BY <2>5, <3>1, NamesAssumption DEF LockInv
  <2> QED BY <2>1, <2>2, <2>3, <2>4, <2>5 DEF LockStep
<1>2. ASSUME NEW i \in Instances, dec'[i] = "ready" PROVE cmd'[Load(i)] = "succeeded"
  <2>1. cmd[Load(i)] = "succeeded"
    BY <1>2, FlowEffect DEF FlowStep, LockInv
  <2> QED BY <2>1, LoadEffect DEF None
<1> QED BY <1>1, <1>2 DEF LockInv, Load

(* What is up stays up. *)
LEMMA UpStays == ASSUME TypeInv, [Next]_vars, NEW v \in Instances, Up(v) PROVE Up(v)'
<1>1. CASE cmd[Load(v)] = "queued"
  <2>1. queue # <<>> /\ Current = Load(v)
    BY <1>1 DEF Up
  <2> QED BY <1>1, <2>1, LoadEffect, HeadEffect DEF Up, Load, None
<1>2. CASE cmd[Load(v)] # "queued"
  BY <1>2, LoadEffect DEF Up, Load, None
<1> QED BY <1>1, <1>2

(* Nothing else comes to hold memory or to be named. *)
LEMMA UpKeeps == ASSUME BaseInv, [Next]_vars PROVE UpInv'
<1> USE DEF BaseInv
<1>1. ASSUME NEW v \in Instances, res'[v] \in {"held", "releasing"} PROVE Up(v)'
  <2>1. CASE res'[v] = res[v]
    BY <1>1, <2>1, UpStays DEF UpInv
  <2>2. CASE LoadApply /\ v = Target
    <3>1. queue # <<>> /\ Current[1] = "load" /\ UNCHANGED <<cmd, queue>>
      BY <2>2 DEF LoadApply, IsCurrent
    <3>2. Current = Load(v) /\ cmd[Current] = "queued"
      BY <2>2, <3>1, CurrentFacts
    <3> QED BY <3>1, <3>2 DEF Up, Current, Load, None
  <2>3. CASE \E i \in Instances : pc[i] = "evict" /\ v = Head(victims[i])
    <3>1. PICK i \in Instances : pc[i] = "evict" /\ v = Head(victims[i])
      BY <2>3
    <3>2. Has(victims[i], v)
      BY <3>1, DropHead DEF TypeInv, FlowType
    <3> QED BY <3>2, UpStays DEF UpInv
  <2>4. CASE inst[v] = "draining" \/ ttl = v
    BY <2>4, UpStays DEF UpInv, LedgerInv, Settled
  <2> QED BY <1>1, <2>1, <2>2, <2>3, <2>4, ResEffect DEF ResStep
<1>2. \A v \in Instances : res[v] = "held" \/ v \in snapshot.held => Up(v)'
  BY UpStays DEF UpInv
<1>3. NameStep
  BY NameEffect
<1>4. \A v \in Instances : v \in snapshot'.held \/ ttl' = v => Up(v)'
  BY <1>2, <1>3, UpStays, NamesAssumption DEF NameStep, UpInv
<1>5. ASSUME NEW i \in Instances, NEW v \in Instances, Has(victims'[i], v) PROVE Up(v)'
  BY <1>2, <1>3, <1>5, UpStays DEF NameStep, UpInv
<1>6. ASSUME NEW e \in Unloads, cmd'[e] # None PROVE Up(e[3])'
  <2>1. e \in Commands /\ e[3] \in Instances /\ e # Load(e[3])
    BY CommandFacts
  <2>2. cmd[e] # None \/ res'[e[3]] = "releasing"
    BY <1>6, <2>1, WorkEffect DEF WorkStep, Orders, Ends, None
  <2> QED BY <1>1, <2>1, <2>2, UpStays DEF UpInv
<1>7. \A i, v \in Instances : Has(victims[i], v)' <=> Has(victims'[i], v)
  BY DEF Has
<1> QED BY <1>1, <1>4, <1>5, <1>6, <1>7 DEF UpInv

(* What is gone stays gone. *)
LEMMA GoneStays == ASSUME TypeInv, [Next]_vars, NEW v \in Instances, Gone(v) PROVE Gone(v)'
<1>1. cmd'[Load(v)] = cmd[Load(v)]
  BY LoadEffect DEF Gone, None
<1>2. res'[v] # "held"
  <2>1. ~(LoadApply /\ v = Target)
    BY CurrentFacts DEF LoadApply, IsCurrent, Gone
  <2> QED BY <2>1, ResEffect DEF ResStep, Gone
<1>3. inst'[v] \notin Routed
  BY FlowEffect DEF InstStep, Gone
<1> QED BY <1>1, <1>2, <1>3 DEF Gone, Load

(* Unloads are carried out one way only. *)
LEMMA CarriedEffect ==
    ASSUME TypeInv, [Next]_vars, NEW e \in Unloads, Carried(e)', ~Carried(e)
    PROVE  /\ UnloadApply /\ queue # <<>> /\ Current = e /\ Target = e[3]
           /\ cmd[e] = "queued" /\ UNCHANGED <<cmd, queue>>
<1>1. e \in Commands /\ e[3] \in Instances /\ \A i \in Instances : e # Load(i)
  BY CommandFacts
<1>2. cmd'[e] # "succeeded"
  BY <1>1, WorkEffect DEF WorkStep, Orders, Ends, Carried
<1>3. call' = "applied" /\ queue' # <<>> /\ Current' = e
  BY <1>2 DEF Carried
<1>4. call # "applied"
  <2> SUFFICES ASSUME call = "applied" PROVE FALSE
    OBVIOUS
  <2>1. queue # <<>>
    BY DEF TypeInv, WorkType
  <2> QED BY <1>3, <2>1, HeadEffect DEF Carried
<1>5. LoadApply \/ UnloadApply
  BY <1>3, <1>4, CallEffect
<1>6. queue # <<>> /\ UNCHANGED <<cmd, queue>>
  BY <1>5 DEF LoadApply, UnloadApply, IsCurrent
<1>7. Current = e
  BY <1>3, <1>6 DEF Current
<1>8. ~LoadApply
  BY <1>1, <1>6, <1>7, CurrentFacts DEF LoadApply, IsCurrent
<1> QED BY <1>5, <1>6, <1>7, <1>8, CurrentFacts DEF Target

(* They leave their instance gone. *)
LEMMA GoneKeeps == ASSUME BaseInv, [Next]_vars PROVE GoneInv'
<1> USE DEF BaseInv
<1>1. ASSUME NEW e \in Unloads, Carried(e)', ~Carried(e) PROVE Gone(e[3])'
  <2>1. /\ e[3] \in Instances /\ Load(e[3]) \in Commands
        /\ \A i \in Instances : e # Load(i)
    BY CommandFacts
  <2>2. /\ UnloadApply /\ Current = e /\ Target = e[3]
        /\ cmd[e] = "queued" /\ cmd' = cmd
    BY <1>1, CarriedEffect
  <2>3. Up(e[3])
    BY <2>2 DEF UpInv, None
  <2>4. cmd[Load(e[3])] \in {"succeeded", "failed"}
    BY <2>1, <2>2, <2>3 DEF Up, TypeInv, WorkType
  <2>5. res'[e[3]] # "held" /\ inst'[e[3]] \notin Routed
    BY <2>1, <2>2 DEF UnloadApply, TypeInv, LedgerType, FlowType, Routed
  <2> QED BY <2>2, <2>4, <2>5 DEF Gone, Load
<1>2. ASSUME NEW e \in Unloads, Carried(e) PROVE Gone(e[3])'
  <2>1. e[3] \in Instances
    BY CommandFacts
  <2> QED BY <1>2, <2>1, GoneStays DEF GoneInv
<1>3. \A e \in Unloads : Carried(e)' => Gone(e[3])'
  BY <1>1, <1>2
<1> QED BY <1>3 DEF GoneInv, Carried, Gone

(* The invariant is kept by every step. *)
LEMMA BaseStep == ASSUME BaseInv, [Next]_vars PROVE BaseInv'
BY TypeStep, LedgerStep, LockKeeps, UpKeeps, GoneKeeps DEF BaseInv

-----------------------------------------------------------------------------
(* Admissions pay for themselves *)

Victims(j) == ToSet(victims[j])

(* Of any of these instances there is one, the latest admitted, for which  *)
(* all the others fit beside it once its own victims are gone.             *)
Fit(K) ==
    \A S \in SUBSET K : S # {} =>
        \E j \in S : Bytes(S \ Victims(j)) <= Budget

(* What the holder of the lock read covers these instances still. *)
Seen(K) ==
    lock # None =>
        \E C \in SUBSET Instances :
            /\ K \subseteq C /\ snapshot.held \subseteq C
            /\ Bytes(C) <= Budget - snapshot.free

(* Victims are instances. *)
LEMMA VictimSets ==
    ASSUME TypeInv, NEW j \in Instances
    PROVE  /\ Victims(j) \in SUBSET Instances
           /\ \A v : v \in Victims(j) <=> Has(victims[j], v)
           /\ pc[j] \notin {"evict", "unloading"} => Victims(j) = {}
<1>1. victims[j] \in Seq(Instances)
  BY DEF TypeInv, FlowType
<1>2. pc[j] \notin {"evict", "unloading"} => victims[j] = <<>>
  BY DEF TypeInv, FlowType
<1> QED BY <1>1, <1>2, HasSet DEF Victims, ToSet

(* Fewer instances fit too, when only victims that are none of them go. *)
LEMMA FitShrinks ==
    ASSUME NEW K \in SUBSET Instances, NEW L \in SUBSET K, Fit(K),
           \A j \in L, v \in L : v \in Victims(j) => v \in ToSet(victims'[j])
    PROVE  \A S \in SUBSET L : S # {} =>
               \E j \in S : Bytes(S \ ToSet(victims'[j])) <= Budget
<1> SUFFICES ASSUME NEW S \in SUBSET L, S # {}
             PROVE  \E j \in S : Bytes(S \ ToSet(victims'[j])) <= Budget
  OBVIOUS
<1>1. PICK j \in S : Bytes(S \ Victims(j)) <= Budget
  BY DEF Fit
<1> DEFINE A == S \ Victims(j)
           B == S \ ToSet(victims'[j])
<1>2. B \in SUBSET A /\ A \in SUBSET Instances
  BY <1>1
<1>3. Bytes(B) <= Bytes(A) /\ Bytes(A) \in Nat /\ Bytes(B) \in Nat
  BY <1>2, BytesDiff, BytesNat
<1>4. Bytes(A) <= Budget /\ Budget \in Nat
  BY <1>1, PlacementAssumption
<1> HIDE DEF A, B
<1>5. Bytes(B) <= Budget
  BY <1>3, <1>4
<1> QED BY <1>5 DEF B

(* One more fits when its plan was made from what covers the others. *)
LEMMA PlanPays ==
    ASSUME NEW i \in Instances, NEW C \in SUBSET Instances, NEW V \in SUBSET C,
           Bytes(C) + Size[i] <= Budget + Bytes(V),
           NEW S \in SUBSET (C \cup {i})
    PROVE  Bytes(S \ V) <= Budget
<1> DEFINE R == C \ V
           T == R \cup {i}
           U == S \ V
<1>1. U \in SUBSET T /\ T \in SUBSET Instances /\ R \in SUBSET Instances
  OBVIOUS
<1>2. /\ Bytes(C) = Bytes(V) + Bytes(R)
      /\ Bytes(V) \in Nat /\ Bytes(R) \in Nat /\ Bytes(C) \in Nat
  BY <1>1, BytesDiff, BytesNat
<1>3. Bytes(T) <= Bytes(R) + Size[i] /\ Bytes(T) \in Nat /\ Size[i] \in Nat
  <2>1. CASE i \in R
    <3>1. T = R
      BY <2>1
    <3>2. Bytes(T) = Bytes(R) /\ Size[i] \in Nat
      BY <3>1, BytesNat
    <3> HIDE DEF T, R
    <3> QED BY <1>2, <3>2
  <2>2. CASE i \notin R
    <3>1. T \ {i} = R /\ i \in T
      BY <2>2
    <3>2. Bytes(T) = Bytes(R) + Size[i]
      BY <1>1, <3>1, BytesAdd
    <3> QED BY <1>1, <1>2, <3>2, BytesNat
  <2> QED BY <2>1, <2>2
<1>4. Bytes(U) <= Bytes(T) /\ Bytes(U) \in Nat
  BY <1>1, BytesDiff, BytesNat
<1> HIDE DEF R, T, U
<1>5. Bytes(U) <= Budget
  BY <1>2, <1>3, <1>4, PlacementAssumption
<1> QED BY <1>5 DEF U

(* The ledger covers what is counted in it. *)
LEMMA OccupiedCovers ==
    ASSUME TypeInv
    PROVE  /\ Holding(Counted) \in SUBSET Instances /\ Budget - Occupied \in Int
           /\ Holding({"held"}) \subseteq Holding(Counted)
           /\ Bytes(Holding(Counted)) <= Budget - (Budget - Occupied)
<1> DEFINE C == Holding(Counted)
<1>1. C \in SUBSET Instances /\ Holding({"held"}) \subseteq C
  BY DEF Holding, Counted
<1>2. Bytes(C) \in Nat /\ Bytes(Instances) \in Nat
  BY <1>1, BytesNat
<1>3. measured \in Int /\ Budget \in Nat
  BY <1>2, PlacementAssumption DEF TypeInv, NodeType
<1>4. Occupied = IF measured > Bytes(C) THEN measured ELSE Bytes(C)
  BY DEF Occupied
<1> HIDE DEF C
<1>5. Occupied \in Int /\ Bytes(C) <= Occupied
  BY <1>2, <1>3, <1>4
<1>6. Budget - Occupied \in Int /\ Bytes(C) <= Budget - (Budget - Occupied)
  BY <1>2, <1>3, <1>5
<1> QED BY <1>1, <1>6 DEF C

(* Admissions keep both, for any set of instances that the ledger counts   *)
(* and that only an admission extends; other steps do when only victims    *)
(* outside it are forgotten.                                               *)
LEMMA FitKeeps ==
    ASSUME BaseInv, [Next]_vars,
           NEW K \in SUBSET Instances, NEW L \in SUBSET Instances,
           K \subseteq Holding(Counted), Fit(K), Seen(K),
           \A j \in L \ K : (Plan(j) \/ Replan(j)) /\ pc'[j] \in Active,
           \A j \in L, v \in L : v \in Victims(j) /\ j \in K => v \in ToSet(victims'[j])
    PROVE  /\ \A S \in SUBSET L : S # {} =>
                 \E j \in S : Bytes(S \ ToSet(victims'[j])) <= Budget
           /\ lock' # None =>
                 \E C \in SUBSET Instances :
                    /\ L \subseteq C /\ snapshot'.held \subseteq C
                    /\ Bytes(C) <= Budget - snapshot'.free
<1> DEFINE Fits1 == \A S \in SUBSET L : S # {} =>
                        \E j \in S : Bytes(S \ ToSet(victims'[j])) <= Budget
           Seen1 == lock' # None =>
                       \E C \in SUBSET Instances :
                          /\ L \subseteq C /\ snapshot'.held \subseteq C
                          /\ Bytes(C) <= Budget - snapshot'.free
<1> USE DEF BaseInv
<1>1. ASSUME NEW i \in Instances, NEW j \in Instances,
             Plan(i) \/ Replan(i), Plan(j) \/ Replan(j),
             \E plan : Admit(i, plan)
      PROVE  i = j
  <2>1. pc'[i] \in {"evict", "reserve"}
    BY <1>1 DEF Admit, TypeInv, FlowType
  <2>2. pc[i] \in {"plan", "draining"}
    BY <1>1 DEF Plan, Replan
  <2>3. \/ \E plan : Admit(j, plan)
        \/ pc' = [pc EXCEPT ![j] = "draining"] \/ Refuse(j)
    BY <1>1 DEF Plan, Replan
  <2>4. \E p : pc' = [pc EXCEPT ![j] = p]
    BY <2>3 DEF Admit, Refuse
  <2> QED BY <2>1, <2>2, <2>4 DEF TypeInv, FlowType
<1>2. ASSUME NEW i \in Instances, Plan(i) \/ Replan(i), NEW C \in SUBSET Instances,
             K \subseteq C, NEW free \in Int, Bytes(C) <= Budget - free,
             NEW held, held \subseteq C, NEW plan \in Plans(Size[i], free, held),
             Admit(i, plan), lock' = None
      PROVE  Fits1 /\ Seen1
  <2>1. L \subseteq K \cup {i}
    BY <1>1, <1>2
  <2>2. ToSet(plan) \in SUBSET C /\ Bytes(ToSet(plan)) >= Size[i] - free
    BY <1>2, PlanFacts DEF TypeInv
  <2>3. \A j \in Instances : victims'[j] = IF j = i THEN plan ELSE victims[j]
    BY <1>2 DEF Admit, TypeInv, FlowType
  <2> DEFINE V == ToSet(plan)
  <2>5. /\ V \in SUBSET C /\ Bytes(V) >= Size[i] - free
        /\ ToSet(victims'[i]) = V
        /\ \A j \in Instances : j # i => victims'[j] = victims[j]
    BY <2>2, <2>3
  <2>6. Bytes(C) + Size[i] <= Budget + Bytes(V)
    <3>1. /\ Bytes(C) \in Nat /\ Bytes(V) \in Nat /\ Size[i] \in Nat
          /\ Budget \in Nat
      BY <2>5, BytesNat, PlacementAssumption
    <3> HIDE DEF V
    <3> QED BY <1>2, <2>5, <3>1
  <2> HIDE DEF V
  <2>7. ASSUME NEW S \in SUBSET L, i \in S PROVE Bytes(S \ V) <= Budget
    <3>1. S \in SUBSET (C \cup {i})
      BY <1>2, <2>1
    <3> QED BY <1>2, <2>5, <2>6, <3>1, PlanPays
  <2>8. ASSUME NEW S \in SUBSET L, S # {}, i \notin S
        PROVE  \E j \in S : Bytes(S \ ToSet(victims'[j])) <= Budget
    <3>1. PICK j \in S : Bytes(S \ Victims(j)) <= Budget
      BY <2>1, <2>8 DEF Fit
    <3>2. victims'[j] = victims[j]
      BY <2>5, <2>8, <3>1
    <3> QED BY <3>1, <3>2 DEF Victims
  <2>9. ASSUME NEW S \in SUBSET L, S # {}
        PROVE  \E j \in S : Bytes(S \ ToSet(victims'[j])) <= Budget
    <3>1. CASE i \in S
      <4>1. Bytes(S \ ToSet(victims'[i])) <= Budget
        BY <2>5, <2>7, <3>1
      <4> QED BY <3>1, <4>1
    <3> QED BY <2>8, <2>9, <3>1
  <2> QED BY <1>2, <2>9
<1>3. ASSUME NEW i \in Instances, NEW plan \in Plans(Size[i], Budget - Occupied, Holding({"held"})),
             Plan(i), Admit(i, plan), UNCHANGED <<snapshot, lock>>
      PROVE  Fits1 /\ Seen1
  BY <1>2, <1>3, OccupiedCovers DEF Plan
<1>4. ASSUME NEW i \in Instances, NEW plan \in Plans(Size[i], snapshot.free, snapshot.held),
             Replan(i), Admit(i, plan)
      PROVE  Fits1 /\ Seen1
  <2>1. lock = i /\ lock' = None /\ lock # None /\ snapshot.free \in Int
    BY <1>4, NamesAssumption DEF Replan, LockInv, TypeInv, FlowType
  <2>2. PICK C \in SUBSET Instances :
            /\ K \subseteq C /\ snapshot.held \subseteq C
            /\ Bytes(C) <= Budget - snapshot.free
    BY <2>1 DEF Seen
  <2> QED BY <1>2, <1>4, <2>1, <2>2
<1>5. ASSUME NEW i \in Instances, Waiting(i), L \subseteq K PROVE Seen1
  BY <1>5, OccupiedCovers DEF Waiting
<1>6. ASSUME UNCHANGED <<lock, snapshot>>, L \subseteq K PROVE Seen1
  BY <1>6 DEF Seen
<1>7. ASSUME L \subseteq K PROVE Fits1
  BY <1>7, FitShrinks
<1>8. CASE L \subseteq K
  <2>1. Seen1
    BY <1>5, <1>6, <1>8, LockEffect DEF LockStep
  <2> QED BY <1>7, <1>8, <2>1
<1>9. CASE ~(L \subseteq K)
  <2>1. PICK i \in Instances : i \in L \ K /\ (Plan(i) \/ Replan(i))
    BY <1>9
  <2>2. ~Refuse(i) /\ pc' # [pc EXCEPT ![i] = "draining"]
    BY <1>9, <2>1 DEF Refuse, TypeInv, FlowType, Active
  <2>3. CASE Plan(i)
    BY <1>3, <2>2, <2>3 DEF Plan
  <2>4. CASE Replan(i)
    BY <1>4, <2>2, <2>4 DEF Replan
  <2> QED BY <2>1, <2>3, <2>4
<1> QED BY <1>8, <1>9

-----------------------------------------------------------------------------
(* What the gateway may route to *)

(* An instance claims memory while its decision is under way and its load  *)
(* has not ended, and once it has succeeded while it holds the memory.     *)
Claims(j) ==
    /\ inst[j] \notin Terminal
    /\ \/ pc[j] \in Active /\ cmd[Load(j)] \in {None, "queued"}
       \/ pc[j] = "loading" /\ cmd[Load(j)] = "succeeded" /\ res[j] = "held"
       \/ dec[j] = "ready" /\ (res[j] = "held" \/ inst[j] \in Routed)
Claimants == {j \in Instances : Claims(j)}

ClaimInv == Claimants \subseteq Holding(Counted)

RoutedInv == BaseInv /\ ClaimInv /\ Fit(Claimants) /\ Seen(Claimants)

(* Only an admission makes a claim. *)
LEMMA ClaimEffect ==
    ASSUME BaseInv, [Next]_vars, NEW j \in Instances, Claims(j)', ~Claims(j)
    PROVE  (Plan(j) \/ Replan(j)) /\ pc'[j] \in Active /\ res'[j] = "pending"
<1> USE DEF BaseInv
<1>1. inst[j] \notin Terminal
  BY FlowEffect DEF Claims, InstStep
<1>2. FlowStep(j) /\ InstStep(j) /\ ResStep(j)
  BY FlowEffect, ResEffect
<1>3. res'[j] = "held" /\ cmd[Load(j)] # "queued" => res[j] = "held"
  <2>1. LoadApply /\ j = Target => cmd[Load(j)] = "queued"
    BY CurrentFacts DEF LoadApply, IsCurrent
  <2> QED BY <1>2, <2>1 DEF ResStep
<1>4. \/ cmd'[Load(j)] = cmd[Load(j)]
      \/ cmd[Load(j)] = None /\ cmd'[Load(j)] = "queued"
      \/ cmd[Load(j)] = "queued" /\ cmd'[Load(j)] \in {"succeeded", "failed"}
  BY LoadEffect
<1>5. CASE pc'[j] \in Active /\ cmd'[Load(j)] \in {None, "queued"}
  BY <1>1, <1>2, <1>4, <1>5 DEF FlowStep, Claims, None
<1>6. CASE pc'[j] = "loading" /\ cmd'[Load(j)] = "succeeded" /\ res'[j] = "held"
  BY <1>1, <1>2, <1>3, <1>4, <1>6 DEF FlowStep, Claims, Active, None
<1>7. CASE dec'[j] = "ready" /\ (res'[j] = "held" \/ inst'[j] \in Routed)
  <2>1. CASE dec[j] = "ready"
    <3>1. cmd[Load(j)] = "succeeded"
      BY <2>1 DEF LockInv
    <3> QED BY <1>1, <1>2, <1>3, <1>7, <2>1, <3>1 DEF InstStep, Claims
  <2>2. CASE dec[j] # "ready"
    <3>1. inst[j] \notin Routed
      BY <2>2 DEF LedgerInv, Settled, Routed
    <3> QED BY <1>1, <1>2, <1>7, <2>2, <3>1 DEF FlowStep, Claims
  <2> QED BY <2>1, <2>2
<1>8. Load(j)' = Load(j)
  BY DEF Load
<1> QED BY <1>5, <1>6, <1>7, <1>8 DEF Claims

(* A claim is counted. *)
LEMMA ClaimKeeps == ASSUME RoutedInv, [Next]_vars PROVE ClaimInv'
<1> USE DEF RoutedInv, BaseInv
<1> SUFFICES ASSUME NEW j \in Instances, Claims(j)' PROVE res'[j] \in Counted
  BY DEF ClaimInv, Claimants, Holding
<1>1. CASE ~Claims(j)
  BY <1>1, ClaimEffect DEF Counted
<1>2. CASE Claims(j)
  <2>1. res[j] \in Counted
    BY <1>2 DEF ClaimInv, Claimants, Holding
  <2>2. inst'[j] \notin Terminal
    BY DEF Claims
  <2>3. ASSUME pc'[j] \in {"start", "done"}, dec'[j] = "failed" PROVE FALSE
    BY <2>3 DEF Claims, Active
  <2>4. ASSUME UnloadApply, j = Target, res'[j] \in {"released", "failed"} PROVE FALSE
    <3>1. queue # <<>> /\ Current[1] = "unload" /\ cmd' = cmd
      BY <2>4 DEF UnloadApply, IsCurrent
    <3>2. Current \in Unloads /\ cmd[Current] = "queued"
      BY <3>1, CurrentFacts
    <3>3. Up(j)
      BY <2>4, <3>2 DEF UpInv, Target, None
    <3>4. cmd'[Load(j)] \notin {None, "queued"}
      BY <3>1, <3>2, <3>3, CommandFacts DEF Up
    <3>5. inst'[j] \notin Routed
      BY <2>4 DEF UnloadApply, TypeInv, FlowType, Routed
    <3> QED BY <2>4, <3>4, <3>5 DEF Claims, Load
  <2>5. ResStep(j)
    BY ResEffect
  <2> QED BY <2>1, <2>2, <2>3, <2>4, <2>5 DEF ResStep, Counted
<1> QED BY <1>1, <1>2

(* The victims a decision forgets while it goes on are gone. *)
LEMMA VictimEffect ==
    ASSUME BaseInv, [Next]_vars, NEW j \in Instances, NEW v \in Instances,
           Has(victims[j], v), ~Has(victims'[j], v)
    PROVE  \/ Crash \/ Fail(j)
           \/ /\ Unloaded(j) /\ v = Head(victims[j])
              /\ cmd[<<"unload", j, v>>] = "succeeded" /\ UNCHANGED <<inst, res, cmd>>
<1> USE DEF BaseInv
<1>1. pc[j] \in {"evict", "unloading"}
  BY DEF TypeInv, FlowType, Has
<1>2. victims'[j] # victims[j]
  OBVIOUS
<1>3. ASSUME NEW i \in Instances, i # j PROVE ~Decision(i)
  <2>1. ASSUME NEW p, victims' = [victims EXCEPT ![i] = p] PROVE FALSE
    BY <1>2, <1>3, <2>1 DEF TypeInv, FlowType
  <2>2. ~Fail(i) /\ \A plan : ~Admit(i, plan)
    BY <2>1 DEF Fail, Admit
  <2>3. ~Start(i) /\ ~Reserve(i)
    BY <1>2 DEF Start, Reserve
  <2>4. ~Plan(i) /\ ~Replan(i)
    BY <1>2, <2>2 DEF Plan, Replan, Refuse
  <2>5. ~Evict(i) /\ ~Loaded(i)
    BY <1>2, <2>2 DEF Evict, Loaded
  <2>6. ~Unloaded(i)
    BY <2>1, <2>2 DEF Unloaded
  <2> QED BY <2>3, <2>4, <2>5, <2>6 DEF Decision
<1>4. CASE Decision(j)
  <2>1. ~Start(j) /\ ~Plan(j) /\ ~Replan(j) /\ ~Reserve(j) /\ ~Loaded(j)
    BY <1>1 DEF Start, Plan, Replan, Reserve, Loaded
  <2>2. CASE Evict(j)
    BY <1>2, <2>2 DEF Evict
  <2>3. CASE Unloaded(j)
    <3>1. CASE Fail(j)
      BY <3>1
    <3>2. CASE ~Fail(j)
      <4>1. /\ cmd[<<"unload", j, Head(victims[j])>>] = "succeeded"
            /\ victims' = [victims EXCEPT ![j] = Tail(victims[j])]
            /\ UNCHANGED <<inst, res, cmd>>
        BY <2>3, <3>2 DEF Unloaded, Unchanged, work
      <4>2. victims'[j] = Tail(victims[j])
        BY <4>1 DEF TypeInv, FlowType
      <4>3. v = Head(victims[j])
        BY <1>1, <4>2, DropHead DEF TypeInv, FlowType
      <4> QED BY <2>3, <4>1, <4>3
    <3> QED BY <3>1, <3>2
  <2> QED BY <1>4, <2>1, <2>2, <2>3 DEF Decision
<1>5. ASSUME NEW i \in Instances,
             Instance(i) \/ Reconciler(i) \/ Unknown(i) PROVE FALSE
  BY <1>2, <1>5 DEF Instance, Launch, LaunchFails, LaunchLoads, LaunchReady, Drain,
     Drained, Reconciler, Sync, ReleaseTerminal, Unknown, flow
<1>6. ASSUME NEW i \in Instances,
             IdleFound(i) \/ Progress(i) \/ Environment(i) PROVE FALSE
  BY <1>2, <1>6 DEF IdleFound, Progress, Environment, DrainRequest, AcquireLease,
     EndLease, SetPin, Die, flow
<1>7. ASSUME Executor \/ Expire \/ IdleReleased \/ Sample \/ UNCHANGED vars PROVE FALSE
  BY <1>2, <1>7 DEF Executor, LoadCall, LoadApply, UnloadCall, UnloadApply, Succeed,
     LoadDies, Expire, IdleReleased, Sample, vars, flow
<1> QED BY <1>3, <1>4, <1>5, <1>6, <1>7, Zenon DEF Next

(* A crash and a failure end the claim, an unload its victim's. *)
LEMMA ClaimForgets ==
    ASSUME BaseInv, [Next]_vars, NEW j \in Instances, Claims(j)', Claims(j),
           NEW v \in Instances, Claims(v)', Has(victims[j], v)
    PROVE  Has(victims'[j], v)
<1> USE DEF BaseInv
<1> SUFFICES ASSUME ~Has(victims'[j], v) PROVE FALSE
  OBVIOUS
<1>1. pc[j] \in {"evict", "unloading"}
  BY DEF TypeInv, FlowType, Has
<1>2. dec[j] # "ready"
  BY <1>1 DEF LedgerInv, Settled
<1>3. ~Crash
  <2> SUFFICES ASSUME Crash PROVE FALSE
    OBVIOUS
  <2>1. pc'[j] = "start" /\ dec'[j] # "ready"
    BY <1>1, <1>2 DEF Crash
  <2> QED BY <2>1 DEF Claims, Active
<1>4. ~Fail(j)
  <2> SUFFICES ASSUME Fail(j) PROVE FALSE
    OBVIOUS
  <2>1. pc'[j] \in {"start", "done"} /\ dec'[j] = "failed"
    BY DEF Fail, TypeInv, FlowType
  <2> QED BY <2>1 DEF Claims, Active
<1>5. cmd[<<"unload", j, v>>] = "succeeded" /\ UNCHANGED <<inst, res, cmd>>
  BY <1>3, <1>4, VictimEffect
<1>6. Gone(v)
  BY <1>5, CommandFacts DEF GoneInv, Carried
<1>7. cmd'[Load(v)] \in {"succeeded", "failed"} /\ res'[v] # "held" /\ inst'[v] \notin Routed
  BY <1>5, <1>6 DEF Gone
<1> QED BY <1>7 DEF Claims, Load, None

(* The claims fit, with the victims that have still to go. *)
LEMMA ClaimsFit ==
    ASSUME RoutedInv, [Next]_vars PROVE Fit(Claimants)' /\ Seen(Claimants)'
<1> DEFINE K == Claimants
           L == Claimants'
<1>1. K \in SUBSET Instances /\ L \in SUBSET Instances
  BY DEF Claimants
<1>2. K \subseteq Holding(Counted) /\ Fit(K) /\ Seen(K) /\ BaseInv
  BY DEF RoutedInv, ClaimInv
<1>3. \A j \in L \ K : (Plan(j) \/ Replan(j)) /\ pc'[j] \in Active
  BY <1>2, ClaimEffect DEF Claimants
<1>4. TypeInv'
  BY TypeStep DEF RoutedInv, BaseInv
<1>5. \A j \in Instances : \A v : v \in ToSet(victims'[j]) <=> Has(victims'[j], v)
  BY <1>4, HasSet DEF TypeInv, FlowType
<1>6. \A j \in L, v \in L : v \in Victims(j) /\ j \in K => v \in ToSet(victims'[j])
  <2> SUFFICES ASSUME NEW j \in L, NEW v \in L, v \in Victims(j), j \in K
               PROVE  v \in ToSet(victims'[j])
    OBVIOUS
  <2>1. Has(victims[j], v)
    BY <1>1, <1>2, VictimSets DEF BaseInv
  <2> QED BY <1>1, <1>2, <1>5, <2>1, ClaimForgets DEF Claimants
<1> HIDE DEF K, L
<1>7. /\ \A S \in SUBSET L : S # {} =>
            \E j \in S : Bytes(S \ ToSet(victims'[j])) <= Budget
      /\ lock' # None =>
            \E C \in SUBSET Instances :
               /\ L \subseteq C /\ snapshot'.held \subseteq C
               /\ Bytes(C) <= Budget - snapshot'.free
  BY <1>1, <1>2, <1>3, <1>6, FitKeeps
<1> QED BY <1>7 DEF Fit, Seen, Victims, L

(* It holds when the model starts, if the residents fit. *)
LEMMA RoutedInit == ASSUME Init, Bytes(Resident) <= Budget PROVE RoutedInv
<1>1. BaseInv
  BY BaseInit
<1>2. \A v \in Instances : v \notin Resident => ~Claims(v)
  BY DEF Init, Claims, Active, None
<1>3. Claimants \in SUBSET Resident
  BY <1>2 DEF Claimants
<1>4. ClaimInv
  BY <1>3, PlacementAssumption DEF Init, ClaimInv, Holding, Counted
<1>5. Fit(Claimants)
  <2> SUFFICES ASSUME NEW S \in SUBSET Claimants, NEW j \in S
               PROVE  Bytes(S \ Victims(j)) <= Budget
    BY DEF Fit
  <2>1. S \ Victims(j) \in SUBSET Resident /\ Resident \in SUBSET Instances
    BY <1>3, PlacementAssumption
  <2>2. /\ Bytes(S \ Victims(j)) <= Bytes(Resident)
        /\ Bytes(S \ Victims(j)) \in Nat /\ Bytes(Resident) \in Nat
    BY <2>1, BytesDiff, BytesNat
  <2> QED BY <2>2, PlacementAssumption
<1>6. Seen(Claimants)
  BY DEF Init, Seen
<1> QED BY <1>1, <1>4, <1>5, <1>6 DEF RoutedInv

(* Claims whose decisions have no victims left fit. *)
LEMMA ClaimsSuffice ==
    ASSUME RoutedInv, NEW S \in SUBSET Claimants,
           \A j \in S : pc[j] \notin {"evict", "unloading"}
    PROVE  Bytes(S) <= Budget
<1>1. CASE S = {}
  BY <1>1, BytesNat, PlacementAssumption
<1>2. CASE S # {}
  <2>1. PICK j \in S : Bytes(S \ Victims(j)) <= Budget
    BY <1>2 DEF RoutedInv, Fit
  <2>2. S \ Victims(j) = S
    BY <2>1, VictimSets DEF RoutedInv, BaseInv, Claimants
  <2> QED BY <2>1, <2>2
<1> QED BY <1>1, <1>2

(* What is admitted, and with it what is routed to, is among these claims. *)
LEMMA AdmittedSuffices == RoutedInv => AdmittedFit
<1> SUFFICES ASSUME RoutedInv PROVE AdmittedFit
  OBVIOUS
<1>1. ASSUME NEW j \in Admitted
      PROVE  Claims(j) /\ j \in Instances /\ pc[j] \notin {"evict", "unloading"}
  <2>1. j \in Instances /\ (dec[j] = "ready" => pc[j] = "done")
    BY <1>1 DEF Admitted, RoutedInv, BaseInv, LedgerInv, Settled
  <2> QED BY <1>1, <2>1 DEF Admitted, Claims, Active, Routed, Load
<1>2. Admitted \in SUBSET Claimants
  BY <1>1 DEF Claimants
<1> QED BY <1>1, <1>2, ClaimsSuffice DEF AdmittedFit

LEMMA RoutedSuffices == RoutedInv => RoutedFit
<1> SUFFICES ASSUME RoutedInv PROVE RoutedFit
  OBVIOUS
<1> DEFINE R == {i \in Instances : inst[i] \in {"ready", "draining"}}
<1>1. ASSUME NEW j \in R PROVE Claims(j) /\ pc[j] \notin {"evict", "unloading"}
  <2>1. dec[j] = "ready" /\ pc[j] = "done" /\ inst[j] \notin Terminal
    BY DEF RoutedInv, BaseInv, LedgerInv, Settled, Terminal
  <2> QED BY <2>1 DEF Claims, Routed
<1>2. R \in SUBSET Claimants
  BY <1>1 DEF Claimants
<1> QED BY <1>1, <1>2, ClaimsSuffice DEF RoutedFit

(* RoutedInv holds for every set of instances, every size and budget,      *)
(* every idle TTL and every number of attempts, leases, restarts, timeouts *)
(* and deaths, as long as the residents fit when the model starts.         *)
LEMMA ClaimSafety ==
    ASSUME Bytes(Resident) <= Budget
    PROVE  Spec => []RoutedInv
<1>1. Init => RoutedInv
  BY RoutedInit
<1>2. RoutedInv /\ [Next]_vars => RoutedInv'
  <2> SUFFICES ASSUME RoutedInv, [Next]_vars PROVE RoutedInv'
    OBVIOUS
  <2>1. BaseInv'
    BY BaseStep DEF RoutedInv
  <2> QED BY <2>1, ClaimKeeps, ClaimsFit DEF RoutedInv
<1> QED BY <1>1, <1>2, PTL DEF Spec

(* What the gateway may route to fits the budget. *)
THEOREM RoutedSafety ==
    ASSUME Bytes(Resident) <= Budget
    PROVE  Spec => []RoutedFit
BY ClaimSafety, RoutedSuffices, PTL

(* So do the loads under way beside it: two plans never spend the same     *)
(* memory, restarts and the idle TTL of any instance included.             *)
THEOREM AdmittedSafety ==
    ASSUME Bytes(Resident) <= Budget
    PROVE  Spec => []AdmittedFit
BY ClaimSafety, AdmittedSuffices, PTL

-----------------------------------------------------------------------------
(* What holds until the scheduler restarts *)

(* To a decision's course: it reserves, ends its load, or changes on the   *)
(* way to the one or after the other.                                      *)
Evicting == {"evict", "unloading", "reserve"}
CourseStep(v) ==
    \/ pc'[v] = pc[v] /\ dec'[v] = dec[v]
    \/ Reserve(v) \/ Loaded(v) \/ Crash
    \/ /\ pc[v] \notin {"loading", "done"} /\ pc'[v] # "loading"
       /\ dec'[v] = dec[v] \/ dec'[v] # "loading"
       /\ pc'[v] \in Evicting => pc[v] \in Evicting \/ res'[v] = "pending"

(* Every step treats a decision in one of these ways. *)
LEMMA CourseEffect == ASSUME TypeInv, [Next]_vars, NEW v \in Instances PROVE CourseStep(v)
<1> USE DEF CourseStep, Evicting
<1>1. ASSUME UNCHANGED <<dec, pc>> PROVE CourseStep(v)
  BY <1>1
<1>2. ASSUME NEW i \in Instances, NEW p, NEW d, i # v,
             pc' = [pc EXCEPT ![i] = p], dec' = dec \/ dec' = [dec EXCEPT ![i] = d]
      PROVE  CourseStep(v)
  BY <1>2 DEF TypeInv, FlowType
<1>3. ASSUME NEW i \in Instances, Start(i) PROVE CourseStep(v)
  BY <1>3 DEF Start, TypeInv, FlowType
<1>4. ASSUME NEW i \in Instances, Plan(i) \/ Replan(i) PROVE CourseStep(v)
  <2>1. /\ pc[i] \in {"plan", "draining"}
        /\ \/ \E plan : Admit(i, plan)
           \/ pc' = [pc EXCEPT ![i] = "draining"] /\ dec' = dec
           \/ Refuse(i)
    BY <1>4 DEF Plan, Replan
  <2>2. ASSUME NEW plan, Admit(i, plan) PROVE CourseStep(v)
    BY <2>1, <2>2 DEF Admit, MakePending, TypeInv, FlowType, LedgerType
  <2>3. CASE pc' = [pc EXCEPT ![i] = "draining"] /\ dec' = dec
    BY <2>1, <2>3 DEF TypeInv, FlowType
  <2>4. CASE Refuse(i)
    BY <2>1, <2>4 DEF Refuse, TypeInv, FlowType
  <2> QED BY <2>1, <2>2, <2>3, <2>4
<1>5. ASSUME NEW i \in Instances, Evict(i) \/ Unloaded(i) PROVE CourseStep(v)
  <2>1. pc[i] \in {"evict", "unloading"}
    BY <1>5 DEF Evict, Unloaded
  <2>2. CASE Fail(i)
    BY <2>1, <2>2 DEF Fail, TypeInv, FlowType
  <2>3. CASE dec' = dec /\ \E p \in Evicting : pc' = [pc EXCEPT ![i] = p]
    BY <2>1, <2>3 DEF TypeInv, FlowType
  <2> QED BY <1>5, <2>2, <2>3 DEF Evict, Unloaded
<1>6. ASSUME NEW i \in Instances, Reserve(i) PROVE CourseStep(v)
  BY <1>2, <1>6 DEF Reserve
<1>7. ASSUME NEW i \in Instances, Loaded(i) PROVE CourseStep(v)
  BY <1>2, <1>7 DEF Loaded, Fail
<1>8. ASSUME NEW i \in Instances, Launch(i) PROVE CourseStep(v)
  BY <1>8 DEF Launch, TypeInv, FlowType
<1>9. ASSUME NEW i \in Instances,
             \/ LaunchFails(i) \/ LaunchLoads(i) \/ LaunchReady(i) \/ Drained(i)
             \/ DrainRequest(i) \/ Sync(i) \/ Unknown(i)
      PROVE  CourseStep(v)
  <2>1. UNCHANGED <<dec, pc>>
    BY <1>9 DEF LaunchFails, LaunchLoads, LaunchReady, Drained, DrainRequest, Sync, Unknown
  <2> QED BY <1>1, <2>1
<1>10. ASSUME NEW i \in Instances,
              \/ Drain(i) \/ IdleFound(i) \/ Progress(i) \/ Die(i)
              \/ AcquireLease(i) \/ EndLease(i) \/ SetPin(i) \/ ReleaseTerminal(i)
       PROVE  CourseStep(v)
  <2>1. UNCHANGED <<dec, pc>>
    BY <1>10 DEF Drain, IdleFound, Progress, Die, AcquireLease, EndLease, SetPin,
                 ReleaseTerminal, flow
  <2> QED BY <1>1, <2>1
<1>11. CASE \/ LoadCall \/ LoadApply \/ UnloadCall \/ UnloadApply \/ Succeed
            \/ LoadDies \/ Expire \/ IdleReleased \/ Sample \/ UNCHANGED vars
  <2>1. UNCHANGED <<dec, pc>>
    BY <1>11 DEF LoadCall, LoadApply, UnloadCall, UnloadApply, Succeed, LoadDies,
                 Expire, IdleReleased, Sample, vars, flow
  <2> QED BY <1>1, <2>1
<1> HIDE DEF CourseStep, Evicting
<1>12. Crash => CourseStep(v)
  BY DEF CourseStep
<1> QED BY <1>3, <1>4, <1>5, <1>6, <1>7, <1>8, <1>9, <1>10, <1>11, <1>12, Zenon
        DEF Next, Decision, Instance, Executor, Reconciler, Environment

(* To the engine row, *)
EngineStep(v) ==
    \/ engine'[v] = engine[v]
    \/ Reserve(v) \/ Sync(v) \/ Unknown(v)
    \/ (LoadApply \/ UnloadApply) /\ v = Target

(* which no other step writes, *)
LEMMA EngineEffect == ASSUME TypeInv, [Next]_vars, NEW v \in Instances PROVE EngineStep(v)
<1>1. ASSUME engine' = engine PROVE EngineStep(v)
  BY <1>1 DEF EngineStep
<1>2. ASSUME NEW i \in Instances, Reserve(i) \/ Sync(i) \/ Unknown(i) PROVE EngineStep(v)
  BY <1>2 DEF Reserve, Sync, Unknown, TypeInv, NodeType, EngineStep
<1>3. CASE LoadApply \/ UnloadApply
  BY <1>3 DEF LoadApply, UnloadApply, TypeInv, NodeType, EngineStep
<1>4. ASSUME NEW i \in Instances,
             \/ Start(i) \/ Plan(i) \/ Replan(i) \/ Evict(i) \/ Unloaded(i) \/ Loaded(i)
             \/ Launch(i) \/ LaunchFails(i) \/ LaunchLoads(i) \/ LaunchReady(i)
             \/ Drain(i) \/ Drained(i) \/ ReleaseTerminal(i)
      PROVE  EngineStep(v)
  <2>1. engine' = engine
    BY <1>4 DEF Start, Plan, Replan, Evict, Unloaded, Loaded, Launch, LaunchFails,
                LaunchLoads, LaunchReady, Drain, Drained, ReleaseTerminal, Unchanged
  <2> QED BY <1>1, <2>1
<1>5. ASSUME NEW i \in Instances,
             \/ IdleFound(i) \/ Progress(i) \/ DrainRequest(i) \/ AcquireLease(i)
             \/ EndLease(i) \/ SetPin(i) \/ Die(i)
      PROVE  EngineStep(v)
  <2>1. engine' = engine
    BY <1>5 DEF IdleFound, Progress, DrainRequest, AcquireLease, EndLease, SetPin, Die,
                Unchanged
  <2> QED BY <1>1, <2>1
<1>6. CASE \/ LoadCall \/ UnloadCall \/ Succeed \/ LoadDies \/ Expire
           \/ IdleReleased \/ Sample \/ Crash \/ UNCHANGED vars
  <2>1. engine' = engine
    BY <1>6 DEF LoadCall, UnloadCall, Succeed, LoadDies, Expire, IdleReleased, Sample,
                Crash, vars
  <2> QED BY <1>1, <2>1
<1> QED BY <1>2, <1>3, <1>4, <1>5, <1>6, Zenon
        DEF Next, Decision, Instance, Executor, Reconciler, Environment

(* and to the engine, *)
ProcStep(v) ==
    \/ proc'[v] = proc[v]
    \/ (LoadCall \/ UnloadCall) /\ v = Target
    \/ Progress(v) \/ Die(v)

(* which no other step moves. *)
LEMMA ProcEffect == ASSUME TypeInv, [Next]_vars, NEW v \in Instances PROVE ProcStep(v)
<1>1. ASSUME proc' = proc PROVE ProcStep(v)
  BY <1>1 DEF ProcStep
<1>2. ASSUME NEW i \in Instances, Progress(i) \/ Die(i) PROVE ProcStep(v)
  BY <1>2 DEF Progress, Die, TypeInv, NodeType, ProcStep
<1>3. CASE LoadCall \/ UnloadCall
  BY <1>3 DEF LoadCall, UnloadCall, TypeInv, NodeType, ProcStep
<1>4. ASSUME NEW i \in Instances,
             \/ Start(i) \/ Plan(i) \/ Replan(i) \/ Evict(i) \/ Unloaded(i)
             \/ Reserve(i) \/ Loaded(i) \/ Launch(i) \/ LaunchFails(i)
             \/ LaunchLoads(i) \/ LaunchReady(i) \/ Drain(i) \/ Drained(i)
      PROVE  ProcStep(v)
  <2>1. proc' = proc
    BY <1>4 DEF Start, Plan, Replan, Evict, Unloaded, Reserve, Loaded, Launch,
                LaunchFails, LaunchLoads, LaunchReady, Drain, Drained, Unchanged
  <2> QED BY <1>1, <2>1
<1>5. ASSUME NEW i \in Instances,
             \/ IdleFound(i) \/ DrainRequest(i) \/ AcquireLease(i) \/ EndLease(i)
             \/ SetPin(i) \/ Sync(i) \/ ReleaseTerminal(i) \/ Unknown(i)
      PROVE  ProcStep(v)
  <2>1. proc' = proc
    BY <1>5 DEF IdleFound, DrainRequest, AcquireLease, EndLease, SetPin, Sync,
                ReleaseTerminal, Unknown, Unchanged
  <2> QED BY <1>1, <2>1
<1>6. CASE \/ LoadApply \/ UnloadApply \/ Succeed \/ LoadDies \/ Expire
           \/ IdleReleased \/ Sample \/ Crash \/ UNCHANGED vars
  <2>1. proc' = proc
    BY <1>6 DEF LoadApply, UnloadApply, Succeed, LoadDies, Expire, IdleReleased, Sample,
                Crash, vars
  <2> QED BY <1>1, <2>1
<1> QED BY <1>2, <1>3, <1>4, <1>5, <1>6, Zenon
        DEF Next, Decision, Instance, Executor, Reconciler, Environment

(* The load of what holds memory, or is named to give it up, was applied:  *)
(* the engine was seen ready.                                              *)
Applied(v) ==
    \/ cmd[Load(v)] = "succeeded"
    \/ call = "applied" /\ queue # <<>> /\ Current = Load(v)

AppliedInv ==
    /\ \A v \in Instances :
          res[v] \in {"held", "releasing"} \/ v \in snapshot.held \/ ttl = v => Applied(v)
    /\ \A i, v \in Instances : Has(victims[i], v) => Applied(v)
    /\ \A e \in Unloads : cmd[e] # None => Applied(e[3])

Live(j) == inst[j] \notin Terminal /\ res[j] \in Counted
LiveSet == {j \in Instances : Live(j)}

(* The course of a decision and its load: a load is under way or done      *)
(* exactly while its decision waits for it or is ready,                    *)
LoadAt(j) ==
    /\ cmd[Load(j)] = "queued" => pc[j] = "loading"
    /\ cmd[Load(j)] = "succeeded" => pc[j] \in {"loading", "done"} /\ dec[j] \in {"loading", "ready"}
    /\ dec[j] = "loading" <=> pc[j] = "loading"

(* the reservation is pending until the load is applied and counted as     *)
(* long as the engine row is up,                                           *)
CountAt(j) ==
    inst[j] \notin Terminal =>
        /\ pc[j] \in Evicting => res[j] = "pending"
        /\ cmd[Load(j)] = "queued" /\ ~Applied(j) => res[j] = "pending"
        /\ Applied(j) /\ engine[j] \in Running => res[j] \in {"held", "releasing"}

(* and the engine runs only for a load, with its row.                      *)
EngineAt(j) ==
    /\ Applied(j) => engine[j] # None
    /\ inst[j] \notin Terminal /\ Applied(j) /\ proc[j] \in Running => engine[j] \in Running
    /\ cmd[Load(j)] = None => proc[j] = None

(* The idle pass looks at residents only. *)
IdleInv ==
    /\ \A j \in Resident : inst[j] \in Routed \cup Terminal
    /\ ttl # None => ttl \in Resident

(* An unload that was carried out has freed its memory for good. *)
Freed(v) == engine[v] \notin Running /\ ~Live(v)
FreedInv == \A e \in Unloads : Carried(e) => Freed(e[3])

CourseInv ==
    /\ BaseInv /\ AppliedInv /\ IdleInv /\ FreedInv
    /\ \A j \in Instances : LoadAt(j) /\ CountAt(j) /\ EngineAt(j)

(* A step that leaves the count of restarts at zero is no restart. *)
LEMMA NoCrash == ASSUME TypeInv, crashes' = 0 PROVE ~Crash
BY DEF Crash, TypeInv, BoundType

(* A load is applied by the executor only, *)
LEMMA NewlyApplied ==
    ASSUME TypeInv, [Next]_vars, NEW v \in Instances, Applied(v)', ~Applied(v)
    PROVE  LoadApply /\ v = Target /\ Current = Load(v)
<1>1. Load(v)' = Load(v) /\ Load(v)[3] = v
  BY CommandFacts DEF Load
<1>2. cmd'[Load(v)] # "succeeded"
  BY LoadEffect DEF Applied, None
<1>3. call' = "applied" /\ queue' # <<>> /\ Current' = Load(v)
  BY <1>1, <1>2 DEF Applied
<1>4. call # "applied"
  <2> SUFFICES ASSUME call = "applied" PROVE FALSE
    OBVIOUS
  <2>1. queue # <<>>
    BY DEF TypeInv, WorkType
  <2> QED BY <1>3, <2>1, HeadEffect DEF Applied
<1>5. LoadApply \/ UnloadApply
  BY <1>3, <1>4, CallEffect
<1>6. queue # <<>> /\ UNCHANGED <<cmd, queue>>
  BY <1>5 DEF LoadApply, UnloadApply, IsCurrent
<1>7. Current = Load(v)
  BY <1>3, <1>6 DEF Current
<1> QED BY <1>1, <1>5, <1>7, CommandFacts DEF UnloadApply, IsCurrent, Target

(* stays so, *)
LEMMA StaysApplied ==
    ASSUME TypeInv, [Next]_vars, ~Crash, NEW v \in Instances, Applied(v)
    PROVE  Applied(v)'
<1>1. Load(v)' = Load(v)
  BY DEF Load
<1>2. CASE cmd[Load(v)] = "succeeded"
  BY <1>1, <1>2, LoadEffect DEF Applied, None
<1>3. CASE call = "applied" /\ queue # <<>> /\ Current = Load(v)
  BY <1>1, <1>3, AppliedStays DEF Applied
<1> QED BY <1>2, <1>3 DEF Applied

(* and belongs to a decision that waits for it or is ready; one that is    *)
(* called is not applied.                                                  *)
LEMMA AppliedFacts ==
    ASSUME TypeInv, NEW v \in Instances
    PROVE  /\ Applied(v) /\ LoadAt(v) => pc[v] \in {"loading", "done"}
           /\ Applied(v) => cmd[Load(v)] \in {"queued", "succeeded"}
           /\ queue # <<>> /\ Current = Load(v) /\ call # "applied" => ~Applied(v)
<1>1. queue # <<>> /\ Current = Load(v) => cmd[Load(v)] = "queued"
  BY CurrentFacts
<1> QED BY <1>1 DEF Applied, LoadAt

(* It holds when the model starts. *)
LEMMA CourseInit == Init => CourseInv
<1> SUFFICES ASSUME Init PROVE CourseInv
  OBVIOUS
<1>1. \A v \in Instances : cmd[Load(v)] = IF v \in Resident THEN "succeeded" ELSE None
  BY CommandFacts DEF Init, Commands, Loads, Load
<1>2. \A e \in Unloads : cmd[e] = None
  BY CommandFacts DEF Init, Commands, Loads, Load
<1>3. AppliedInv
  <2>1. \A v \in Resident : Applied(v)
    BY <1>1, PlacementAssumption DEF Applied
  <2>2. \A i, v \in Instances : ~Has(victims[i], v)
    BY DEF Init, Has
  <2>3. \A v \in Instances :
            res[v] \in {"held", "releasing"} \/ v \in snapshot.held \/ ttl = v => v \in Resident
    BY NamesAssumption DEF Init, None
  <2> QED BY <1>2, <2>1, <2>2, <2>3 DEF AppliedInv
<1>4. IdleInv
  BY PlacementAssumption DEF Init, IdleInv, Routed
<1>5. FreedInv
  BY <1>2 DEF Init, FreedInv, Carried, None
<1>6. \A j \in Instances : LoadAt(j) /\ CountAt(j) /\ EngineAt(j)
  <2> SUFFICES ASSUME NEW j \in Instances PROVE LoadAt(j) /\ CountAt(j) /\ EngineAt(j)
    OBVIOUS
  <2>1. CASE j \in Resident
    <3>1. /\ cmd[Load(j)] = "succeeded" /\ pc[j] = "done" /\ dec[j] = "ready"
          /\ res[j] = "held" /\ engine[j] = "ready"
      BY <1>1, <2>1 DEF Init
    <3> QED BY <3>1 DEF LoadAt, CountAt, EngineAt, Evicting, Running, None
  <2>2. CASE j \notin Resident
    <3>1. /\ cmd[Load(j)] = None /\ pc[j] = "idle" /\ dec[j] = None
          /\ engine[j] = None /\ proc[j] = None /\ call = "idle"
      BY <1>1, <2>2 DEF Init
    <3> QED BY <3>1 DEF LoadAt, CountAt, EngineAt, Applied, Evicting, Running, None
  <2> QED BY <2>1, <2>2
<1> QED BY <1>3, <1>4, <1>5, <1>6, BaseInit DEF CourseInv

(* A load goes with the course of its decision. *)
LEMMA LoadAtKeeps ==
    ASSUME CourseInv, [Next]_vars, ~Crash, NEW j \in Instances PROVE LoadAt(j)'
<1> USE DEF CourseInv, BaseInv
<1>1. LoadAt(j) /\ CourseStep(j) /\ ~Crash /\ Load(j)' = Load(j)
  BY CourseEffect DEF Load
<1>2. dec[j] = "ready" => pc[j] = "done"
  BY DEF LedgerInv, Settled
<1>3. Reserve(j) => pc[j] = "reserve" /\ pc'[j] = "loading" /\ dec'[j] = "loading"
  BY DEF Reserve, TypeInv, FlowType
<1>4. Loaded(j) =>
          /\ pc[j] = "loading"
          /\ \/ cmd[Load(j)] = "succeeded" /\ pc'[j] = "done" /\ dec'[j] = "ready"
             \/ cmd[Load(j)] = "failed" /\ pc'[j] \in {"start", "done"} /\ dec'[j] = "failed"
          /\ cmd' = cmd
  BY DEF Loaded, Fail, Load, Unchanged, work, TypeInv, FlowType
<1>5. cmd'[Load(j)] = "queued" => pc'[j] = "loading"
  <2>1. CASE cmd[Load(j)] = "queued"
    BY <1>1, <1>3, <1>4, <2>1 DEF LoadAt, CourseStep
  <2>2. CASE cmd[Load(j)] # "queued"
    BY <1>3, <2>2, LoadEffect
  <2> QED BY <2>1, <2>2
<1>6. cmd'[Load(j)] = "succeeded" =>
          pc'[j] \in {"loading", "done"} /\ dec'[j] \in {"loading", "ready"}
  <2>1. CASE cmd[Load(j)] = "succeeded"
    BY <1>1, <1>3, <1>4, <2>1 DEF LoadAt, CourseStep
  <2>2. CASE cmd[Load(j)] # "succeeded" /\ cmd'[Load(j)] = "succeeded"
    <3>1. cmd[Load(j)] = "queued" /\ UNCHANGED flow
      BY <2>2, LoadEffect DEF None
    <3> QED BY <1>1, <3>1 DEF LoadAt, flow
  <2> QED BY <2>1, <2>2
<1>7. dec'[j] = "loading" <=> pc'[j] = "loading"
  BY <1>1, <1>2, <1>3, <1>4 DEF LoadAt, CourseStep
<1> QED BY <1>1, <1>5, <1>6, <1>7 DEF LoadAt

(* Nothing else comes to hold memory or to be named. *)
LEMMA AppliedKeeps == ASSUME CourseInv, [Next]_vars, ~Crash PROVE AppliedInv'
<1> USE DEF CourseInv, BaseInv
<1>1. \A v \in Instances : Applied(v) => Applied(v)'
  BY StaysApplied
<1>2. ASSUME NEW v \in Instances, res'[v] \in {"held", "releasing"} PROVE Applied(v)'
  <2>1. CASE res'[v] = res[v]
    BY <1>1, <1>2, <2>1 DEF AppliedInv
  <2>2. CASE LoadApply /\ v = Target
    <3>1. queue # <<>> /\ Current[1] = "load" /\ call' = "applied" /\ UNCHANGED <<cmd, queue>>
      BY <2>2 DEF LoadApply, IsCurrent
    <3>2. Current = Load(v)
      BY <2>2, <3>1, CurrentFacts
    <3> QED BY <3>1, <3>2 DEF Applied, Current, Load
  <2>3. CASE \E i \in Instances : pc[i] = "evict" /\ v = Head(victims[i])
    <3>1. PICK i \in Instances : pc[i] = "evict" /\ v = Head(victims[i])
      BY <2>3
    <3>2. Has(victims[i], v)
      BY <3>1, DropHead DEF TypeInv, FlowType
    <3> QED BY <1>1, <3>2 DEF AppliedInv
  <2>4. CASE inst[v] = "draining" \/ ttl = v
    BY <1>1, <2>4 DEF AppliedInv, LedgerInv, Settled
  <2> QED BY <1>2, <2>1, <2>2, <2>3, <2>4, ResEffect DEF ResStep
<1>3. NameStep
  BY NameEffect
<1>4. \A v \in Instances : v \in snapshot'.held \/ ttl' = v => Applied(v)'
  BY <1>1, <1>3, NamesAssumption DEF NameStep, AppliedInv
<1>5. \A i, v \in Instances : Has(victims'[i], v) => Applied(v)'
  BY <1>1, <1>3 DEF NameStep, AppliedInv
<1>6. ASSUME NEW e \in Unloads, cmd'[e] # None PROVE Applied(e[3])'
  <2>1. e \in Commands /\ e[3] \in Instances /\ e # Load(e[3])
    BY CommandFacts
  <2>2. cmd[e] # None \/ res'[e[3]] = "releasing"
    BY <1>6, <2>1, WorkEffect DEF WorkStep, Orders, Ends, None
  <2> QED BY <1>1, <1>2, <2>1, <2>2 DEF AppliedInv
<1>7. \A i, v \in Instances : Has(victims[i], v)' <=> Has(victims'[i], v)
  BY DEF Has
<1> QED BY <1>2, <1>4, <1>5, <1>6, <1>7 DEF AppliedInv

(* What is evicted, drained or found idle was applied, and so was what an  *)
(* unload is confirmed for.                                                *)
LEMMA ReleasedApplied ==
    ASSUME CourseInv, NEW v \in Instances
    PROVE  /\ \A i \in Instances : pc[i] = "evict" /\ v = Head(victims[i]) => Applied(v)
           /\ inst[v] = "draining" \/ ttl = v => Applied(v)
           /\ ttl = v /\ inst[v] \notin Terminal => res[v] \in {"held", "releasing"}
           /\ inst[v] = "draining" => res[v] \in {"held", "releasing"}
           /\ UnloadApply /\ v = Target => Applied(v)
           /\ LoadApply /\ v = Target => ~Applied(v) /\ cmd[Load(v)] = "queued"
<1> USE DEF CourseInv, BaseInv
<1>1. ASSUME NEW i \in Instances, pc[i] = "evict", v = Head(victims[i]) PROVE Applied(v)
  <2>1. Has(victims[i], v)
    BY <1>1, DropHead DEF TypeInv, FlowType
  <2> QED BY <2>1 DEF AppliedInv
<1>2. inst[v] = "draining" => Applied(v) /\ res[v] \in {"held", "releasing"}
  BY DEF AppliedInv, LedgerInv, Settled
<1>3. ttl = v => Applied(v) /\ (inst[v] \notin Terminal => res[v] \in {"held", "releasing"})
  BY NamesAssumption DEF AppliedInv, IdleInv, LedgerInv, Settled, Routed
<1>4. ASSUME UnloadApply, v = Target PROVE Applied(v)
  <2>1. queue # <<>> /\ Current[1] = "unload"
    BY <1>4 DEF UnloadApply, IsCurrent
  <2>2. Current \in Unloads /\ cmd[Current] = "queued"
    BY <2>1, CurrentFacts
  <2> QED BY <1>4, <2>2 DEF AppliedInv, Target, None
<1>5. ASSUME LoadApply, v = Target PROVE ~Applied(v) /\ cmd[Load(v)] = "queued"
  <2>1. queue # <<>> /\ Current[1] = "load" /\ call = "called"
    BY <1>5 DEF LoadApply, IsCurrent
  <2>2. Current = Load(v) /\ cmd[Load(v)] = "queued"
    BY <1>5, <2>1, CurrentFacts
  <2> QED BY <2>1, <2>2, AppliedFacts
<1> QED BY <1>1, <1>2, <1>3, <1>4, <1>5

(* The reservation goes with the load and the engine row. *)
LEMMA CountAtKeeps ==
    ASSUME CourseInv, [Next]_vars, ~Crash, NEW j \in Instances PROVE CountAt(j)'
<1> USE DEF CourseInv, BaseInv
<1> SUFFICES ASSUME inst'[j] \notin Terminal
             PROVE  /\ pc'[j] \in Evicting => res'[j] = "pending"
                    /\ cmd'[Load(j)] = "queued" /\ ~Applied(j)' => res'[j] = "pending"
                    /\ Applied(j)' /\ engine'[j] \in Running => res'[j] \in {"held", "releasing"}
  BY DEF CountAt, Evicting, Running, Load, Terminal
<1>1. /\ CourseStep(j) /\ ResStep(j) /\ EngineStep(j) /\ ~Crash /\ inst[j] \notin Terminal
      /\ Applied(j) => Applied(j)'
  BY CourseEffect, ResEffect, EngineEffect, FlowEffect, StaysApplied DEF InstStep
<1>2. LoadAt(j) /\ CountAt(j)
  OBVIOUS
<1>3. Applied(j) => pc[j] \in {"loading", "done"}
  BY <1>2, AppliedFacts
<1>4. cmd'[Load(j)] = "queued" => pc'[j] = "loading"
  BY LoadAtKeeps DEF LoadAt, Load
<1>5. LoadApply /\ j = Target => Applied(j)' /\ res'[j] = "held" /\ pc'[j] = pc[j]
  <2> SUFFICES ASSUME LoadApply, j = Target PROVE Applied(j)' /\ res'[j] = "held" /\ pc'[j] = pc[j]
    OBVIOUS
  <2>1. res'[j] = "held" /\ pc' = pc
    BY DEF LoadApply, TypeInv, LedgerType, flow
  <2> QED BY <2>1, AppliedKeeps DEF AppliedInv
<1>6. UnloadApply /\ j = Target => engine'[j] = "stopped"
  BY DEF UnloadApply, TypeInv, NodeType
<1>7. Reserve(j) => pc[j] = "reserve" /\ pc'[j] = "loading" /\ res'[j] = "pending"
  BY DEF Reserve, MakePending, TypeInv, FlowType, LedgerType
<1>8. Loaded(j) => pc'[j] \in {"start", "done"}
  BY DEF Loaded, Fail, TypeInv, FlowType
<1>9. ASSUME pc'[j] \in Evicting PROVE res'[j] = "pending"
  <2>1. pc[j] \in Evicting \/ res'[j] = "pending"
    BY <1>1, <1>7, <1>8, <1>9 DEF CourseStep, Evicting
  <2>2. CASE pc[j] \in Evicting
    <3>1. res[j] = "pending" /\ ~Applied(j) /\ pc'[j] \notin {"start", "done"}
      BY <1>1, <1>2, <1>3, <1>9, <2>2 DEF CountAt, Evicting
    <3>2. ~(LoadApply /\ j = Target) /\ ~(UnloadApply /\ j = Target)
      BY <1>2, <2>2, <3>1, ReleasedApplied DEF LoadAt, Evicting
    <3> QED BY <1>1, <3>1, <3>2, ReleasedApplied DEF ResStep
  <2> QED BY <2>1, <2>2
<1>10. ASSUME cmd'[Load(j)] = "queued", ~Applied(j)' PROVE res'[j] = "pending"
  <2>1. CASE cmd[Load(j)] = "queued"
    <3>1. ~Applied(j) /\ res[j] = "pending" /\ pc'[j] = "loading"
      BY <1>1, <1>2, <1>4, <1>10, <2>1 DEF CountAt
    <3>2. ~(LoadApply /\ j = Target) /\ ~(UnloadApply /\ j = Target)
      BY <1>5, <1>10, <3>1, ReleasedApplied
    <3> QED BY <1>1, <3>1, <3>2, ReleasedApplied DEF ResStep
  <2>2. CASE cmd[Load(j)] # "queued"
    BY <1>7, <1>10, <2>2, LoadEffect
  <2> QED BY <2>1, <2>2
<1>11. ASSUME Applied(j)', engine'[j] \in Running PROVE res'[j] \in {"held", "releasing"}
  <2>1. CASE ~Applied(j)
    BY <1>5, <1>11, <2>1, NewlyApplied
  <2>2. CASE Applied(j)
    <3>1. engine[j] \in Running
      <4>1. ~Reserve(j) /\ ~(LoadApply /\ j = Target)
        BY <1>3, <1>7, <2>2, ReleasedApplied
      <4>2. Sync(j) => engine[j] \in Running
        BY DEF Sync
      <4>3. Unknown(j) => engine[j] \in Running
        BY DEF Unknown, Running
      <4>4. ~(UnloadApply /\ j = Target)
        BY <1>6, <1>11 DEF Running
      <4> QED BY <1>1, <1>11, <4>1, <4>2, <4>3, <4>4 DEF EngineStep
    <3>2. res[j] \in {"held", "releasing"}
      BY <1>1, <1>2, <2>2, <3>1 DEF CountAt
    <3>3. ~(UnloadApply /\ j = Target)
      BY <1>6, <1>11 DEF Running
    <3> QED BY <1>1, <1>3, <2>2, <3>2, <3>3 DEF ResStep
  <2> QED BY <2>1, <2>2
<1> QED BY <1>9, <1>10, <1>11

(* The engine goes with its row. *)
LEMMA EngineAtKeeps ==
    ASSUME CourseInv, [Next]_vars, ~Crash, NEW j \in Instances PROVE EngineAt(j)'
<1> USE DEF CourseInv, BaseInv
<1>1. /\ EngineStep(j) /\ ProcStep(j) /\ Load(j)' = Load(j) /\ LoadAt(j) /\ EngineAt(j)
      /\ inst[j] \in Terminal => inst'[j] \in Terminal
  BY EngineEffect, ProcEffect, FlowEffect DEF InstStep, Load
<1>2. LoadApply /\ j = Target => engine'[j] = "ready"
  BY DEF LoadApply, TypeInv, NodeType
<1>3. UnloadApply /\ j = Target => engine'[j] = "stopped" /\ proc'[j] = "stopped"
  BY DEF UnloadApply, TypeInv, NodeType
<1>4. Reserve(j) => pc[j] = "reserve"
  BY DEF Reserve
<1>5. Sync(j) => engine'[j] = proc[j] /\ proc'[j] = proc[j] /\ proc[j] # None
  BY DEF Sync, TypeInv, NodeType
<1>6. Unknown(j) => proc'[j] = None /\ engine'[j] = "failed"
  BY DEF Unknown, TypeInv, NodeType
<1>7. LoadCall /\ j = Target => ~Applied(j) /\ cmd[Load(j)] = "queued"
  <2> SUFFICES ASSUME LoadCall, j = Target PROVE ~Applied(j) /\ cmd[Load(j)] = "queued"
    OBVIOUS
  <2>1. queue # <<>> /\ Current[1] = "load" /\ call = "idle"
    BY DEF LoadCall, IsCurrent
  <2>2. Current = Load(j) /\ cmd[Load(j)] = "queued"
    BY <2>1, CurrentFacts
  <2> QED BY <2>1, <2>2, AppliedFacts
<1>8. UnloadCall /\ j = Target => Applied(j) /\ (proc'[j] \in Running => proc[j] \in Running)
  <2> SUFFICES ASSUME UnloadCall, j = Target
               PROVE  Applied(j) /\ (proc'[j] \in Running => proc[j] \in Running)
    OBVIOUS
  <2>1. queue # <<>> /\ Current[1] = "unload"
    BY DEF UnloadCall, IsCurrent
  <2>2. Current \in Unloads /\ cmd[Current] = "queued"
    BY <2>1, CurrentFacts
  <2>3. Applied(j)
    BY <2>2 DEF AppliedInv, Target, None
  <2>4. proc'[j] \in Running => proc[j] \in Running
    BY DEF UnloadCall, TypeInv, NodeType, Running
  <2> QED BY <2>3, <2>4
<1>9. Progress(j) \/ Die(j) => proc[j] \in Running
  BY DEF Progress, Die, Running
<1>10. Applied(j) => pc[j] \in {"loading", "done"} /\ cmd[Load(j)] \in {"queued", "succeeded"}
  BY <1>1, AppliedFacts
<1>11. ASSUME Applied(j)' PROVE engine'[j] # None
  <2>1. CASE ~Applied(j)
    BY <1>2, <1>11, <2>1, NewlyApplied DEF None
  <2>2. CASE Applied(j)
    BY <1>1, <1>2, <1>3, <1>4, <1>5, <1>6, <1>10, <2>2 DEF EngineStep, EngineAt, None
  <2> QED BY <2>1, <2>2
<1>12. ASSUME inst'[j] \notin Terminal, Applied(j)', proc'[j] \in Running
       PROVE  engine'[j] \in Running
  <2>1. CASE ~Applied(j)
    BY <1>2, <1>12, <2>1, NewlyApplied DEF Running
  <2>2. CASE Applied(j)
    <3>1. proc[j] \in Running
      BY <1>1, <1>7, <1>8, <1>9, <1>12, <2>2 DEF ProcStep
    <3>2. engine[j] \in Running
      BY <1>1, <1>12, <2>2, <3>1 DEF EngineAt
    <3>3. ~Reserve(j) /\ ~Unknown(j) /\ ~(UnloadApply /\ j = Target)
      BY <1>3, <1>4, <1>6, <1>10, <1>12, <2>2 DEF Running, None
    <3> QED BY <1>1, <1>2, <1>5, <3>1, <3>2, <3>3 DEF EngineStep, Running
  <2> QED BY <2>1, <2>2
<1>13. ASSUME cmd'[Load(j)] = None PROVE proc'[j] = None
  <2>1. cmd[Load(j)] = None
    BY <1>13, LoadEffect DEF None
  <2>2. proc[j] = None
    BY <1>1, <2>1 DEF EngineAt
  <2> QED BY <1>1, <1>7, <1>8, <1>9, <1>10, <2>1, <2>2 DEF ProcStep, Running, None
<1> QED BY <1>1, <1>11, <1>12, <1>13 DEF EngineAt, Running, Terminal, None

(* The idle pass finds residents, which are routed to until they end. *)
LEMMA IdleKeeps ==
    ASSUME CourseInv, [Next]_vars, Expiring \subseteq Resident PROVE IdleInv'
<1> USE DEF CourseInv, BaseInv
<1>1. \A j \in Resident : inst'[j] \in Routed \cup Terminal
  BY FlowEffect, PlacementAssumption DEF InstStep, IdleInv
<1>2. ttl' # None => ttl' \in Resident
  BY NameEffect DEF NameStep, IdleInv
<1> QED BY <1>1, <1>2 DEF IdleInv, Routed, Terminal

(* What has freed its memory takes none again. *)
LEMMA FreedStays ==
    ASSUME CourseInv, [Next]_vars, NEW v \in Instances, Applied(v), Freed(v)
    PROVE  Freed(v)'
<1> USE DEF CourseInv, BaseInv
<1>1. ResStep(v) /\ EngineStep(v) /\ (inst[v] \in Terminal => inst'[v] \in Terminal)
  BY ResEffect, EngineEffect, FlowEffect DEF InstStep
<1>2. pc[v] \in {"loading", "done"}
  BY AppliedFacts
<1>3. ~Reserve(v) /\ ~(LoadApply /\ v = Target)
  BY <1>2, ReleasedApplied DEF Reserve
<1>4. engine'[v] \notin Running
  <2>1. UnloadApply /\ v = Target => engine'[v] = "stopped"
    BY DEF UnloadApply, TypeInv, NodeType
  <2>2. ~Sync(v) /\ ~Unknown(v)
    BY DEF Sync, Unknown, Freed, Running
  <2> QED BY <1>1, <1>3, <2>1, <2>2 DEF EngineStep, Freed, Running
<1>5. ASSUME inst'[v] \notin Terminal, res'[v] \in Counted PROVE FALSE
  <2>1. inst[v] \notin Terminal /\ res[v] \notin Counted
    BY <1>1, <1>5 DEF Freed, Live
  <2> QED BY <1>1, <1>2, <1>3, <1>5, <2>1, ReleasedApplied DEF ResStep, Freed, Counted
<1> QED BY <1>4, <1>5 DEF Freed, Live, Running, Counted, Terminal

(* An unload is carried out when the engine is gone. *)
LEMMA FreedKeeps == ASSUME CourseInv, [Next]_vars PROVE FreedInv'
<1> USE DEF CourseInv, BaseInv
<1>1. ASSUME NEW e \in Unloads, Carried(e)', ~Carried(e) PROVE Freed(e[3])'
  <2>1. e[3] \in Instances
    BY CommandFacts
  <2>2. UnloadApply /\ Target = e[3]
    BY <1>1, CarriedEffect
  <2>3. res'[e[3]] = "released" /\ engine'[e[3]] = "stopped"
    BY <2>1, <2>2 DEF UnloadApply, TypeInv, LedgerType, NodeType
  <2> QED BY <2>3 DEF Freed, Live, Running, Counted
<1>2. ASSUME NEW e \in Unloads, Carried(e) PROVE Freed(e[3])'
  <2>1. e[3] \in Instances /\ e \in Commands
    BY CommandFacts
  <2>2. cmd[e] # None
    BY <1>2, CurrentFacts DEF Carried, None
  <2>3. Applied(e[3])
    BY <2>2 DEF AppliedInv
  <2> QED BY <1>2, <2>1, <2>3, FreedStays DEF FreedInv
<1>3. \A e \in Unloads : Carried(e)' => Freed(e[3])'
  BY <1>1, <1>2
<1> QED BY <1>3 DEF FreedInv, Carried, Freed

(* The invariant is kept by every step but a restart. *)
LEMMA CourseKeeps ==
    ASSUME CourseInv, [Next]_vars, ~Crash, Expiring \subseteq Resident
    PROVE  CourseInv'
<1>1. BaseInv'
  BY BaseStep DEF CourseInv
<1>2. \A j \in Instances : LoadAt(j)' /\ CountAt(j)' /\ EngineAt(j)'
  BY LoadAtKeeps, CountAtKeeps, EngineAtKeeps
<1> QED BY <1>1, <1>2, AppliedKeeps, IdleKeeps, FreedKeeps DEF CourseInv

-----------------------------------------------------------------------------
(* What the ledger and the node have to bear *)

LiveInv == CourseInv /\ Fit(LiveSet) /\ Seen(LiveSet)

(* Only an admission makes an instance live. *)
LEMMA LiveEffect ==
    ASSUME CourseInv, [Next]_vars, NEW j \in Instances, Live(j)', ~Live(j)
    PROVE  (Plan(j) \/ Replan(j)) /\ pc'[j] \in Active
<1> USE DEF CourseInv, BaseInv
<1>1. ResStep(j) /\ FlowStep(j) /\ inst[j] \notin Terminal
  BY ResEffect, FlowEffect DEF InstStep, Live
<1>2. res[j] \notin Counted /\ res'[j] \in Counted
  BY <1>1 DEF Live
<1>3. pc[j] # "reserve"
  BY <1>1, <1>2 DEF CountAt, Evicting, Counted
<1>4. ~(LoadApply /\ j = Target)
  BY <1>1, <1>2, ReleasedApplied DEF CountAt, Counted
<1>5. ASSUME NEW i \in Instances, pc[i] = "evict", j = Head(victims[i]), engine[j] \in Running
      PROVE  FALSE
  BY <1>1, <1>2, <1>5, ReleasedApplied DEF CountAt, Counted
<1>6. inst[j] # "draining" /\ ttl # j
  BY <1>1, <1>2, ReleasedApplied DEF Counted
<1>7. pc[j] \in {"plan", "draining"} /\ pc'[j] \in Active
  BY <1>1, <1>2, <1>3, <1>4, <1>5, <1>6 DEF ResStep, Counted
<1> QED BY <1>1, <1>7 DEF FlowStep, Active

(* A failure gives its own reservation up, an unload its victim's. *)
LEMMA LiveForgets ==
    ASSUME CourseInv, [Next]_vars, ~Crash,
           NEW j \in Instances, Live(j)', Live(j),
           NEW v \in Instances, Live(v)', Has(victims[j], v)
    PROVE  Has(victims'[j], v)
<1> USE DEF CourseInv, BaseInv
<1> SUFFICES ASSUME ~Has(victims'[j], v) PROVE FALSE
  OBVIOUS
<1>1. pc[j] \in {"evict", "unloading"}
  BY DEF TypeInv, FlowType, Has
<1>2. ~Fail(j)
  <2> SUFFICES ASSUME Fail(j) PROVE FALSE
    OBVIOUS
  <2>1. res[j] = "pending"
    BY <1>1 DEF CountAt, Evicting, Live
  <2>2. res'[j] = "failed"
    BY <2>1 DEF Fail, TypeInv, LedgerType
  <2> QED BY <2>2 DEF Live, Counted
<1>3. cmd[<<"unload", j, v>>] = "succeeded" /\ UNCHANGED <<inst, res, cmd>>
  BY <1>2, VictimEffect
<1>4. Freed(v)
  BY <1>3, CommandFacts DEF FreedInv, Carried
<1> QED BY <1>3, <1>4 DEF Freed, Live, Counted, Terminal

(* The live instances fit, with the victims that have still to go. *)
LEMMA LiveFits ==
    ASSUME LiveInv, [Next]_vars, ~Crash PROVE Fit(LiveSet)' /\ Seen(LiveSet)'
<1> DEFINE K == LiveSet
           L == LiveSet'
<1>1. K \in SUBSET Instances /\ L \in SUBSET Instances
  BY DEF LiveSet
<1>2. K \subseteq Holding(Counted) /\ Fit(K) /\ Seen(K) /\ CourseInv /\ BaseInv
  BY DEF LiveInv, CourseInv, LiveSet, Live, Holding
<1>3. \A j \in L \ K : (Plan(j) \/ Replan(j)) /\ pc'[j] \in Active
  BY <1>2, LiveEffect DEF LiveSet
<1>4. TypeInv'
  BY <1>2, TypeStep DEF BaseInv
<1>5. \A j \in Instances : \A v : v \in ToSet(victims'[j]) <=> Has(victims'[j], v)
  BY <1>4, HasSet DEF TypeInv, FlowType
<1>6. \A j \in L, v \in L : v \in Victims(j) /\ j \in K => v \in ToSet(victims'[j])
  <2> SUFFICES ASSUME NEW j \in L, NEW v \in L, v \in Victims(j), j \in K
               PROVE  v \in ToSet(victims'[j])
    OBVIOUS
  <2>1. Has(victims[j], v)
    BY <1>1, <1>2, VictimSets DEF BaseInv
  <2> QED BY <1>1, <1>2, <1>5, <2>1, LiveForgets DEF LiveSet
<1> HIDE DEF K, L
<1>7. /\ \A S \in SUBSET L : S # {} =>
            \E j \in S : Bytes(S \ ToSet(victims'[j])) <= Budget
      /\ lock' # None =>
            \E C \in SUBSET Instances :
               /\ L \subseteq C /\ snapshot'.held \subseteq C
               /\ Bytes(C) <= Budget - snapshot'.free
  BY <1>1, <1>2, <1>3, <1>6, FitKeeps
<1> QED BY <1>7 DEF Fit, Seen, Victims, L

(* It holds when the model starts, if the residents fit. *)
LEMMA LiveInit == ASSUME Init, Bytes(Resident) <= Budget PROVE LiveInv
<1>1. CourseInv
  BY CourseInit
<1>2. LiveSet \in SUBSET Resident
  BY DEF Init, LiveSet, Live, Counted, None
<1>3. Fit(LiveSet)
  <2> SUFFICES ASSUME NEW S \in SUBSET LiveSet, NEW j \in S
               PROVE  Bytes(S \ Victims(j)) <= Budget
    BY DEF Fit
  <2>1. S \ Victims(j) \in SUBSET Resident /\ Resident \in SUBSET Instances
    BY <1>2, PlacementAssumption
  <2>2. /\ Bytes(S \ Victims(j)) <= Bytes(Resident)
        /\ Bytes(S \ Victims(j)) \in Nat /\ Bytes(Resident) \in Nat
    BY <2>1, BytesDiff, BytesNat
  <2> QED BY <2>2, PlacementAssumption
<1>4. Seen(LiveSet)
  BY DEF Init, Seen
<1> QED BY <1>1, <1>3, <1>4 DEF LiveInv

(* Live instances whose decisions have no victims left fit. *)
LEMMA LiveSuffices ==
    ASSUME LiveInv, NEW S \in SUBSET LiveSet,
           \A j \in S : pc[j] \notin {"evict", "unloading"}
    PROVE  Bytes(S) <= Budget
<1>1. CASE S = {}
  BY <1>1, BytesNat, PlacementAssumption
<1>2. CASE S # {}
  <2>1. PICK j \in S : Bytes(S \ Victims(j)) <= Budget
    BY <1>2 DEF LiveInv, Fit
  <2>2. S \ Victims(j) = S
    BY <2>1, VictimSets DEF LiveInv, CourseInv, BaseInv, LiveSet
  <2> QED BY <2>1, <2>2
<1> QED BY <1>1, <1>2

(* Restarts are counted by restarts only. *)
LEMMA Restarts == ASSUME [Next]_vars, ~Crash PROVE crashes' = crashes
<1>1. \A i \in Instances : Decision(i) \/ Instance(i) => crashes' = crashes
  BY DEF Decision, Start, Plan, Replan, Evict, Unloaded, Reserve, Loaded, Instance, Launch,
     LaunchFails, LaunchLoads, LaunchReady, Drain, Drained, Unchanged, faults
<1>2. \A i \in Instances : Reconciler(i) \/ Unknown(i) \/ Environment(i)
                               \/ IdleFound(i) \/ Progress(i) => crashes' = crashes
  BY DEF Reconciler, Sync, Unknown, ReleaseTerminal, Environment, DrainRequest,
     AcquireLease, EndLease, SetPin, Die, IdleFound, Progress, Unchanged, faults
<1>3. Executor \/ Expire \/ IdleReleased \/ Sample \/ UNCHANGED vars => crashes' = crashes
  BY DEF Executor, LoadCall, LoadApply, UnloadCall, UnloadApply, Succeed, LoadDies, Expire,
     IdleReleased, Sample, vars, faults
<1> QED BY <1>1, <1>2, <1>3, Zenon DEF Next

(* LiveInv holds until the first restart. *)
LEMMA LiveSafety ==
    ASSUME Expiring \subseteq Resident, Bytes(Resident) <= Budget
    PROVE  Spec => [](TypeInv /\ (crashes = 0 => LiveInv))
<1> DEFINE Inv == TypeInv /\ (crashes = 0 => LiveInv)
<1>1. Init => Inv
  BY LiveInit, TypeInit
<1>2. Inv /\ [Next]_vars => Inv'
  <2> SUFFICES ASSUME Inv, [Next]_vars PROVE Inv'
    OBVIOUS
  <2>1. TypeInv'
    BY TypeStep
  <2>2. ASSUME crashes' = 0 PROVE LiveInv'
    <3>1. ~Crash
      BY <2>2, NoCrash
    <3>2. crashes = 0
      BY <2>2, <3>1, Restarts
    <3>3. CourseInv'
      BY <3>1, <3>2, CourseKeeps DEF LiveInv
    <3> QED BY <3>1, <3>2, <3>3, LiveFits DEF LiveInv
  <2> QED BY <2>1, <2>2
<1> QED BY <1>1, <1>2, PTL DEF Spec

(* Loads under way, and reservations held or being released, never add up  *)
(* to more than the budget, for every set of instances, every size and     *)
(* budget, and every number of attempts, leases, timeouts and deaths, up   *)
(* to the first restart of the scheduler, as long as the idle pass has     *)
(* only residents to release and the residents fit when the model starts.  *)
THEOREM LedgerSafety ==
    ASSUME Expiring \subseteq Resident, Bytes(Resident) <= Budget
    PROVE  Spec => [](crashes = 0 => LedgerFits)
<1>1. LiveInv => LedgerFits
  <2> SUFFICES ASSUME LiveInv PROVE LedgerFits
    OBVIOUS
  <2>1. Committed \in SUBSET LiveSet
    BY DEF Committed, LiveSet, Live, Counted
  <2>2. \A j \in Committed : pc[j] \notin {"evict", "unloading"}
    BY DEF Committed, LiveInv, CourseInv, CountAt, LoadAt, Evicting
  <2> QED BY <2>1, <2>2, LiveSuffices DEF LedgerFits
<1> QED BY <1>1, LiveSafety, PTL

(* So do the engines that run or still stop, for the instances that have   *)
(* not ended and whose load was not given up: under the same conditions.   *)
THEOREM EnginesSafety ==
    ASSUME Expiring \subseteq Resident, Bytes(Resident) <= Budget
    PROVE  Spec => [](crashes = 0 => LiveEnginesFit)
<1>1. LiveInv => LiveEnginesFit
  <2> SUFFICES ASSUME LiveInv PROVE LiveEnginesFit
    OBVIOUS
  <2> DEFINE R == {i \in Instances : /\ inst[i] \notin Terminal /\ proc[i] \in Running
                                     /\ cmd[<<"load", i, i>>] # "failed"}
  <2>1. ASSUME NEW j \in R PROVE Live(j) /\ pc[j] \notin {"evict", "unloading"}
    <3>1. LoadAt(j) /\ CountAt(j) /\ EngineAt(j) /\ TypeInv
      BY DEF LiveInv, CourseInv, BaseInv
    <3>2. cmd[Load(j)] \in {"queued", "succeeded"}
      <4>1. cmd[Load(j)] \in {None, "queued", "succeeded", "failed"}
        BY <3>1, CommandFacts DEF TypeInv, WorkType
      <4>2. cmd[Load(j)] # None
        BY <3>1 DEF EngineAt, Running, None
      <4> QED BY <4>1, <4>2 DEF Load
    <3>3. res[j] \in Counted
      <4>1. CASE Applied(j)
        BY <3>1, <4>1 DEF EngineAt, CountAt, Counted
      <4>2. CASE ~Applied(j)
        BY <3>1, <3>2, <4>2 DEF Applied, CountAt, Counted
      <4> QED BY <4>1, <4>2
    <3> QED BY <3>1, <3>2, <3>3 DEF LoadAt, Live
  <2>2. R \in SUBSET LiveSet
    BY <2>1 DEF LiveSet
  <2> QED BY <2>1, <2>2, LiveSuffices DEF LiveEnginesFit
<1> QED BY <1>1, LiveSafety, PTL
=============================================================================
