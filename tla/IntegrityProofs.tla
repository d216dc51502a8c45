--------------------------- MODULE IntegrityProofs --------------------------
(***************************************************************************)
(* Facts about the operators of Integrity, for chains of any length: what  *)
(* read_chain returns, and that the walk of verify_chain passes exactly    *)
(* the chains that are intact.  Induction is by least counterexample.      *)
(***************************************************************************)
EXTENDS Integrity, FiniteSetTheorems, TLAPS

----------------------------------------------------------------------------
(* Numbers and orders *)

\* A non-empty set of natural numbers has a least element.
LEMMA LeastNatural ==
    ASSUME NEW S \in SUBSET Nat, S # {}
    PROVE  \E n \in S : \A m \in S : n <= m
<1> DEFINE R == { p \in Nat \X Nat : p[1] < p[2] }
<1>1. IsWellFoundedOn(R, Nat)
  BY NatLessThanWellFounded, Zenon DEF OpToRel
<1>2. PICK n \in S : \A m \in S : <<m, n>> \notin R
  <2> HIDE DEF R
  <2> QED
    BY <1>1, WFMin
<1>3. \A m \in S : ~(m < n)
  BY <1>2
<1> QED
  BY <1>3

\* A bounded one has a greatest.
LEMMA GreatestNatural ==
    ASSUME NEW S \in SUBSET Nat, S # {}, NEW bound \in Nat, \A n \in S : n <= bound
    PROVE  \E n \in S : \A m \in S : m <= n
<1> DEFINE T == { k \in Nat : \E n \in S : k = bound - n }
<1>1. T \in SUBSET Nat /\ T # {}
  <2>1. PICK n \in S : TRUE
    OBVIOUS
  <2>2. bound - n \in T
    BY <2>1
  <2> QED
    BY <2>2
<1>2. PICK k \in T : \A l \in T : k <= l
  <2> HIDE DEF T
  <2> QED
    BY <1>1, LeastNatural
<1>3. PICK n \in S : k = bound - n
  BY <1>2
<1>4. ASSUME NEW m \in S PROVE m <= n
  <2>1. bound - m \in T
    BY <1>4
  <2> QED
    BY <1>2, <1>3, <2>1
<1> QED
  BY <1>4

\* How many elements of S are below x under R.
RankOf(S, R) == [x \in S |-> Cardinality({ y \in S : <<y, x>> \in R })]

StrictOrder(S, R) ==
    /\ \A x \in S : <<x, x>> \notin R
    /\ \A x, y, z \in S : <<x, y>> \in R /\ <<y, z>> \in R => <<x, z>> \in R
    /\ \A x, y \in S : x # y => <<x, y>> \in R \/ <<y, x>> \in R

\* In a finite set under a strict total order R every position is held by one element:
\* the one with as many elements below it.
LEMMA Ranks ==
    ASSUME NEW S, IsFiniteSet(S), NEW R, StrictOrder(S, R),
           NEW rank, rank = RankOf(S, R)
    PROVE  /\ rank \in [S -> 0..Cardinality(S)-1]
           /\ \A x, y \in S : <<x, y>> \in R => rank[x] < rank[y]
           /\ \A x, y \in S : rank[x] = rank[y] => x = y
           /\ \A i \in 1..Cardinality(S) : \E x \in S : rank[x] = i - 1
<1> DEFINE Below(x) == { y \in S : <<y, x>> \in R }
<1>0. PICK n \in Nat : n = Cardinality(S)
  BY FS_CardinalityType
<1>1. ASSUME NEW x \in S
      PROVE  /\ IsFiniteSet(Below(x)) /\ Cardinality(Below(x)) \in Nat
             /\ Cardinality(Below(x)) <= n - 1
  <2>1. Below(x) \in SUBSET (S \ {x})
    BY DEF StrictOrder
  <2>2. IsFiniteSet(S \ {x}) /\ Cardinality(S \ {x}) = n - 1
    BY <1>0, FS_RemoveElement
  <2>3. IsFiniteSet(Below(x)) /\ Cardinality(Below(x)) <= Cardinality(S \ {x})
    <3> HIDE DEF Below
    <3> QED
      BY <2>1, <2>2, FS_Subset
  <2> HIDE DEF Below
  <2> QED
    BY <2>2, <2>3, FS_CardinalityType
<1>r. \A x \in S : rank[x] = Cardinality(Below(x))
  BY DEF RankOf
<1>s. \A x, y \in S : <<x, y>> \in R =>
        /\ Below(x) \in SUBSET Below(y) /\ x \in Below(y) /\ x \notin Below(x)
  BY DEF StrictOrder
<1> HIDE DEF Below
<1>t. \A x \in S : rank[x] \in Nat /\ rank[x] <= n - 1
  BY <1>1, <1>r
<1>2. ASSUME NEW x \in S, NEW y \in S, <<x, y>> \in R PROVE rank[x] < rank[y]
  <2>1. Below(x) \in SUBSET Below(y) /\ Below(x) # Below(y)
    BY <1>2, <1>s
  <2>2. Cardinality(Below(x)) <= Cardinality(Below(y))
        /\ Cardinality(Below(x)) # Cardinality(Below(y))
    BY <1>1, <2>1, FS_Subset
  <2> QED
    BY <1>r, <1>t, <2>2
<1>3. \A x, y \in S : rank[x] = rank[y] => x = y
  <2> SUFFICES ASSUME NEW x \in S, NEW y \in S, rank[x] = rank[y], x # y PROVE FALSE
    OBVIOUS
  <2>1. rank[x] < rank[y] \/ rank[y] < rank[x]
    BY <1>2 DEF StrictOrder
  <2> QED
    BY <1>t, <2>1
<1>4. \A i \in 1..n : \E x \in S : rank[x] = i - 1
  <2> DEFINE f == [x \in S |-> rank[x] + 1]
  <2>1. f \in [S -> 1..n]
    BY <1>t
  <2>a. ASSUME NEW x \in S, NEW y \in S, f[x] = f[y] PROVE x = y
    <3>1. rank[x] + 1 = rank[y] + 1
      BY <2>a
    <3>2. rank[x] = rank[y]
      BY <1>t, <3>1
    <3> QED
      BY <1>3, <3>2
  <2>2. f \in Injection(S, 1..n)
    BY <2>1, <2>a DEF Injection, IsInjective
  <2>3. IsFiniteSet(1..n) /\ Cardinality(1..n) = n
    BY FS_Interval
  <2>4. f \in Surjection(S, 1..n)
    <3> HIDE DEF f
    <3> QED
      BY <1>0, <2>2, <2>3, FS_Injection
  <2>5. \A i \in 1..n : \E x \in S : f[x] = i
    BY <2>4 DEF Surjection
  <2>6. ASSUME NEW i \in 1..n PROVE \E x \in S : rank[x] = i - 1
    <3>1. PICK x \in S : f[x] = i
      BY <2>5
    <3>2. rank[x] + 1 = i /\ rank[x] \in Nat
      BY <1>t, <3>1
    <3>3. rank[x] = i - 1
      BY <3>2
    <3> QED
      BY <3>3
  <2> QED
    BY <2>6
<1>5. rank \in [S -> 0..n-1]
  BY <1>t DEF RankOf
<1> QED
  BY <1>0, <1>2, <1>3, <1>4, <1>5

----------------------------------------------------------------------------
(* read_chain *)

\* What SELECT ... ORDER BY seq needs of the rows of a building: finitely many, and no
\* two of one instant, which is the primary key.
Keyed(rows) ==
    /\ IsFiniteSet(rows)
    /\ \A r \in rows : r.seq \in Nat /\ r.ts \in Int
    /\ \A r, q \in rows : r.ts = q.ts => r = q

\* read_chain lists the rows of the building, each once, in sequence order.
LEMMA ReadChainSorts ==
    ASSUME NEW table, NEW b, Keyed(RowsOf(table, b)),
           NEW s, s = read_chain(table, b)
    PROVE  LET rows == RowsOf(table, b)
           IN  /\ s \in Seq(rows) /\ Len(s) = Cardinality(rows)
               /\ DOMAIN s = 1..Len(s)
               /\ \A r \in rows : \E i \in DOMAIN s : s[i] = r
               /\ \A i, j \in DOMAIN s : i < j => s[i].seq <= s[j].seq /\ s[i] # s[j]
<1> DEFINE rows == RowsOf(table, b)
           Before(q, r) == q.seq < r.seq \/ (q.seq = r.seq /\ q.ts < r.ts)
           R == { p \in rows \X rows : Before(p[1], p[2]) }
           rank == RankOf(rows, R)
<1>0. /\ IsFiniteSet(rows)
      /\ \A r \in rows : r.seq \in Nat /\ r.ts \in Int
      /\ \A r, q \in rows : r.ts = q.ts => r = q
  BY DEF Keyed
<1>1. PICK n \in Nat : n = Cardinality(rows)
  BY <1>0, FS_CardinalityType
<1>2. \A x, y \in rows : <<x, y>> \in R <=> Before(x, y)
  OBVIOUS
<1>3. s = [i \in 1..n |-> CHOOSE r \in rows :
                             Cardinality({ q \in rows : Before(q, r) }) = i - 1]
  BY <1>1 DEF read_chain
<1>4. \A r \in rows : Cardinality({ q \in rows : Before(q, r) }) = rank[r]
  <2> SUFFICES ASSUME NEW r \in rows
               PROVE  { q \in rows : Before(q, r) } = { y \in rows : <<y, r>> \in R }
    BY DEF RankOf
  <2> QED
    BY <1>2
<1>5. s = [i \in 1..n |-> CHOOSE r \in rows : rank[r] = i - 1]
  <2> HIDE DEF rank
  <2> QED
    BY <1>3, <1>4, Zenon
<1> HIDE DEF rows
<1>6. /\ rank \in [rows -> 0..n-1]
      /\ \A x, y \in rows : <<x, y>> \in R => rank[x] < rank[y]
      /\ \A x, y \in rows : rank[x] = rank[y] => x = y
      /\ \A i \in 1..n : \E x \in rows : rank[x] = i - 1
  <2>1. StrictOrder(rows, R)
    BY <1>0, <1>2 DEF StrictOrder
  <2> HIDE DEF R
  <2> QED
    BY <1>0, <1>1, <2>1, Ranks
<1> HIDE DEF rank, R
<1>7. \A i \in 1..n : s[i] \in rows /\ rank[s[i]] = i - 1
  BY <1>5, <1>6
<1>8. s \in Seq(rows) /\ Len(s) = n /\ DOMAIN s = 1..n
  BY <1>5, <1>7
<1>9. ASSUME NEW r \in rows PROVE \E i \in 1..n : s[i] = r
  <2>1. rank[r] + 1 \in 1..n
    BY <1>6
  <2>2. rank[s[rank[r] + 1]] = rank[r] /\ s[rank[r] + 1] \in rows
    BY <1>6, <1>7, <2>1
  <2> QED
    BY <1>6, <2>1, <2>2
<1>10. ASSUME NEW i \in 1..n, NEW j \in 1..n, i < j
       PROVE  s[i].seq <= s[j].seq /\ s[i] # s[j]
  <2>1. rank[s[i]] < rank[s[j]] /\ s[i] \in rows /\ s[j] \in rows
    BY <1>7, <1>10
  <2>2. ~Before(s[j], s[i])
    <3>1. ~(rank[s[j]] < rank[s[i]])
      BY <1>6, <2>1
    <3> QED
      BY <1>2, <1>6, <2>1, <3>1
  <2>3. s[i] # s[j]
    BY <1>6, <2>1
  <2>4. s[i].seq \in Nat /\ s[j].seq \in Nat
    BY <1>0, <2>1
  <2> QED
    BY <2>2, <2>3, <2>4
<1> QED
  BY <1>1, <1>8, <1>9, <1>10 DEF rows

----------------------------------------------------------------------------
(* Intact chains *)

\* Without a gap: linking every row to the one numbered one less goes down to zero.
LEMMA IntactIsDense ==
    ASSUME NEW rows, IntactChain(rows), \A r \in rows : r.seq \in Nat,
           NEW r \in rows, NEW m \in 0..r.seq
    PROVE  \E q \in rows : q.seq = m
<1> SUFFICES ASSUME \A q \in rows : q.seq # m PROVE FALSE
  OBVIOUS
<1> DEFINE Above == { k \in Nat : k > m /\ \E q \in rows : q.seq = k }
<1>1. r.seq \in Above
  OBVIOUS
<1>2. PICK k \in Above : \A l \in Above : k <= l
  <2>1. Above \in SUBSET Nat /\ Above # {}
    BY <1>1
  <2> HIDE DEF Above
  <2> QED
    BY <2>1, LeastNatural
<1>3. PICK q \in rows : q.seq = k
  BY <1>2
<1>4. k > m /\ k \in Nat /\ m \in Nat
  BY <1>2
<1>5. PICK p \in rows : p.seq = k - 1
  BY <1>3, <1>4 DEF IntactChain, Linked
<1>6. k - 1 \in Above
  BY <1>4, <1>5
<1> QED
  BY <1>2, <1>4, <1>6

\* In a list of an intact chain's rows by sequence, row i is numbered i - 1.
LEMMA IntactNumbering ==
    ASSUME NEW table, NEW b, Keyed(RowsOf(table, b)), IntactChain(RowsOf(table, b)),
           NEW s, s = read_chain(table, b), NEW i \in DOMAIN s
    PROVE  s[i].seq = i - 1
<1> DEFINE rows == RowsOf(table, b)
<1>0. \A r \in rows : r.seq \in Nat
  BY DEF Keyed
<1>1. /\ s \in Seq(rows) /\ Len(s) \in Nat /\ DOMAIN s = 1..Len(s)
      /\ \A r \in rows : \E j \in DOMAIN s : s[j] = r
      /\ \A j, k \in DOMAIN s : j < k => s[j].seq <= s[k].seq /\ s[j] # s[k]
  BY ReadChainSorts
<1>2. \A j \in DOMAIN s : s[j] \in rows /\ s[j].seq \in Nat
  BY <1>0, <1>1
<1>3. \A j, k \in DOMAIN s : j < k => s[j].seq < s[k].seq
  BY <1>1, <1>2 DEF IntactChain
<1>d. \A r \in rows : \A m \in 0..r.seq : \E q \in rows : q.seq = m
  BY <1>0, IntactIsDense
<1> HIDE DEF rows
<1> DEFINE Wrong == { j \in Nat : j \in DOMAIN s /\ s[j].seq # j - 1 }
<1> SUFFICES ASSUME i \in Wrong PROVE FALSE
  BY <1>1
<1>4. PICK j \in Wrong : \A k \in Wrong : j <= k
  <2>1. Wrong \in SUBSET Nat /\ Wrong # {}
    OBVIOUS
  <2> HIDE DEF Wrong
  <2> QED
    BY <2>1, LeastNatural
<1>5. j \in 1..Len(s) /\ s[j].seq # j - 1 /\ s[j].seq \in Nat
  BY <1>1, <1>2, <1>4
<1>6. \A k \in 1..j-1 : s[k].seq = k - 1
  BY <1>1, <1>4, <1>5
<1>7. s[j].seq > j - 1
  <2>1. CASE j = 1
    BY <1>5, <2>1
  <2>2. CASE j > 1
    <3>1. j - 1 \in 1..j-1 /\ j - 1 \in DOMAIN s
      BY <1>1, <1>5, <2>2
    <3>2. s[j-1].seq = (j - 1) - 1
      BY <1>6, <3>1
    <3>3. s[j-1].seq < s[j].seq
      BY <1>3, <1>4, <1>5, <3>1
    <3> QED
      BY <1>5, <3>2, <3>3
  <2> QED
    BY <1>5, <2>1, <2>2
<1>8. PICK q \in rows : q.seq = j - 1
  <2>1. s[j] \in rows
    BY <1>2, <1>4
  <2>2. j - 1 \in 0..s[j].seq
    BY <1>5, <1>7
  <2> QED
    BY <1>d, <2>1, <2>2
<1>9. PICK k \in 1..Len(s) : s[k] = q
  BY <1>1, <1>8
<1>10. CASE k < j
  BY <1>5, <1>6, <1>8, <1>9, <1>10
<1>11. CASE k = j
  BY <1>5, <1>8, <1>9, <1>11
<1>12. CASE k > j
  <2>1. s[j].seq < s[k].seq
    BY <1>1, <1>3, <1>4, <1>9, <1>12
  <2> QED
    BY <1>5, <1>7, <1>8, <1>9, <2>1
<1> QED
  BY <1>5, <1>9, <1>10, <1>11, <1>12

----------------------------------------------------------------------------
(* verify_chain *)

\* The walk finds nothing wrong with a row that has the expected number and is signed
\* from the row before it, and with no other.
LEMMA NoBreak ==
    ASSUME NEW rows, NEW i, NEW first,
           rows[i].seq \in Int, ExpectedSeq(rows, i, first) \in Int
    PROVE  BreakReason(rows, i, first) = "none" <=>
              /\ rows[i].seq = ExpectedSeq(rows, i, first)
              /\ rows[i].sig = sign(rows[i], PrevSig(rows, i))
<1> DEFINE e == ExpectedSeq(rows, i, first)
           n == rows[i].seq
<1>1. n > e \/ n < e \/ n = e
  OBVIOUS
<1>2. CASE n > e
  BY <1>2 DEF BreakReason
<1>3. CASE n < e
  BY <1>3 DEF BreakReason
<1>4. CASE n = e /\ rows[i].sig # sign(rows[i], PrevSig(rows, i))
  BY <1>4 DEF BreakReason
<1>5. CASE n = e /\ rows[i].sig = sign(rows[i], PrevSig(rows, i))
  BY <1>5 DEF BreakReason
<1> QED
  BY <1>1, <1>2, <1>3, <1>4, <1>5

\* verify_chain says ok exactly if no row breaks the walk.
LEMMA WalkOk ==
    ASSUME NEW rows, NEW first
    PROVE  verify_chain(rows, first).ok <=>
              \A i \in DOMAIN rows : BreakReason(rows, i, first) = "none"
  BY DEF verify_chain

\* The walk agrees with what an intact chain is, for every table: rows listed in
\* sequence order from zero pass it exactly if they form one intact chain.
THEOREM WalkDecidesIntact ==
    ASSUME NEW table, NEW b, Keyed(RowsOf(table, b)), RowsOf(table, b) # {},
           NEW s, s = read_chain(table, b)
    PROVE  (verify_chain(s, s[1].seq).ok /\ s[1].seq = 0) <=> IntactChain(RowsOf(table, b))
<1> DEFINE rows == RowsOf(table, b)
<1>0. IsFiniteSet(rows) /\ \A r \in rows : r.seq \in Nat
  BY DEF Keyed
<1>1. /\ s \in Seq(rows) /\ Len(s) \in Nat /\ DOMAIN s = 1..Len(s)
      /\ \A r \in rows : \E j \in DOMAIN s : s[j] = r
  BY ReadChainSorts
<1>2. \A j \in 1..Len(s) : s[j] \in rows /\ s[j].seq \in Nat
  BY <1>0, <1>1
<1>3. 1 \in 1..Len(s)
  BY <1>1
<1>e. \A j \in 1..Len(s) : ExpectedSeq(s, j, s[1].seq) \in Int
  BY <1>2, <1>3 DEF ExpectedSeq
<1>w. verify_chain(s, s[1].seq).ok <=>
        \A j \in 1..Len(s) : /\ s[j].seq = ExpectedSeq(s, j, s[1].seq)
                             /\ s[j].sig = sign(s[j], PrevSig(s, j))
  <2>1. verify_chain(s, s[1].seq).ok <=>
          \A j \in DOMAIN s : BreakReason(s, j, s[1].seq) = "none"
    BY WalkOk
  <2>2. ASSUME NEW j \in 1..Len(s)
        PROVE  BreakReason(s, j, s[1].seq) = "none" <=>
                 /\ s[j].seq = ExpectedSeq(s, j, s[1].seq)
                 /\ s[j].sig = sign(s[j], PrevSig(s, j))
    <3>1. s[j].seq \in Int /\ ExpectedSeq(s, j, s[1].seq) \in Int
      BY <1>2, <1>e
    <3> QED
      BY <3>1, NoBreak
  <2> QED
    BY <1>1, <2>1, <2>2
<1>4. ASSUME IntactChain(rows)
      PROVE  verify_chain(s, s[1].seq).ok /\ s[1].seq = 0
  <2>1. ASSUME NEW j \in 1..Len(s) PROVE s[j].seq = j - 1
    <3>1. j \in DOMAIN s
      BY <1>1
    <3> QED
      BY <1>4, <3>1, IntactNumbering
  <2>2. s[1].seq = 0
    BY <1>3, <2>1
  <2>3. ASSUME NEW j \in 1..Len(s)
        PROVE  /\ s[j].seq = ExpectedSeq(s, j, s[1].seq)
               /\ s[j].sig = sign(s[j], PrevSig(s, j))
    <3>1. CASE j = 1
      BY <1>2, <1>4, <2>2, <2>3, <3>1 DEF ExpectedSeq, PrevSig, IntactChain, Linked
    <3>2. CASE j # 1
      <4>1. j - 1 \in 1..Len(s)
        BY <2>3, <3>2
      <4>2. s[j].seq = j - 1 /\ s[j-1].seq = (j - 1) - 1
        BY <2>1, <2>3, <4>1
      <4>3. PICK p \in rows : p.seq = s[j].seq - 1 /\ s[j].sig = sign(s[j], p.sig)
        BY <1>2, <1>4, <2>3, <3>2, <4>2 DEF IntactChain, Linked
      <4>4. p = s[j-1]
        BY <1>2, <1>4, <4>1, <4>2, <4>3 DEF IntactChain
      <4> QED
        BY <3>2, <4>1, <4>2, <4>3, <4>4 DEF ExpectedSeq, PrevSig
    <3> QED
      BY <3>1, <3>2
  <2> QED
    BY <1>w, <2>2, <2>3
<1>5. ASSUME verify_chain(s, s[1].seq).ok, s[1].seq = 0
      PROVE  IntactChain(rows)
  <2>1. \A j \in 1..Len(s) : /\ s[j].seq = ExpectedSeq(s, j, 0)
                             /\ s[j].sig = sign(s[j], PrevSig(s, j))
    BY <1>5, <1>w
  <2>2. \A j \in 1..Len(s) : s[j].seq = j - 1
    <3> DEFINE Wrong == { j \in Nat : j \in 1..Len(s) /\ s[j].seq # j - 1 }
    <3> SUFFICES ASSUME Wrong # {} PROVE FALSE
      OBVIOUS
    <3>1. PICK j \in Wrong : \A k \in Wrong : j <= k
      <4>1. Wrong \in SUBSET Nat
        OBVIOUS
      <4> HIDE DEF Wrong
      <4> QED
        BY <4>1, LeastNatural
    <3>2. j \in 1..Len(s) /\ s[j].seq # j - 1
      BY <3>1
    <3>3. j # 1
      BY <1>5, <3>2
    <3>4. j - 1 \in 1..Len(s) /\ j - 1 \notin Wrong
      BY <3>1, <3>2, <3>3
    <3>5. s[j-1].seq = (j - 1) - 1
      BY <3>4
    <3>6. s[j].seq = s[j-1].seq + 1
      BY <2>1, <3>2, <3>3 DEF ExpectedSeq
    <3> QED
      BY <3>2, <3>5, <3>6
  <2>3. ASSUME NEW r \in rows, NEW q \in rows, r.seq = q.seq PROVE r = q
    <3>1. PICK j \in 1..Len(s), k \in 1..Len(s) : s[j] = r /\ s[k] = q
      BY <1>1
    <3>2. j - 1 = k - 1
      BY <2>2, <2>3, <3>1
    <3> QED
      BY <3>1, <3>2
  <2>4. ASSUME NEW r \in rows PROVE r.seq >= 0 /\ Linked(rows, r)
    <3>1. PICK j \in 1..Len(s) : s[j] = r
      BY <1>1
    <3>2. r.seq = j - 1 /\ r.sig = sign(r, PrevSig(s, j))
      BY <2>1, <2>2, <3>1
    <3>3. CASE j = 1
      BY <3>2, <3>3 DEF Linked, PrevSig
    <3>4. CASE j # 1
      <4>1. j - 1 \in 1..Len(s)
        BY <3>1, <3>4
      <4>2. s[j-1] \in rows /\ s[j-1].seq = (j - 1) - 1
        BY <1>2, <2>2, <4>1
      <4>3. PrevSig(s, j) = s[j-1].sig
        BY <3>4 DEF PrevSig
      <4> QED
        BY <3>2, <3>4, <4>1, <4>2, <4>3 DEF Linked
    <3> QED
      BY <3>3, <3>4
  <2> QED
    BY <2>3, <2>4 DEF IntactChain
<1> QED
  BY <1>4, <1>5
============================================================================
