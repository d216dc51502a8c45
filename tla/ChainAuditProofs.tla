-------------------------- MODULE ChainAuditProofs --------------------------
(***************************************************************************)
(* Theorems about ChainAudit: what a clean integrity report means, for a   *)
(* chain of any length, an anchor anywhere in it and any number of changes *)
(* to the stored rows.                                                     *)
(***************************************************************************)
EXTENDS ChainAudit, IntegrityProofs

----------------------------------------------------------------------------
(* The inductive invariant *)

Signatures == { sign_chain(n) : n \in 1..Length }

AuditRow == [building_id : {"hall"}, ts : Nat, kw : Nat, source : {"sim"}, seq : Nat,
             sig : Signatures]

\* No signature is in the table that was not made when the rows were ingested, and the
\* primary key holds.
AuditInv ==
    /\ IsFiniteSet(table)
    /\ table \subseteq AuditRow
    /\ \A r, q \in table : r.ts = q.ts => r = q
    /\ anchorSeq \in 0..Length-1
    /\ edits \in Seq({"update", "delete"})

----------------------------------------------------------------------------
(* Lemmas *)

\* sign_chain: signing the next row from the signature of the rows before it.
LEMMA SignChainSteps ==
    /\ sign_chain(0) = GENESIS
    /\ \A n \in Nat : sign_chain(n + 1) = sign(Payload(n), sign_chain(n))
<1>1. sign_chain(0) = GENESIS
  BY DEF sign_chain, GENESIS
<1>2. ASSUME NEW n \in Nat PROVE sign_chain(n + 1) = sign(Payload(n), sign_chain(n))
  <2> DEFINE c(i) == canonical(Payload(i))
  <2>1. sign_chain(n) = [i \in 1..n |-> c(i - 1)]
    BY DEF sign_chain
  <2>2. sign_chain(n + 1) = [i \in 1..n+1 |-> c(i - 1)]
    BY DEF sign_chain
  <2> HIDE DEF c
  <2>3. Append([i \in 1..n |-> c(i - 1)], c(n)) = [i \in 1..n+1 |-> c(i - 1)]
    OBVIOUS
  <2> QED
    BY <2>1, <2>2, <2>3 DEF sign, c
<1> QED
  BY <1>1, <1>2

\* A signature made at ingest tells how many rows it covers, and its last entry which
\* row it was made for.
LEMMA SignatureTells ==
    ASSUME NEW n \in 1..Length
    PROVE  /\ Len(sign_chain(n)) = n
           /\ sign_chain(n)[n] = canonical(Payload(n - 1))
  BY AuditAssumption DEF sign_chain

----------------------------------------------------------------------------
(* The steps *)

\* The rows as they were ingested.
LEMMA SignedRowsType ==
    /\ IsFiniteSet(SignedRows) /\ SignedRows \subseteq AuditRow
    /\ \A r, q \in SignedRows : r.ts = q.ts => r = q
<1> DEFINE row(i) == [building_id |-> "hall", ts |-> 2 * i, kw |-> 2, source |-> "sim",
                      seq |-> i, sig |-> sign_chain(i + 1)]
           f == [i \in 0..Length-1 |-> row(i)]
<1>0. SignedRows = { row(i) : i \in 0..Length-1 }
  BY DEF SignedRows
<1>1. ASSUME NEW i \in 0..Length-1 PROVE row(i) \in AuditRow
  <2>1. sign_chain(i + 1) \in Signatures
    BY AuditAssumption DEF Signatures
  <2> QED
    BY <2>1 DEF AuditRow
<1>2. f \in Surjection(0..Length-1, SignedRows)
  <2>1. f \in [0..Length-1 -> SignedRows]
    BY <1>0
  <2>2. \A r \in SignedRows : \E i \in 0..Length-1 : f[i] = r
    BY <1>0
  <2> QED
    BY <2>1, <2>2 DEF Surjection
<1>3. IsFiniteSet(SignedRows)
  <2>1. IsFiniteSet(0..Length-1)
    BY AuditAssumption, FS_Interval
  <2> HIDE DEF f
  <2> QED
    BY <1>2, <2>1, FS_Surjection
<1>4. \A i, j \in 0..Length-1 : row(i).ts = row(j).ts => i = j
  BY AuditAssumption
<1> QED
  BY <1>0, <1>1, <1>3, <1>4

\* One row replaced by another of the same kind, with an instant no other row has.
LEMMA ReplaceKeeps ==
    ASSUME AuditInv, NEW r \in table, NEW q \in AuditRow, NEW kind \in {"update", "delete"},
           Replace(r, q, kind),
           \A x \in table \ {r} : x.ts # q.ts
    PROVE  AuditInv'
<1>1. IsFiniteSet(table \ {r})
  BY FS_RemoveElement DEF AuditInv
<1>2. IsFiniteSet(table')
  BY <1>1, FS_AddElement DEF Replace
<1> QED
  BY <1>2 DEF AuditInv, Replace

\* Whatever is done to the table, no signature is made.
LEMMA AuditStep == AuditInv /\ [Next]_auditVars => AuditInv'
<1> SUFFICES ASSUME AuditInv, [Next]_auditVars PROVE AuditInv'
  OBVIOUS
<1>t. /\ table \subseteq AuditRow
      /\ \A r, q \in table : r.ts = q.ts => r = q
  BY DEF AuditInv
<1>1. ASSUME NEW r \in table, SetPower(r) PROVE AuditInv'
  <2>1. PICK k \in Power : Replace(r, [r EXCEPT !.kw = k], "update")
    BY <1>1 DEF SetPower
  <2>2. [r EXCEPT !.kw = k] \in AuditRow /\ [r EXCEPT !.kw = k].ts = r.ts
    BY <1>t, AuditAssumption DEF AuditRow
  <2> QED
    BY <1>t, <2>1, <2>2, ReplaceKeeps
<1>2. ASSUME NEW r \in table, SetInstant(r) PROVE AuditInv'
  <2>1. PICK t \in Instant : /\ \A q \in table : q.ts # t
                             /\ Replace(r, [r EXCEPT !.ts = t], "update")
    BY <1>2 DEF SetInstant
  <2>2. [r EXCEPT !.ts = t] \in AuditRow /\ [r EXCEPT !.ts = t].ts = t
    BY <1>t, AuditAssumption DEF AuditRow
  <2> QED
    BY <1>t, <2>1, <2>2, ReplaceKeeps
<1>3. ASSUME NEW r \in table, SetSeq(r) PROVE AuditInv'
  <2>1. PICK n \in 0..Length : Replace(r, [r EXCEPT !.seq = n], "update")
    BY <1>3 DEF SetSeq
  <2>2. [r EXCEPT !.seq = n] \in AuditRow /\ [r EXCEPT !.seq = n].ts = r.ts
    BY <1>t, AuditAssumption DEF AuditRow
  <2> QED
    BY <1>t, <2>1, <2>2, ReplaceKeeps
<1>4. ASSUME NEW r \in table, CopySignature(r) PROVE AuditInv'
  <2>1. PICK q \in SignedRows : Replace(r, [r EXCEPT !.sig = q.sig], "update")
    BY <1>4 DEF CopySignature
  <2>2. q.sig \in Signatures
    BY SignedRowsType DEF AuditRow
  <2>3. [r EXCEPT !.sig = q.sig] \in AuditRow /\ [r EXCEPT !.sig = q.sig].ts = r.ts
    BY <1>t, <2>2 DEF AuditRow
  <2> QED
    BY <1>t, <2>1, <2>3, ReplaceKeeps
<1>5. ASSUME NEW r \in table, Delete(r) PROVE AuditInv'
  <2>1. IsFiniteSet(table')
    BY <1>5, FS_RemoveElement DEF AuditInv, Delete
  <2> QED
    BY <1>5, <2>1 DEF AuditInv, Delete
<1>6. CASE UNCHANGED auditVars
  BY <1>6 DEF AuditInv, auditVars
<1> QED
  BY <1>1, <1>2, <1>3, <1>4, <1>5, <1>6 DEF Next

\* The chain as ingested, with a head anchored somewhere in it.
LEMMA AuditInit == Init => AuditInv
  BY SignedRowsType DEF Init, AuditInv

\* The rows of the building are the table.
LEMMA TableIsKeyed ==
    ASSUME AuditInv
    PROVE  RowsOf(table, "hall") = table /\ Keyed(table)
<1>1. table \subseteq AuditRow
  BY DEF AuditInv
<1>2. RowsOf(table, "hall") = table
  BY <1>1 DEF RowsOf, AuditRow
<1> QED
  BY <1>1, <1>2 DEF AuditInv, Keyed, AuditRow

----------------------------------------------------------------------------
(* A clean report *)

\* A walk that passes has found, row after row, the rows as they were ingested: its
\* i-th row carries a signature of i rows, and there is only one.
LEMMA CleanWalkIsHistory ==
    ASSUME AuditInv, table # {}, Walk.ok, NEW i \in DOMAIN Rows
    PROVE  i \in 1..Length /\ canonical(Rows[i]) = canonical(Payload(i - 1))
<1> DEFINE s == Rows
<1>0. table \subseteq AuditRow
  BY DEF AuditInv
<1>1. /\ s \in Seq(table) /\ Len(s) \in Nat /\ DOMAIN s = 1..Len(s)
      /\ \A r \in table : \E j \in DOMAIN s : s[j] = r
  BY TableIsKeyed, ReadChainSorts DEF Rows
<1>2. \A j \in 1..Len(s) : s[j] \in AuditRow /\ s[j].seq \in Nat /\ s[j].sig \in Signatures
  <2> HIDE DEF s
  <2>1. \A j \in 1..Len(s) : s[j] \in table
    BY <1>1
  <2>2. \A r \in AuditRow : r.seq \in Nat /\ r.sig \in Signatures
    BY DEF AuditRow
  <2> QED
    BY <1>0, <2>1, <2>2
<1>3. 1 \in 1..Len(s)
  BY <1>1
<1>4. \A j \in 1..Len(s) : s[j].sig = sign(s[j], PrevSig(s, j))
  <2> SUFFICES ASSUME NEW j \in 1..Len(s) PROVE s[j].sig = sign(s[j], PrevSig(s, j))
    OBVIOUS
  <2>1. s[j].seq \in Int /\ ExpectedSeq(s, j, s[1].seq) \in Int
    BY <1>2, <1>3 DEF ExpectedSeq
  <2>2. BreakReason(s, j, s[1].seq) = "none"
    BY <1>1, WalkOk DEF Walk
  <2> QED
    BY <2>1, <2>2, NoBreak
<1> HIDE DEF s
<1>5. \A j \in 1..Len(s) : s[j].sig \in Seq({ canonical(Payload(k)) : k \in 0..Length-1 })
  <2> DEFINE C == { canonical(Payload(k)) : k \in 0..Length-1 }
  <2>1. ASSUME NEW n \in 1..Length PROVE sign_chain(n) \in Seq(C)
    <3>1. \A k \in 1..n : k - 1 \in 0..Length-1
      BY AuditAssumption
    <3>2. \A k \in 1..n : canonical(Payload(k - 1)) \in C
      BY <3>1
    <3> HIDE DEF C
    <3> QED
      BY <3>2, AuditAssumption DEF sign_chain
  <2> QED
    BY <1>2, <2>1 DEF Signatures
<1>6. \A j \in 1..Len(s) : Len(s[j].sig) = j
  <2> DEFINE Wrong == { j \in Nat : j \in 1..Len(s) /\ Len(s[j].sig) # j }
  <2> SUFFICES ASSUME Wrong # {} PROVE FALSE
    OBVIOUS
  <2>1. PICK j \in Wrong : \A k \in Wrong : j <= k
    <3>1. Wrong \in SUBSET Nat
      OBVIOUS
    <3> HIDE DEF Wrong
    <3> QED
      BY <3>1, LeastNatural
  <2>2. j \in 1..Len(s) /\ Len(s[j].sig) # j
    BY <2>1
  <2>3. CASE j = 1
    <3>1. s[1].sig = Append(<<>>, canonical(s[1]))
      BY <1>3, <1>4 DEF PrevSig, sign, GENESIS
    <3>2. Len(Append(<<>>, canonical(s[1]))) = 1
      OBVIOUS
    <3> QED
      BY <2>2, <2>3, <3>1, <3>2
  <2>4. CASE j # 1
    <3>1. j - 1 \in 1..Len(s) /\ j - 1 \notin Wrong
      BY <2>1, <2>2, <2>4
    <3>2. Len(s[j-1].sig) = j - 1
      BY <3>1
    <3>3. s[j].sig = Append(s[j-1].sig, canonical(s[j]))
      BY <1>4, <2>2, <2>4 DEF PrevSig, sign
    <3>4. Len(Append(s[j-1].sig, canonical(s[j]))) = Len(s[j-1].sig) + 1
      BY <1>5, <3>1
    <3> QED
      BY <2>2, <3>2, <3>3, <3>4
  <2> QED
    BY <2>3, <2>4
<1>7. i \in 1..Len(s)
  BY <1>1 DEF s
<1>8. PICK n \in 1..Length : s[i].sig = sign_chain(n)
  BY <1>2, <1>7 DEF Signatures
<1>9. n = i
  BY <1>6, <1>7, <1>8, SignatureTells
<1>10. s[i].sig[i] = canonical(s[i])
  <2>1. CASE i = 1
    BY <1>4, <1>7, <2>1 DEF PrevSig, sign, GENESIS
  <2>2. CASE i # 1
    <3>1. i - 1 \in 1..Len(s)
      BY <1>7, <2>2
    <3>2. s[i].sig = Append(s[i-1].sig, canonical(s[i]))
      BY <1>4, <1>7, <2>2 DEF PrevSig, sign
    <3>3. Len(s[i-1].sig) = i - 1
      BY <1>6, <3>1
    <3>4. Append(s[i-1].sig, canonical(s[i]))[(i - 1) + 1] = canonical(s[i])
      BY <1>5, <3>1, <3>3
    <3>5. (i - 1) + 1 = i
      BY <1>7
    <3> QED
      BY <3>2, <3>4, <3>5
  <2> QED
    BY <2>1, <2>2
<1> QED
  BY <1>8, <1>9, <1>10, SignatureTells DEF s

\* Two rows with the same canonical form have the same number.
LEMMA CanonicalSeq ==
    ASSUME NEW r, NEW q, canonical(r) = canonical(q)
    PROVE  r.seq = q.seq
<1>1. canonical(r).seq = r.seq /\ canonical(q).seq = q.seq
  BY DEF canonical
<1> QED
  BY <1>1

\* The ingested rows up to number n, as signed.
LEMMA SignedFacts ==
    ASSUME NEW n \in 0..Length-1
    PROVE  Facts({ r \in SignedRows : r.seq <= n }) = { canonical(Payload(k)) : k \in 0..n }
<1> DEFINE row(i) == [building_id |-> "hall", ts |-> 2 * i, kw |-> 2, source |-> "sim",
                      seq |-> i, sig |-> sign_chain(i + 1)]
<1>1. SignedRows = { row(i) : i \in 0..Length-1 }
  BY DEF SignedRows
<1>2. \A i \in 0..Length-1 : row(i).seq = i /\ canonical(row(i)) = canonical(Payload(i))
  BY DEF canonical, Payload
<1> HIDE DEF row
<1>3. { r \in SignedRows : r.seq <= n } = { row(i) : i \in 0..n }
  <2>1. 0..n \subseteq 0..Length-1 /\ \A i \in 0..Length-1 : i <= n <=> i \in 0..n
    BY AuditAssumption
  <2> QED
    BY <1>1, <1>2, <2>1
<1>4. Facts({ row(i) : i \in 0..n }) = { canonical(row(i)) : i \in 0..n }
  BY DEF Facts
<1>5. \A i \in 0..n : i \in 0..Length-1
  BY AuditAssumption
<1> QED
  BY <1>2, <1>3, <1>4, <1>5

\* A clean report on any table the changes can produce.
LEMMA CleanIsHonest ==
    ASSUME AuditInv PROVE CleanMeansUntouched
<1> SUFFICES ASSUME Clean
             PROVE  \E n \in anchorSeq..Length-1 :
                        Facts(table) = Facts({ r \in SignedRows : r.seq <= n })
  BY DEF CleanMeansUntouched
<1> DEFINE s == Rows
<1>1. /\ s \in Seq(table) /\ Len(s) \in Nat /\ DOMAIN s = 1..Len(s)
      /\ \A r \in table : \E j \in DOMAIN s : s[j] = r
  BY TableIsKeyed, ReadChainSorts DEF Rows
<1>2. anchorSeq \in 0..Length-1
  BY DEF AuditInv
<1>3. verify_against_checkpoint(s, anchorSeq, sign_chain(anchorSeq + 1)) /\ (s # <<>> => Walk.ok)
  BY DEF Clean
<1>4. s # <<>>
  <2>1. ~(anchorSeq < 0)
    BY <1>2
  <2> QED
    BY <1>3, <2>1 DEF verify_against_checkpoint
<1>5. Len(s) \in Nat \ {0} /\ Len(s) \in 1..Len(s) /\ Len(s) \in DOMAIN s
  <2> HIDE DEF s
  <2> QED
    BY <1>1, <1>4
<1>6. table # {}
  BY <1>1, <1>5
<1>7. \A i \in 1..Len(s) : i \in 1..Length /\ canonical(s[i]) = canonical(Payload(i - 1))
  <2> SUFFICES ASSUME NEW i \in DOMAIN s
               PROVE  i \in 1..Length /\ canonical(s[i]) = canonical(Payload(i - 1))
    BY <1>1
  <2> QED
    BY <1>3, <1>4, <1>6, CleanWalkIsHistory
<1> HIDE DEF s
<1> DEFINE n == Len(s) - 1
<1>8. s[Len(s)].seq = n
  BY <1>5, <1>7, CanonicalSeq DEF Payload
<1>9. n \in anchorSeq..Length-1
  <2>1. s[Len(s)].seq >= anchorSeq
    BY <1>3, <1>4 DEF verify_against_checkpoint
  <2>2. Len(s) \in 1..Length
    BY <1>5, <1>7
  <2> QED
    BY <1>2, <1>8, <2>1, <2>2, AuditAssumption
<1>10. Facts(table) = { canonical(Payload(k)) : k \in 0..n }
  <2>1. Facts(table) = { canonical(s[i]) : i \in 1..Len(s) }
    BY <1>1 DEF Facts
  <2>2. \A i \in 1..Len(s) : i - 1 \in 0..n
    BY <1>1
  <2>3. \A k \in 0..n : k + 1 \in 1..Len(s) /\ (k + 1) - 1 = k
    BY <1>1
  <2>4. { canonical(s[i]) : i \in 1..Len(s) } \subseteq { canonical(Payload(k)) : k \in 0..n }
    BY <1>7, <2>2
  <2>5. { canonical(Payload(k)) : k \in 0..n } \subseteq { canonical(s[i]) : i \in 1..Len(s) }
    <3> SUFFICES ASSUME NEW k \in 0..n
                 PROVE  canonical(Payload(k)) \in { canonical(s[i]) : i \in 1..Len(s) }
      OBVIOUS
    <3>1. canonical(s[k + 1]) = canonical(Payload(k))
      BY <1>7, <2>3
    <3> QED
      BY <2>3, <3>1
  <2> QED
    BY <2>1, <2>4, <2>5
<1>11. n \in 0..Length-1
  BY <1>2, <1>9
<1> QED
  BY <1>9, <1>10, <1>11, SignedFacts

\* The walk of verify_chain on any table the changes can produce.
LEMMA WalkIsExact ==
    ASSUME AuditInv PROVE WalkMatchesIntact
  BY TableIsKeyed, WalkDecidesIntact DEF WalkMatchesIntact, Walk, Rows

----------------------------------------------------------------------------
(* The theorems *)

\* A clean integrity report (verify_chain and verify_against_checkpoint together) means
\* that what is stored is what was ingested, from the first row to at least the anchored
\* one, for a chain of any length and any sequence of updates, renumberings, copied
\* signatures and deletions.
THEOREM CleanReportIsHonest == Spec => []CleanMeansUntouched
<1>1. Spec => []AuditInv
  BY AuditInit, AuditStep, PTL DEF Spec
<1>2. AuditInv => CleanMeansUntouched
  BY CleanIsHonest
<1> QED
  BY <1>1, <1>2, PTL

\* verify_chain's verdict on a tampered table is exactly whether it is an intact chain.
THEOREM WalkIsAlwaysExact == Spec => []WalkMatchesIntact
<1>1. Spec => []AuditInv
  BY AuditInit, AuditStep, PTL DEF Spec
<1>2. AuditInv => WalkMatchesIntact
  BY WalkIsExact
<1> QED
  BY <1>1, <1>2, PTL
============================================================================
