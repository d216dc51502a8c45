----------------------------- MODULE ChainAudit -----------------------------
(***************************************************************************)
(* What the integrity report is for: the rows of one building are signed   *)
(* (sign_chain), its head is anchored at some point, and then rows are     *)
(* changed in the table itself, any column of a row - its signature to     *)
(* another stored one - or deleted, without a new signature being made.    *)
(* The report is the one of Verify, computed on what is left.              *)
(***************************************************************************)
EXTENDS Integrity

CONSTANTS
    Length,      \* rows in the chain
    Instant,     \* instants a changed row may carry
    Power,       \* powers likewise
    MaxEdits     \* bound: changes made

ASSUME AuditAssumption ==
    /\ Length \in Nat \ {0} /\ MaxEdits \in Nat
    /\ Instant \subseteq Nat /\ Power \subseteq Nat

VARIABLES table,     \* the stored rows now
          anchorSeq, \* last_seq of the anchored head
          edits      \* the kinds of change made so far

auditVars == <<table, anchorSeq, edits>>

Payload(i) == [building_id |-> "hall", ts |-> 2 * i, kw |-> 2, source |-> "sim", seq |-> i]

\* sign_chain over the first n rows, each signed from the signature before it: the last
\* of its signatures commits to all of them.
sign_chain(n) == [i \in 1..n |-> canonical(Payload(i - 1))]

SignedRows == { [building_id |-> "hall", ts |-> 2 * i, kw |-> 2, source |-> "sim",
                 seq |-> i, sig |-> sign_chain(i + 1)] : i \in 0..Length-1 }

Init ==
    /\ table = SignedRows
    /\ anchorSeq \in 0..Length-1
    /\ edits = <<>>

Replace(r, q, kind) ==
    /\ Len(edits) < MaxEdits
    /\ q # r
    /\ table' = (table \ {r}) \cup {q}
    /\ edits' = Append(edits, kind)
    /\ UNCHANGED anchorSeq

SetPower(r) == \E k \in Power : Replace(r, [r EXCEPT !.kw = k], "update")
SetInstant(r) ==
    \E t \in Instant : /\ \A q \in table : q.ts # t      \* the primary key
                       /\ Replace(r, [r EXCEPT !.ts = t], "update")
SetSeq(r) == \E n \in 0..Length : Replace(r, [r EXCEPT !.seq = n], "update")
CopySignature(r) == \E q \in SignedRows : Replace(r, [r EXCEPT !.sig = q.sig], "update")
Delete(r) ==
    /\ Len(edits) < MaxEdits
    /\ table' = table \ {r}
    /\ edits' = Append(edits, "delete")
    /\ UNCHANGED anchorSeq

Next == \E r \in table :
            SetPower(r) \/ SetInstant(r) \/ SetSeq(r) \/ CopySignature(r) \/ Delete(r)

Spec == Init /\ [][Next]_auditVars

----------------------------------------------------------------------------
Rows == read_chain(table, "hall")

\* verify_building_chain's two verdicts.
Walk == verify_chain(Rows, Rows[1].seq)
Clean == /\ verify_against_checkpoint(Rows, anchorSeq, sign_chain(anchorSeq + 1))
         /\ Rows # <<>> => Walk.ok

\* What the table says as far as it is signed.
Facts(rows) == { canonical(r) : r \in rows }

\* A clean report means that the signed content is what was ingested, from the first
\* row to at least the anchored one: no combination of changed values, renumbered,
\* swapped, deleted or copied rows passes the walk and the anchor together.
CleanMeansUntouched ==
    Clean => \E n \in anchorSeq..Length-1 :
                 Facts(table) = Facts({ r \in SignedRows : r.seq <= n })

\* The walk agrees with what an intact chain is: no row of a clean walk is unlinked,
\* and a chain from zero without unlinked or doubled rows walks clean.
WalkMatchesIntact ==
    table # {} => ((Walk.ok /\ Rows[1].seq = 0) <=> IntactChain(table))
============================================================================
