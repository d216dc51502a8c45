------------------------------- MODULE Verify -------------------------------
(***************************************************************************)
(* The verify endpoint (verify_building_chain in gemp/services.py) running *)
(* in a request thread beside the ingester.  It reads the anchor file, the *)
(* checkpoint table and the rows one after the other, each as it is at     *)
(* that moment (the session reads committed data), and then judges them.   *)
(***************************************************************************)
EXTENDS Ingest

VARIABLES
    vpc,         \* where the request is
    target,      \* the building asked for
    seenAnchor,  \* newest anchored head, as a set of at most one
    seenStored,  \* newest head in integrity_checkpoint, likewise
    seenRows,    \* the chain as read
    report       \* the last response

verifyVars == <<vpc, target, seenAnchor, seenStored, seenRows, report>>
allVars == <<vars, verifyVars>>

\* Each field is True, False or None.
Report == [chain_ok : {"true", "false"}, checkpoint_ok : {"true", "false", "none"},
           anchor_matches_database : {"true", "false", "none"}]

NoReport == [chain_ok |-> "true", checkpoint_ok |-> "none",
             anchor_matches_database |-> "none"]

Truth(p) == IF p THEN "true" ELSE "false"

CheckpointOk(rows, cp) ==
    IF cp = {} THEN "none"
    ELSE LET e == CHOOSE e \in cp : TRUE
         IN  Truth(verify_against_checkpoint(rows, e.last_seq, e.head_sig))

\* No rows under an anchor that claims some is a truncated chain, not an empty one.
ChainOk(rows, cp) ==
    CASE rows # <<>>              -> Truth(verify_chain(rows, rows[1].seq).ok)
      [] rows = <<>> /\ cp = {}   -> "true"
      [] rows = <<>> /\ cp # {}   -> CheckpointOk(rows, cp)

AnchorMatches(cp, db) ==
    IF cp = {} \/ db = {} THEN "none"
    ELSE LET e == CHOOSE e \in cp : TRUE
             d == CHOOSE d \in db : TRUE
         IN  Truth(e.last_seq = d.last_seq /\ e.head_sig = d.head_sig)

Judge(cp, db, rows) ==
    [chain_ok |-> ChainOk(rows, cp), checkpoint_ok |-> CheckpointOk(rows, cp),
     anchor_matches_database |-> AnchorMatches(cp, db)]

----------------------------------------------------------------------------
ReadAnchor(b) ==
    /\ vpc = "idle"
    /\ target' = b
    /\ seenAnchor' = latest_checkpoint(anchor, b)
    /\ vpc' = "stored"
    /\ UNCHANGED <<vars, seenStored, seenRows, report>>

ReadStored ==
    /\ vpc = "stored"
    /\ seenStored' = latest_checkpoint(checkpoint, target)
    /\ vpc' = "rows"
    /\ UNCHANGED <<vars, target, seenAnchor, seenRows, report>>

ReadRows ==
    /\ vpc = "rows"
    /\ seenRows' = read_chain(reading, target)
    /\ vpc' = "judge"
    /\ UNCHANGED <<vars, target, seenAnchor, seenStored, report>>

EndRequest ==
    /\ vpc' = "idle"
    /\ seenAnchor' = {} /\ seenStored' = {} /\ seenRows' = <<>>
    /\ UNCHANGED <<vars, target>>

\* Mutant: the anchor is looked up when the rows are already in hand.
Respond_mutant ==
    /\ vpc = "judge"
    /\ report' = Judge(latest_checkpoint(anchor, target), seenStored, seenRows)
    /\ EndRequest

Respond ==
    /\ vpc = "judge"
    /\ report' = Judge(seenAnchor, seenStored, seenRows)
    /\ EndRequest

----------------------------------------------------------------------------
VerifyInit ==
    /\ Init
    /\ vpc = "idle" /\ target \in Building
    /\ seenAnchor = {} /\ seenStored = {} /\ seenRows = <<>> /\ report = NoReport

VerifyNext ==
    \/ Next /\ UNCHANGED verifyVars
    \/ \E b \in Building : ReadAnchor(b)
    \/ ReadStored \/ ReadRows \/ Respond

VerifySpec == VerifyInit /\ [][VerifyNext]_allVars

----------------------------------------------------------------------------
\* The endpoint never reports a break or a truncated tail in data nobody touched,
\* whatever the ingester stores, anchors, retries or forgets while the request runs:
\* the anchor is read before the rows, and rows only extend the chain.
NoFalseAlarm == report.chain_ok = "true" /\ report.checkpoint_ok # "false"
============================================================================
