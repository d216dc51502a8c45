------------------------- MODULE ContextCacheProofs -------------------------
(***************************************************************************)
(* ContextCache for every number of request threads, changes and failures: *)
(* its type invariant, and that requests see a nightly refit that ended.   *)
(***************************************************************************)
EXTENDS ContextCache, TLAPS

CInv == TypeOK /\ CacheConsistent

\* Contexts and the empty cache are told apart by the sign of the version.
LEMMA ContextFields ==
    ASSUME NEW x \in Context \cup {NoContext}
    PROVE  /\ x.hashed \in Int /\ x.other \in Int
           /\ x # NoContext <=> x \in Context
           /\ x \in Context => x.hashed \in Nat
  BY DEF Context, NoContext

\* At the start nothing is cached, published or held.
LEMMA InitConsistent == Init => CInv
<1> SUFFICES ASSUME Init PROVE CInv
  OBVIOUS
<1>1. TypeOK
  BY DEF Init, TypeOK, Context, NoContext, None
<1>2. CacheConsistent
  BY DEF Init, CacheConsistent, Locked, None, NoContext
<1> QED
  BY <1>1, <1>2 DEF CInv

\* Every step of a request thread, of the nightly refit, of a job or of an operator
\* keeps all variables in their types.
LEMMA StepType == TypeOK /\ [Next]_vars => TypeOK'
<1> SUFFICES ASSUME TypeOK, [Next]_vars PROVE TypeOK'
  OBVIOUS
<1> USE DEF TypeOK, requests, refits
<1>1. ASSUME NEW c \in Client, RequestStep(c) PROVE TypeOK'
  <2> USE DEF Locked, Step, Hold
  <2>1. CASE GetContext(c)
    BY <2>1 DEF GetContext
  <2>2. CASE Enter(c)
    BY <2>2 DEF Enter, Relook
  <2>3. CASE ReadInputs(c)
    BY <2>3 DEF ReadInputs
  <2>4. CASE Assign(c)
    BY <2>4 DEF Assign
  <2>5. CASE Respond(c)
    BY <2>5 DEF Respond
  <2>6. CASE Recompute(c)
    BY <2>6 DEF Recompute
  <2>7. CASE StoreCandidates(c)
    BY <2>7 DEF StoreCandidates, materialize_candidates
  <2>8. CASE RequestFails(c)
    BY <2>8 DEF RequestFails
  <2> QED
    BY <1>1, <2>1, <2>2, <2>3, <2>4, <2>5, <2>6, <2>7, <2>8 DEF RequestStep
<1>2. CASE NightlyStart
  BY <1>2 DEF NightlyStart, Nightly
<1>3. CASE NightlyWrite
  BY <1>3 DEF NightlyWrite, Fits, Nightly, Context
<1>4. CASE NightlyBuild
  BY <1>4 DEF NightlyBuild, Nightly
<1>5. CASE NightlyStore
  BY <1>5 DEF NightlyStore, Nightly, materialize_candidates
<1>6. CASE NightlyReset
  BY <1>6 DEF NightlyReset, NightlyEnds, Nightly
<1>7. CASE NightlyFails
  BY <1>7 DEF NightlyFails, Nightly
<1>8. ASSUME NEW kind \in {"refit", "evidence"}, JobStart(kind) PROVE TypeOK'
  BY <1>8 DEF JobStart
<1>9. CASE JobWrite
  BY <1>9 DEF JobWrite, Fits, Context
<1>10. CASE JobEnd
  BY <1>10 DEF JobEnd
<1>11. CASE Edit
  BY <1>11 DEF Edit, Context
<1>12. CASE UNCHANGED vars
  BY <1>12 DEF vars
<1> QED
  BY <1>1, <1>2, <1>3, <1>4, <1>5, <1>6, <1>7, <1>8, <1>9, <1>10, <1>11, <1>12
  DEF Next, NightlyStep

\* Steps that only move the inputs forward or leave request threads, cache and
\* published figures alone keep the consistency.
LEMMA Quietly ==
    ASSUME CInv, TypeOK',
           UNCHANGED <<cache, requests, published>>,
           inputs'.hashed >= inputs.hashed,
           nightly' \in {"build", "store", "reset"} =>
               published.nightly <= fitted'.nightly /\ fitted'.nightly <= inputs'.hashed
    PROVE  CacheConsistent'
  BY DEF CInv, CacheConsistent, TypeOK, Context, requests

\* A request thread keeps it: it enters the lock only when no other thread is inside,
\* and what it reads there is at least as new as what is published.
LEMMA RequestConsistent ==
    ASSUME CInv, TypeOK', NEW c \in Client, RequestStep(c)
    PROVE  CacheConsistent'
<1> USE DEF CInv, TypeOK, refits, Step, Hold
<1>0. \A x \in Context \cup {NoContext} : x # NoContext => x \in Context /\ x.hashed \in Nat
  BY ContextFields
<1>1. CASE GetContext(c)
  BY <1>0, <1>1 DEF GetContext, CacheConsistent, Locked
<1>2. CASE Enter(c)
  BY <1>0, <1>2 DEF Enter, Relook, LockFree, CacheConsistent, Locked
<1>3. CASE ReadInputs(c)
  BY <1>3 DEF ReadInputs, CacheConsistent, Locked
<1>4. CASE Assign(c)
  <2>1. /\ pc[c] \in {"assign", "recompute_assign"} /\ pc'[c] \in {"solve", "store"}
        /\ \A d \in Client : d # c => pc'[d] = pc[d] /\ pc[d] \notin Locked
    BY <1>4 DEF Assign, CacheConsistent, Locked
  <2>2. /\ ctx[c] \in Context /\ ctx[c].hashed >= published.nightly
        /\ due[c].nightly <= published.nightly
    BY <2>1 DEF CacheConsistent
  <2>3. ctx[c].hashed \in Nat /\ published.nightly \in Nat /\ due[c].nightly \in Nat
    BY <2>2 DEF Context
  <2>4. ctx[c].hashed >= due[c].nightly
    BY <2>2, <2>3
  <2>5. UNCHANGED <<inputs, ctx, due, published, fitted, nightly>> /\ cache' = ctx[c]
    BY <1>4 DEF Assign
  <2> QED
    BY <2>1, <2>2, <2>4, <2>5 DEF CacheConsistent, Locked
<1>5. CASE Respond(c)
  BY <1>5 DEF Respond, CacheConsistent, Locked
<1>6. CASE Recompute(c)
  BY <1>6 DEF Recompute, LockFree, CacheConsistent, Locked
<1>7. CASE StoreCandidates(c)
  BY <1>7 DEF StoreCandidates, CacheConsistent, Locked
<1>8. CASE RequestFails(c)
  BY <1>8 DEF RequestFails, CacheConsistent, Locked
<1> QED
  BY <1>1, <1>2, <1>3, <1>4, <1>5, <1>6, <1>7, <1>8 DEF RequestStep

\* So does every other step; the one that matters is reset_context, which empties the
\* cache at a moment when no thread holds a context it has yet to assign.
LEMMA StepConsistent == CInv /\ [Next]_vars => CacheConsistent'
<1> SUFFICES ASSUME CInv, [Next]_vars PROVE CacheConsistent'
  OBVIOUS
<1>t. TypeOK'
  BY StepType DEF CInv
<1>i. inputs.hashed \in Nat /\ published.nightly <= inputs.hashed
  BY DEF CInv, CacheConsistent, TypeOK, Context
<1>1. ASSUME NEW c \in Client, RequestStep(c) PROVE CacheConsistent'
  BY <1>t, <1>1, RequestConsistent
<1> USE DEF refits
<1>2. CASE NightlyStart \/ NightlyBuild \/ NightlyStore \/ NightlyFails
  BY <1>t, <1>i, <1>2, Quietly
  DEF CInv, CacheConsistent, NightlyStart, NightlyBuild, NightlyStore, NightlyFails, Nightly
<1>3. CASE NightlyWrite
  <2>1. inputs'.hashed >= inputs.hashed /\ fitted'.nightly = inputs'.hashed
    BY <1>i, <1>3 DEF NightlyWrite, Fits, CInv, TypeOK, Context
  <2> QED
    BY <1>t, <1>i, <1>3, <2>1, Quietly DEF NightlyWrite, TypeOK, Context
<1>4. CASE NightlyReset
  BY <1>t, <1>4
  DEF NightlyReset, NightlyEnds, Nightly, LockFree, CInv, CacheConsistent, TypeOK, Locked,
      requests
<1>5. ASSUME NEW kind \in {"refit", "evidence"}, JobStart(kind) PROVE CacheConsistent'
  BY <1>t, <1>i, <1>5, Quietly DEF JobStart, CInv, CacheConsistent
<1>6. CASE JobWrite
  <2>1. inputs'.hashed >= inputs.hashed /\ fitted'.nightly = fitted.nightly
    BY <1>i, <1>6 DEF JobWrite, Fits, CInv, TypeOK, Context
  <2> QED
    BY <1>t, <1>i, <1>6, <2>1, Quietly DEF JobWrite, CInv, CacheConsistent, TypeOK, Context
<1>7. CASE JobEnd
  <2>1. published'.nightly = published.nightly
    BY <1>7 DEF JobEnd, CInv, TypeOK
  <2> QED
    BY <1>7, <2>1 DEF JobEnd, CInv, CacheConsistent, requests
<1>8. CASE Edit
  <2>1. inputs'.hashed >= inputs.hashed
    BY <1>i, <1>8 DEF Edit, CInv, TypeOK, Context
  <2> QED
    BY <1>t, <1>i, <1>8, <2>1, Quietly DEF Edit, CInv, CacheConsistent, TypeOK, Context
<1>9. CASE UNCHANGED vars
  BY <1>t, <1>i, <1>9, Quietly DEF vars, CInv, CacheConsistent
<1> QED
  BY <1>1, <1>2, <1>3, <1>4, <1>5, <1>6, <1>7, <1>8, <1>9 DEF Next, NightlyStep

\* The cache, the threads inside the lock and the published figures fit together at
\* every point of any interleaving of requests, recomputes, refits, jobs and edits.
THEOREM CacheStaysConsistent == Spec => []CInv
<1>1. CInv /\ [Next]_vars => CInv'
  BY StepType, StepConsistent DEF CInv
<1> QED
  BY InitConsistent, <1>1, PTL DEF Spec

\* A request that begins after a nightly refit has ended solves against figures at
\* least as new as the refit's.
THEOREM NightlyReachesRequests == Spec => []RequestsSeeNightly
<1>1. CInv => RequestsSeeNightly
  BY DEF CInv, CacheConsistent, RequestsSeeNightly
<1> QED
  BY <1>1, CacheStaysConsistent, PTL

\* get_context never builds over a context that is in use.
THEOREM ColdBuildsOnly == Spec => []BuiltOnlyWhenCold
<1>1. CInv => BuiltOnlyWhenCold
  BY DEF CInv, CacheConsistent, BuiltOnlyWhenCold
<1> QED
  BY <1>1, CacheStaysConsistent, PTL
============================================================================
