---------------------------- MODULE ContextCache ----------------------------
(***************************************************************************)
(* The API's cached OptimizerContext (gemp/api/main.py) and everything that*)
(* changes what it is derived from: the nightly refit in the scheduler's   *)
(* thread (gemp/scheduler.py), the refit an administrator starts as a      *)
(* subprocess (gemp/api/jobs.py), edits of the portfolio and the catalog,  *)
(* and the endpoint that recomputes the candidate table.                   *)
(*                                                                         *)
(* A context is identified with the inputs it was built from.  Inputs are  *)
(* versions: `hashed` of what inputs_hash covers, `other` of the building  *)
(* attributes that shape a candidate and that it leaves out (glazing area, *)
(* roof orientation, hourly load shape).                                   *)
(***************************************************************************)
EXTENDS Integers

CONSTANTS
    Client,       \* request threads
    MaxChanges,   \* bound: versions of what is hashed, and of what is not
    MaxFailures   \* bound: exceptions

ASSUME CacheAssumption == MaxChanges \in Nat /\ MaxFailures \in Nat

VARIABLES
    inputs,     \* the portfolio, catalog and parameters as committed
    table,      \* table candidate: the inputs its rows were derived from
    cache,      \* _context
    pc, ctx,    \* each request thread: where it is, the context it holds
    nightly,    \* where nightly_refit is
    draft,      \* the context nightly_refit has built
    job,        \* the running job: its kind, or "none"
    fitted,     \* history: the version each of the two refits last wrote
    published,  \* history: the same, once that refit had ended
    due,        \* history: `published` when the thread's request began
    failures

requests == <<pc, ctx, due>>
refits   == <<nightly, draft, job, fitted, published>>
vars == <<inputs, table, cache, requests, refits, failures>>

Context   == [hashed : Nat, other : Nat]
NoContext == [hashed |-> -1, other |-> -1]
None      == [nightly |-> 0, job |-> 0]

Changes == IF inputs.hashed > inputs.other THEN inputs.hashed ELSE inputs.other

\* _context_lock is held by the thread that is inside `with _context_lock`.
Locked   == {"read", "assign", "recompute_read", "recompute_assign"}
LockFree == \A c \in Client : pc[c] \notin Locked

Step(c, from, to) == pc[c] = from /\ pc' = [pc EXCEPT ![c] = to]
Hold(c, context)  == ctx' = [ctx EXCEPT ![c] = context]

----------------------------------------------------------------------------
(* get_context *)

\* The first look, without the lock: one test and one load of a global, between which
\* the interpreter does not switch threads.
GetContext(c) ==
    /\ IF cache # NoContext
       THEN Step(c, "idle", "solve") /\ Hold(c, cache)
       ELSE Step(c, "idle", "wait") /\ UNCHANGED ctx
    /\ due' = [due EXCEPT ![c] = published]
    /\ UNCHANGED <<inputs, table, cache, refits, failures>>

\* Mutant: no second look under the lock.
Relook_mutant(c) == LockFree /\ Step(c, "wait", "read") /\ UNCHANGED ctx

\* Under the lock it looks again.
Relook(c) ==
    /\ LockFree
    /\ IF cache # NoContext
       THEN Step(c, "wait", "solve") /\ Hold(c, cache)
       ELSE Step(c, "wait", "read") /\ UNCHANGED ctx

Enter(c) == Relook(c) /\ UNCHANGED <<inputs, table, cache, due, refits, failures>>

\* OptimizerContext.from_db: the inputs are read, then expanded.
ReadInputs(c) ==
    /\ \/ Step(c, "read", "assign")
       \/ Step(c, "recompute_read", "recompute_assign")
    /\ Hold(c, inputs)
    /\ UNCHANGED <<inputs, table, cache, due, refits, failures>>

\* The assignment, and the lock is released.
Assign(c) ==
    /\ \/ Step(c, "assign", "solve")
       \/ Step(c, "recompute_assign", "store")
    /\ cache' = ctx[c]
    /\ UNCHANGED <<inputs, table, ctx, due, refits, failures>>

Respond(c) ==
    /\ Step(c, "solve", "idle")
    /\ Hold(c, NoContext)
    /\ UNCHANGED <<inputs, table, cache, due, refits, failures>>

----------------------------------------------------------------------------
(* recompute_candidates, and materialize_candidates *)

Recompute(c) ==
    /\ LockFree
    /\ Step(c, "idle", "recompute_read")
    /\ UNCHANGED <<inputs, table, cache, ctx, due, refits, failures>>

\* Rows of another hash are deleted; rows of this hash that are there stay as they are.
materialize_candidates(context) ==
    table' = IF table.hashed = context.hashed THEN table ELSE context

\* After the lock is released.
StoreCandidates(c) ==
    /\ Step(c, "store", "idle")
    /\ materialize_candidates(ctx[c])
    /\ Hold(c, NoContext)
    /\ UNCHANGED <<inputs, cache, due, refits, failures>>

\* The database raises; the lock is released on the way out.
RequestFails(c) ==
    /\ \E from \in {"read", "recompute_read", "store"} : Step(c, from, "idle")
    /\ Hold(c, NoContext)
    /\ failures < MaxFailures
    /\ failures' = failures + 1
    /\ UNCHANGED <<inputs, table, cache, due, refits>>

----------------------------------------------------------------------------
(* nightly_refit *)

Nightly(from, to) == nightly = from /\ nightly' = to

\* _update_annual_kwh writes the figures, which are hashed, and the load shapes, which are not.
Fits == inputs' = [hashed |-> inputs.hashed + 1, other |-> inputs.other + 1]

NightlyStart ==
    /\ Nightly("idle", "fit")
    /\ UNCHANGED <<inputs, table, cache, requests, draft, job, fitted, published, failures>>

\* run_nightly: _update_annual_kwh commits new figures, or there was nothing to fit.
NightlyWrite ==
    /\ Nightly("fit", "build")
    /\ \/ /\ Changes < MaxChanges
          /\ Fits
       \/ UNCHANGED inputs
    /\ fitted' = [fitted EXCEPT !.nightly = inputs'.hashed]
    /\ UNCHANGED <<table, cache, requests, draft, job, published, failures>>

NightlyBuild ==
    /\ Nightly("build", "store")
    /\ draft' = inputs
    /\ UNCHANGED <<inputs, table, cache, requests, job, fitted, published, failures>>

NightlyStore ==
    /\ Nightly("store", "reset")
    /\ materialize_candidates(draft)
    /\ UNCHANGED <<inputs, cache, requests, draft, job, fitted, published, failures>>

NightlyEnds ==
    /\ Nightly("reset", "idle")
    /\ cache' = NoContext
    /\ published' = [published EXCEPT !.nightly = fitted.nightly]
    /\ draft' = NoContext
    /\ UNCHANGED <<inputs, table, requests, job, fitted, failures>>

\* Mutant: the cache is dropped without the lock.
NightlyReset_mutant == NightlyEnds

\* reset_context waits for the lock.
NightlyReset == LockFree /\ NightlyEnds

\* An exception ends the run where it stands; the scheduler logs it.
NightlyFails ==
    /\ \E from \in {"fit", "build", "store"} : Nightly(from, "idle")
    /\ failures < MaxFailures
    /\ failures' = failures + 1
    /\ draft' = NoContext
    /\ UNCHANGED <<inputs, table, cache, requests, job, fitted, published>>

----------------------------------------------------------------------------
(* jobs.start and jobs._run *)

JobStart(kind) ==
    /\ job = "none"
    /\ job' = kind
    /\ UNCHANGED <<inputs, table, cache, requests, nightly, draft, fitted, published,
                   failures>>

\* The subprocess of the refit job commits its figures.
JobWrite ==
    /\ job = "refit"
    /\ Changes < MaxChanges
    /\ Fits
    /\ fitted' = [fitted EXCEPT !.job = inputs'.hashed]
    /\ job' = "refit_written"
    /\ UNCHANGED <<table, cache, requests, nightly, draft, published, failures>>

\* The subprocess exits, with whatever code, or is given up.
JobEnd ==
    /\ job # "none"
    /\ published' = IF job = "refit_written" THEN [published EXCEPT !.job = fitted.job]
                    ELSE published
    /\ job' = "none"
    /\ UNCHANGED <<inputs, table, cache, requests, nightly, draft, fitted, failures>>

\* An operator edits data/ or reimports the portfolio.
Edit ==
    /\ Changes < MaxChanges
    /\ \/ inputs' = [inputs EXCEPT !.hashed = @ + 1]
       \/ inputs' = [inputs EXCEPT !.other = @ + 1]
    /\ UNCHANGED <<table, cache, requests, refits, failures>>

----------------------------------------------------------------------------
Init ==
    /\ inputs = [hashed |-> 0, other |-> 0] /\ table = NoContext /\ cache = NoContext
    /\ pc = [c \in Client |-> "idle"] /\ ctx = [c \in Client |-> NoContext]
    /\ due = [c \in Client |-> None]
    /\ nightly = "idle" /\ draft = NoContext /\ job = "none"
    /\ fitted = None /\ published = None
    /\ failures = 0

RequestStep(c) ==
    \/ GetContext(c) \/ Enter(c) \/ ReadInputs(c) \/ Assign(c) \/ Respond(c)
    \/ Recompute(c) \/ StoreCandidates(c) \/ RequestFails(c)

NightlyStep ==
    \/ NightlyStart \/ NightlyWrite \/ NightlyBuild \/ NightlyStore
    \/ NightlyReset \/ NightlyFails

Next ==
    \/ \E c \in Client : RequestStep(c)
    \/ NightlyStep
    \/ \E kind \in {"refit", "evidence"} : JobStart(kind)
    \/ JobWrite \/ JobEnd
    \/ Edit

Spec == Init /\ [][Next]_vars

----------------------------------------------------------------------------
(* Properties *)

\* Every variable holds a value of its kind; a thread holds a context or none.
TypeOK ==
    /\ inputs \in Context
    /\ {table, cache, draft} \subseteq Context \cup {NoContext}
    /\ pc \in [Client -> {"idle", "wait", "solve", "store"} \cup Locked]
    /\ ctx \in [Client -> Context \cup {NoContext}]
    /\ due \in [Client -> [nightly : Nat, job : Nat]]
    /\ fitted \in [nightly : Nat, job : Nat] /\ published \in [nightly : Nat, job : Nat]
    /\ nightly \in {"idle", "fit", "build", "store", "reset"}
    /\ job \in {"none", "refit", "refit_written", "evidence"}
    /\ failures \in Nat

\* One thread at a time is inside the lock; what it has read, and what is cached, is no
\* older than the last nightly refit that ended; and a nightly refit that is past its
\* write will not publish anything older than what is published already.
CacheConsistent ==
    /\ \A c, d \in Client : pc[c] \in Locked /\ pc[d] \in Locked => c = d
    /\ \A c \in Client : pc[c] \in {"read", "assign"} => cache = NoContext
    /\ cache # NoContext => cache.hashed >= published.nightly
    /\ \A c \in Client :
          pc[c] \in {"assign", "recompute_assign"} =>
              ctx[c] \in Context /\ ctx[c].hashed >= published.nightly
    /\ \A c \in Client : due[c].nightly <= published.nightly
    /\ \A c \in Client : pc[c] = "solve" => ctx[c].hashed >= due[c].nightly
    /\ published.nightly <= inputs.hashed
    /\ nightly \in {"build", "store", "reset"} =>
          published.nightly <= fitted.nightly /\ fitted.nightly <= inputs.hashed

\* A request that begins once a nightly refit has ended solves against figures at least
\* as new as that refit's, whichever build or recompute was under way while it ended:
\* nobody is served "recommendations costed against yesterday's consumption".
RequestsSeeNightly ==
    \A c \in Client : pc[c] = "solve" => ctx[c].hashed >= due[c].nightly

\* A context that requests may be solving against is never built over: a cold request
\* builds only while there is none, however many arrive together.
BuiltOnlyWhenCold == \A c \in Client : pc[c] \in {"read", "assign"} => cache = NoContext
============================================================================
