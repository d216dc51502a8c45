----------------------------- MODULE SolveSlots -----------------------------
(***************************************************************************)
(* Requests that solve (optimize, compare_solvers and solve_slot in        *)
(* gemp/api/main.py, run_optimization in gemp/services.py).  Such a        *)
(* request holds one of a fixed number of slots for the machine and counts *)
(* against a lower number for its account; nobody waits, one that gets no  *)
(* slot is refused.  Count and semaphore are taken and given back one      *)
(* after the other, in request threads that interleave.  A run that is to  *)
(* be kept is stored inside the slot, and its id returned after it.        *)
(***************************************************************************)
EXTENDS Integers, FiniteSets

CONSTANTS
    Request,       \* request threads
    Account,       \* usernames
    Cores,         \* os.cpu_count()
    MaxRuns        \* bound: runs stored

\* No request under way.
Nobody == "nobody"

ASSUME SlotsAssumption ==
    /\ Cores \in Nat \ {0}
    /\ IsFiniteSet(Request)
    /\ Nobody \notin Account
    /\ MaxRuns \in Nat

\* max(1, min(4, cores // 2)) and max(1, MAX_CONCURRENT_SOLVES // 2).
MAX_CONCURRENT_SOLVES ==
    CASE Cores \div 2 < 1 -> 1
      [] Cores \div 2 > 4 -> 4
      [] OTHER            -> Cores \div 2
MAX_SOLVES_PER_PRINCIPAL ==
    IF MAX_CONCURRENT_SOLVES \div 2 < 1 THEN 1 ELSE MAX_CONCURRENT_SOLVES \div 2

VARIABLES
    slots,     \* _solve_slots: how many are free
    inflight,  \* _inflight_solves; 0 stands for no entry
    pc,        \* each request thread
    who,       \* the account of its request
    stored,    \* tables optimization_run and allocation: ids of complete runs
    given,     \* how many ids have been made
    made,      \* per request, the id it will return, or 0
    held       \* ids the clients were given

slotVars  == <<slots, inflight, pc, who, stored, given, made, held>>
runs  == <<stored, given, made, held>>

Goto(r, from, to) == pc[r] = from /\ pc' = [pc EXCEPT ![r] = to]

\* The entry of the account is lowered, and removed at zero.
Lower(a) == inflight' = [inflight EXCEPT ![a] = IF @ - 1 <= 0 THEN 0 ELSE @ - 1]

\* Mutant: the account's limit is not looked at.
Count_mutant(r, a) ==
    /\ Goto(r, "idle", "acquire")
    /\ who' = [who EXCEPT ![r] = a]
    /\ inflight' = [inflight EXCEPT ![a] = @ + 1]
    /\ UNCHANGED <<slots, runs>>

\* Under _inflight_lock: at the account's limit the request is refused and nothing
\* changes, below it the request is counted.
Count(r, a) ==
    /\ inflight[a] < MAX_SOLVES_PER_PRINCIPAL
    /\ Goto(r, "idle", "acquire")
    /\ who' = [who EXCEPT ![r] = a]
    /\ inflight' = [inflight EXCEPT ![a] = @ + 1]
    /\ UNCHANGED <<slots, runs>>

\* _solve_slots.acquire(blocking=False)
Acquire(r) ==
    /\ IF slots > 0
       THEN Goto(r, "acquire", "solve") /\ slots' = slots - 1
       ELSE Goto(r, "acquire", "refused") /\ UNCHANGED slots
    /\ UNCHANGED <<inflight, who, runs>>

\* Mutant: a request the machine refuses stays counted.
Refuse_mutant(r) ==
    /\ Goto(r, "refused", "idle")
    /\ who' = [who EXCEPT ![r] = Nobody]
    /\ UNCHANGED <<slots, inflight, runs>>

\* The count is given back before the 429.
Refuse(r) ==
    /\ Goto(r, "refused", "idle")
    /\ Lower(who[r])
    /\ who' = [who EXCEPT ![r] = Nobody]
    /\ UNCHANGED <<slots, runs>>

\* The solve of a request that keeps its run returns.
SolveToKeep(r) ==
    /\ given < MaxRuns
    /\ Goto(r, "solve", "store")
    /\ UNCHANGED <<slots, inflight, who, runs>>

\* The solve raises, or the run is not kept: compare_solvers solves with every solver
\* in one slot and keeps none.
SolveOnly(r) ==
    /\ Goto(r, "solve", "release")
    /\ UNCHANGED <<slots, inflight, who, runs>>

\* Mutant: the commit is left to the end of the request, after the response.
StoreRun_mutant(r) ==
    /\ Goto(r, "store", "release")
    /\ given' = given + 1
    /\ made' = [made EXCEPT ![r] = given + 1]
    /\ UNCHANGED <<slots, inflight, who, stored, held>>

\* The run and its allocations are one transaction, committed before the id is returned.
StoreRun(r) ==
    /\ Goto(r, "store", "release")
    /\ given' = given + 1
    /\ made' = [made EXCEPT ![r] = given + 1]
    /\ stored' = stored \cup {given + 1}
    /\ UNCHANGED <<slots, inflight, who, held>>

\* Nothing is stored and no id returned; the slot is given back all the same.
StoreFails(r) ==
    /\ Goto(r, "store", "release")
    /\ UNCHANGED <<slots, inflight, who, runs>>

\* Mutant: the slot is not given back.
Release_mutant(r) ==
    /\ Goto(r, "release", "uncount")
    /\ UNCHANGED <<slots, inflight, who, runs>>

\* `finally` gives the slot back ...
Release(r) ==
    /\ Goto(r, "release", "uncount")
    /\ slots' = slots + 1
    /\ UNCHANGED <<inflight, who, runs>>

\* ... and then the count; the response carries the id of the run if one was made.
Uncount(r) ==
    /\ Goto(r, "uncount", "idle")
    /\ Lower(who[r])
    /\ held' = held \cup ({made[r]} \ {0})
    /\ made' = [made EXCEPT ![r] = 0]
    /\ who' = [who EXCEPT ![r] = Nobody]
    /\ UNCHANGED <<slots, stored, given>>

SlotsInit ==
    /\ slots = MAX_CONCURRENT_SOLVES
    /\ inflight = [a \in Account |-> 0]
    /\ pc = [r \in Request |-> "idle"]
    /\ who = [r \in Request |-> Nobody]
    /\ stored = {} /\ given = 0 /\ made = [r \in Request |-> 0] /\ held = {}

SlotsNext == \E r \in Request :
            \/ Acquire(r) \/ Refuse(r) \/ Release(r) \/ Uncount(r)
            \/ SolveToKeep(r) \/ SolveOnly(r) \/ StoreRun(r) \/ StoreFails(r)
            \/ \E a \in Account : Count(r, a)

SlotsSpec == SlotsInit /\ [][SlotsNext]_slotVars

\* get_run finds the run and its allocations, or read_run answers 404.
get_run(id) == id \in stored

----------------------------------------------------------------------------
(* Properties *)

Solving == { r \in Request : pc[r] \in {"solve", "store", "release"} }
Of(a)   == { r \in Request : who[r] = a }

\* However requests of several accounts are granted, refused and finished in between,
\* no slot leaks and none is made up, and an account's entry is exactly its requests
\* under way: it is gone when they are, and nobody is locked out by requests that ended.
SlotsAccounted ==
    /\ slots >= 0 /\ slots + Cardinality(Solving) = MAX_CONCURRENT_SOLVES
    /\ \A a \in Account : inflight[a] = Cardinality(Of(a))

\* "Without it, one analyst scripting the endpoint keeps every slot permanently busy":
\* with it, no account holds the whole pool.
NoMonopoly ==
    \A a \in Account :
        Cardinality({ r \in Solving : who[r] = a }) < MAX_CONCURRENT_SOLVES

\* "A run_id must not leave this function until the run it names is durable": whatever
\* id a client holds, read_run, map_geojson and run_boq find it.
HeldRunsReadable == \A id \in held : get_run(id)
============================================================================
