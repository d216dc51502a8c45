------------------------------ MODULE Station -------------------------------
(***************************************************************************)
(* The simulator (gemp/sim/node.py) and what it asks the API: /health with *)
(* its two-second cache (gemp/api/main.py).  A run begins where /health    *)
(* says the stored data end, publishes one reading per building and step,  *)
(* begins faults and writes them into a ground-truth file, and may end     *)
(* anywhere; its container starts it again.                                *)
(*                                                                         *)
(* Broker and ingester, which modules Ingest and ReadingLog are about, are *)
(* one queue here: readings wait in it, are stored in order, late ones are *)
(* skipped, and those in the memory of a process that ends are lost.  Time *)
(* counts steps of 15 minutes of data time; 0 stands for None.             *)
(***************************************************************************)
EXTENDS Integers, Sequences, FiniteSets, SequencesExt, FiniteSetsExt

CONSTANTS
    Buildings,     \* the portfolio, a sequence
    Prober,        \* other callers of /health
    MaxTs,         \* bound: data time
    SeedEnds,      \* where the seeded history may end
    FaultSteps,    \* how long a fault lasts
    ATTEMPTS,      \* of resume_point
    Budgets        \* bounds: how often each kind of event happens

ASSUME StationAssumption ==
    /\ Buildings \in Seq(Range(Buildings)) /\ Len(Buildings) > 0 /\ IsInjective(Buildings)
    /\ MaxTs \in Nat /\ SeedEnds \subseteq 1..MaxTs
    /\ FaultSteps \in Nat \ {0} /\ ATTEMPTS \in Nat \ {0}
    /\ "sim" \notin Prober

Building == Range(Buildings)
Ts       == 1..MaxTs
Caller   == Prober \cup {"sim"}

VARIABLES
    wall,      \* the clock
    clamped,   \* GEMP_SIM_CLAMP_TO_WALL_CLOCK
    stored,    \* table reading
    flight,    \* published and not yet stored
    sim,       \* the simulator process
    truth,     \* live_anomalies.jsonl
    cache,     \* _health_cache
    fresh,     \* the cached answer is younger than HEALTH_TTL_S
    lock,      \* holder of _health_lock
    probe,     \* calls of /health
    left,      \* what the bounds still allow
    gone       \* history: readings lost on the way, cut off by the end of a run in the
               \* middle of a round, or older than a deployment without any data

vars == <<wall, clamped, stored, flight, sim, truth, cache, fresh, lock, probe, left, gone>>
health_state == <<cache, fresh, lock, probe>>

Spend(f) == left[f] > 0 /\ left' = [left EXCEPT ![f] = @ - 1]

StoredTs(b) == { r.ts : r \in { s \in stored : s.b = b } }
latest_reading_ts == Max({0} \cup { r.ts : r \in stored })

\* `known` is history: the newest stored reading when the answer was computed.
Answer   == [code : {200, 503}, readings : 0..MaxTs, known : 0..MaxTs]
NoAnswer == [code |-> 0, readings |-> 0, known |-> 0]

Down     == [pc |-> "down", tries |-> 0]
NoFaults == [b \in Building |-> 0]

----------------------------------------------------------------------------
(* resume_point *)

\* The container (re)starts the process.
SimStart ==
    /\ sim.pc = "down" /\ Spend("start")
    /\ sim' = [pc |-> "asking", tries |-> 0]
    /\ UNCHANGED <<wall, clamped, stored, flight, truth, health_state, gone>>

\* One attempt more has failed; after the last the process ends.
Retry == IF sim.tries + 1 < ATTEMPTS THEN [sim EXCEPT !.tries = @ + 1] ELSE Down

\* Refused, or unreachable; an answer that is no HTTP is an exception nobody catches.
AskFails ==
    /\ sim.pc = "asking" /\ probe["sim"].pc = "idle" /\ Spend("outage")
    /\ sim' \in {Retry, Down}
    /\ UNCHANGED <<wall, clamped, stored, flight, truth, health_state, gone>>

\* The timeout of urlopen.  The call goes on in the API without its caller, as any
\* other one of p.
AskTimesOut(p) ==
    /\ probe["sim"].pc # "idle" /\ probe[p].pc = "idle" /\ Spend("outage")
    /\ sim' = Retry
    /\ probe' = [probe EXCEPT ![p] = probe["sim"], !["sim"] = [pc |-> "idle"]]
    /\ lock' = IF lock = "sim" THEN p ELSE lock
    /\ UNCHANGED <<wall, clamped, stored, flight, truth, cache, fresh, gone>>

Running(start, known) == [pc |-> "run", next |-> start, pos |-> 1, active |-> NoFaults,
                          sent |-> 0, known |-> known]

\* Mutant: a failed answer counts as one without readings.
resume_point_mutant(a) ==
    Running(IF a.readings # 0 THEN a.readings + 1 ELSE wall, a.known)

\* Just after the newest stored reading; an empty table means now.  A 503 is an
\* exception of urlopen, and another attempt.
resume_point(a) ==
    IF a.code = 503 THEN Retry
    ELSE Running(IF a.readings # 0 THEN a.readings + 1 ELSE wall, a.known)

\* What an answer does for its caller.
Served(p, a) ==
    IF p # "sim" THEN UNCHANGED <<sim, gone>>
    ELSE /\ sim' = resume_point(a)
         /\ gone' = IF a.code = 200 /\ a.readings = 0 THEN gone \cup (Building \X (0..(wall - 1)))
                                                      ELSE gone

----------------------------------------------------------------------------
(* /health *)

Calls(p) == probe[p].pc = "idle" /\ IF p = "sim" THEN sim.pc = "asking" ELSE left["probe"] > 0
Charge(p) == IF p = "sim" THEN UNCHANGED left ELSE Spend("probe")

\* Answered from the cache: young enough, or somebody else is refreshing it.
HealthCached(p) ==
    /\ Calls(p) /\ Charge(p)
    /\ cache # NoAnswer /\ (fresh \/ lock # "free")
    /\ Served(p, cache)
    /\ UNCHANGED <<wall, clamped, stored, flight, truth, health_state>>

\* The first caller, or one without anything cached who has waited, computes.  It does
\* not look at the cache again.
HealthLock(p) ==
    /\ lock = "free"
    /\ \/ Calls(p) /\ Charge(p) /\ ~(cache # NoAnswer /\ fresh)
       \/ probe[p].pc = "waiting" /\ UNCHANGED left
    /\ lock' = p
    /\ probe' = [probe EXCEPT ![p] = [pc |-> "computing"]]
    /\ UNCHANGED <<wall, clamped, stored, flight, sim, truth, cache, fresh, gone>>

HealthWait(p) ==
    /\ Calls(p) /\ Charge(p) /\ cache = NoAnswer /\ lock # "free"
    /\ probe' = [probe EXCEPT ![p] = [pc |-> "waiting"]]
    /\ UNCHANGED <<wall, clamped, stored, flight, sim, truth, cache, fresh, lock, gone>>

\* The newest reading is read, or the database does not answer.
HealthRead(p, ok) ==
    /\ probe[p].pc = "computing"
    /\ IF ok THEN UNCHANGED left ELSE Spend("outage")
    /\ probe' = [probe EXCEPT ![p] =
                    [pc |-> "read", answer |->
                        [code     |-> IF ok THEN 200 ELSE 503,
                         readings |-> IF ok THEN latest_reading_ts ELSE 0,
                         known    |-> latest_reading_ts]]]
    /\ UNCHANGED <<wall, clamped, stored, flight, sim, truth, cache, fresh, lock, gone>>

\* Failures are cached as well.
HealthAnswer(p) ==
    /\ probe[p].pc = "read"
    /\ cache' = probe[p].answer /\ fresh' = TRUE
    /\ lock' = "free"
    /\ probe' = [probe EXCEPT ![p] = [pc |-> "idle"]]
    /\ Served(p, probe[p].answer)
    /\ UNCHANGED <<wall, clamped, stored, flight, truth, left>>

HealthExpires ==
    /\ fresh /\ fresh' = FALSE
    /\ UNCHANGED <<wall, clamped, stored, flight, sim, truth, cache, lock, probe, left, gone>>

----------------------------------------------------------------------------
(* The run *)

\* Data time never passes the wall clock, unless the clamp is off.
Due == sim.next <= MaxTs /\ (clamped => sim.next <= wall)

\* _apply_anomaly and _publish for the next building of the round.  A fault begins with
\* a line in the truth file and shows from the next reading on; the one that finds it
\* over is normal.
Publish(begin) ==
    LET b  == Buildings[sim.pos]
        ts == sim.next
        on == sim.active[b] # 0
    IN  /\ sim.pc = "run" /\ (sim.pos = 1 => Due)
        /\ begin => ~on /\ left["fault"] > 0
        /\ left' = IF begin THEN [left EXCEPT !["fault"] = @ - 1] ELSE left
        /\ flight' = Append(flight, [b |-> b, ts |-> ts, faulty |-> on /\ ts < sim.active[b]])
        /\ truth' = IF begin THEN truth \cup {[b |-> b, ts |-> ts, known |-> sim.known]} ELSE truth
        /\ sim' = [sim EXCEPT
                     !.active[b] = IF begin THEN ts + FaultSteps
                                   ELSE IF on /\ ts >= @ THEN 0 ELSE @,
                     !.sent = @ + 1,
                     !.pos  = IF @ = Len(Buildings) THEN 1 ELSE @ + 1,
                     !.next = IF sim.pos = Len(Buildings) THEN @ + 1 ELSE @]
        /\ UNCHANGED <<wall, clamped, stored, health_state, gone>>

\* The last n readings of the run had not left the process.  A signal is looked at between rounds;
\* a kill is not, and leaves a round unfinished.
SimEnds(n) ==
    /\ sim.pc = "run" /\ Spend("end") /\ n <= Len(flight) /\ n <= sim.sent
    /\ flight' = SubSeq(flight, 1, Len(flight) - n)
    /\ gone' = gone \cup { <<flight[i].b, flight[i].ts>> : i \in (Len(flight) - n + 1)..Len(flight) }
                    \cup (IF sim.pos = 1 THEN {}
                          ELSE { <<Buildings[i], sim.next>> : i \in sim.pos..Len(Buildings) })
    /\ sim' = Down
    /\ UNCHANGED <<wall, clamped, stored, truth, health_state>>

----------------------------------------------------------------------------
(* The way to the table, external here, and the clock *)

Late(r) == \E t \in StoredTs(r.b) : r.ts <= t

Store ==
    /\ flight # <<>>
    /\ stored' = IF Late(Head(flight)) THEN stored ELSE stored \cup {Head(flight)}
    /\ flight' = Tail(flight)
    /\ UNCHANGED <<wall, clamped, sim, truth, health_state, left, gone>>

\* The API process ends with the first n readings in its memory, and comes back.
ApiRestart(n) ==
    /\ Spend("restart") /\ n <= Len(flight)
    /\ flight' = SubSeq(flight, n + 1, Len(flight))
    /\ gone' = gone \cup { <<flight[i].b, flight[i].ts>> : i \in 1..n }
    /\ cache' = NoAnswer /\ fresh' = FALSE /\ lock' = "free"
    /\ probe' = [p \in Caller |-> [pc |-> "idle"]]
    /\ sim' = IF probe["sim"].pc # "idle" THEN Retry ELSE sim
    /\ UNCHANGED <<wall, clamped, stored, truth>>

Tick ==
    /\ wall < MaxTs /\ wall' = wall + 1
    /\ UNCHANGED <<clamped, stored, flight, sim, truth, health_state, left, gone>>

\* gemp-seed writes building after building, each in a transaction of its own: if it
\* dies part-way the first ones have their history, and the next call refuses.
Seeded(n, end) ==
    { [b |-> Buildings[i], ts |-> t, faulty |-> FALSE] : i \in 1..n, t \in 1..end }

Init ==
    /\ wall \in Ts
    /\ clamped \in BOOLEAN
    /\ \E n \in 0..Len(Buildings), end \in SeedEnds : stored = Seeded(n, end)
    /\ flight = <<>> /\ sim = Down /\ truth = {} /\ gone = {}
    /\ cache = NoAnswer /\ fresh = FALSE /\ lock = "free"
    /\ probe = [p \in Caller |-> [pc |-> "idle"]]
    /\ left \in Budgets

SimNext ==
    \/ SimStart \/ AskFails \/ \E p \in Prober : AskTimesOut(p)
    \/ \E begin \in BOOLEAN : Publish(begin)
HealthNext ==
    \/ HealthExpires
    \/ \E p \in Caller : \/ HealthCached(p) \/ HealthLock(p) \/ HealthWait(p) \/ HealthAnswer(p)
                         \/ \E ok \in BOOLEAN : HealthRead(p, ok)
EndNext == \E n \in 0..Len(flight) : SimEnds(n) \/ ApiRestart(n)

----------------------------------------------------------------------------
(* Properties *)

\* "A gap looks like a fleet-wide outage": every hole in the stored data of a building
\* is a reading that was lost on the way or that a killed run did not come to.  Where a
\* run begins, whatever /health had cached and whoever was refreshing it, makes none.
HolesExplained ==
    \A b \in Building : \A t \in Ts :
        (/\ t \notin StoredTs(b)
         /\ \E s \in StoredTs(b) : s < t
         /\ \E s \in StoredTs(b) : t < s) => <<b, t>> \in gone

\* "Guessing the resume point rewinds the data clock", and faults are then recorded for
\* readings that are dropped as duplicates: no line of the ground truth is about a time
\* that was in the table when the answer its run began with was computed.
TruthAfterHistory == \A line \in truth : line.ts > line.known
============================================================================
