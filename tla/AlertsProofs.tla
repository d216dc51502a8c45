---------------------------- MODULE AlertsProofs ----------------------------
(***************************************************************************)
(* Proofs about Station and Alerts, for every portfolio, seed, number of   *)
(* callers, refits and failures: where a hole in the stored data may come  *)
(* from, what the ground truth is about, and which faults have an alert.   *)
(***************************************************************************)
EXTENDS Alerts, NaturalsInduction, WellFoundedInduction, TLAPS

----------------------------------------------------------------------------
(* Types *)

Readings == [b : Building, ts : Ts, faulty : BOOLEAN]

Stopped == [pc : {"down", "asking"}, tries : Nat]
Runs    == [pc : {"run"}, next : Nat, pos : DOMAIN Buildings, active : [Building -> Nat],
            sent : Nat, known : Nat]
Probes  == [pc : {"idle", "waiting", "computing"}] \cup [pc : {"read"}, answer : Answer]

\* Every reading is of a building and of a time within the bounds, and whoever asks on
\* behalf of the simulator does so while the simulator waits for the answer.
StreamTypes ==
    /\ wall \in Ts
    /\ stored \subseteq Readings /\ flight \in Seq(Readings)
    /\ sim \in Stopped \cup Runs
    /\ sim.pc = "run" => sim.next > 0 /\ (sim.pos # 1 => sim.next <= MaxTs)
    /\ cache \in Answer \cup {NoAnswer}
    /\ probe \in [Caller -> Probes]
    /\ probe["sim"].pc # "idle" => sim.pc = "asking"

----------------------------------------------------------------------------
(* Where the readings of the stream are.  e is where the seeded history ends. *)

Seen(b, t) == t \in StoredTs(b) \/ <<b, t>> \in gone
InFlight(b, t) == \E i \in DOMAIN flight : flight[i].b = b /\ flight[i].ts = t
Ahead(i, b, t) == \E j \in 1..(i - 1) : flight[j].b = b /\ flight[j].ts = t
Have(b, t) == Seen(b, t) \/ InFlight(b, t)

\* A building has all of the seeded history or none; nothing in it is published again.
SeedInv(e) ==
    /\ e \in 0..MaxTs
    /\ e = 0 \/ \E r \in stored : e <= r.ts
    /\ \A b \in Building : \/ \A t \in 1..e : t \in StoredTs(b)
                           \/ \A t \in StoredTs(b) : e < t
    /\ \A i \in DOMAIN flight : e < flight[i].ts

\* What lies before a stored reading is stored or lost, what lies before one in flight
\* is stored, lost, or in front of it.
OrderInv(e) ==
    /\ \A r \in stored : \A u \in (e + 1)..(r.ts - 1) : Seen(r.b, u)
    /\ \A i \in DOMAIN flight : \A u \in (e + 1)..(flight[i].ts - 1) :
          Seen(flight[i].b, u) \/ Ahead(i, flight[i].b, u)

\* The k-th building's turn is still to come in a round that has begun.
Owed(k, t) == sim.pc = "run" /\ sim.pos # 1 /\ k >= sim.pos /\ t = sim.next

Reached(t) == (\E r \in stored : t <= r.ts) \/ \E i \in DOMAIN flight : t <= flight[i].ts

\* No building is behind another, but for the round that has begun, and none is behind
\* the run.
CoverInv(e) ==
    /\ \A k \in DOMAIN Buildings : \A u \in (e + 1)..MaxTs :
          Reached(u) => Have(Buildings[k], u) \/ Owed(k, u)
    /\ sim.pc = "run" =>
          /\ e < sim.next
          /\ \A k \in DOMAIN Buildings : \A u \in (e + 1)..sim.next :
                u < sim.next \/ k < sim.pos => Have(Buildings[k], u)

\* An answer of /health, however old, is the newest reading of some time since the start.
Sound(a, e) ==
    a.code = 200 =>
        /\ a.known = a.readings
        /\ e <= a.readings
        /\ a.readings = 0 \/ \E r \in stored : a.readings <= r.ts

AnswersInv(e) ==
    /\ Sound(cache, e)
    /\ \A p \in Caller : probe[p].pc = "read" => Sound(probe[p].answer, e)

\* A run is about times after the answer it began with.
RunInv == (sim.pc = "run" => sim.known < sim.next) /\ TruthAfterHistory

HistoryInv(e) == SeedInv(e) /\ OrderInv(e) /\ CoverInv(e) /\ AnswersInv(e)

StreamInv == StreamTypes /\ RunInv /\ \E e \in 0..MaxTs : HistoryInv(e)

----------------------------------------------------------------------------
(* Facts about the operators *)

\* A set of naturals has a least member.
LEMMA LeastTime ==
    ASSUME NEW T, T \subseteq Nat, T # {}
    PROVE  \E n \in T : \A k \in T : n <= k
<1> DEFINE R == { z \in Nat \X Nat : z[1] < z[2] }
<1>1. IsWellFoundedOn(R, Nat)
  BY NatLessThanWellFounded, Zenon DEF OpToRel
<1>2. PICK n \in T : \A k \in T : ~ (<<k, n>> \in R)
  <2> HIDE DEF R
  <2> QED
    BY <1>1, WFMin
<1>3. ASSUME NEW k \in T PROVE n <= k
  <2>1. ~ (k < n) /\ n \in Nat /\ k \in Nat
    BY <1>2
  <2> QED
    BY <2>1
<1> QED
  BY <1>3

\* A bounded set of naturals has a greatest member, and Max is it.
LEMMA MaxIs ==
    ASSUME NEW m \in Nat, NEW T, T \subseteq 0..m, T # {}
    PROVE  Max(T) \in T /\ \A t \in T : t <= Max(T)
<1> DEFINE U == { u \in 0..m : \A t \in T : t <= u }
<1>1. m \in U
  OBVIOUS
<1>2. PICK n \in U : \A k \in U : n <= k
  <2>1. U \subseteq Nat /\ U # {}
    BY <1>1
  <2> HIDE DEF U
  <2> QED
    BY <2>1, LeastTime
<1>3. n \in T
  <2>1. SUFFICES ASSUME n \notin T PROVE FALSE
    OBVIOUS
  <2>2. n \in Nat /\ n <= m
    OBVIOUS
  <2>3. \A t \in T : t \in Nat /\ t <= n /\ t # n
    BY <2>1
  <2>4. n # 0
    <3>1. PICK t : t \in T
      OBVIOUS
    <3> QED
      BY <2>2, <2>3, <3>1
  <2>5. n - 1 \in U
    BY <2>2, <2>3, <2>4
  <2> QED
    BY <1>2, <2>2, <2>5
<1>4. \A t \in T : t \in Nat /\ n >= t
  OBVIOUS
<1>5. Max(T) \in T /\ \A t \in T : Max(T) >= t
  BY <1>3, <1>4 DEF Max
<1> QED
  BY <1>5

\* The newest reading is one of the stored ones, and none is newer.
LEMMA LatestIs ==
    ASSUME stored \subseteq Readings
    PROVE  /\ latest_reading_ts \in 0..MaxTs
           /\ \A r \in stored : r.ts <= latest_reading_ts
           /\ latest_reading_ts = 0 \/ \E r \in stored : r.ts = latest_reading_ts
<1> DEFINE T == {0} \cup { r.ts : r \in stored }
<1>1. MaxTs \in Nat
  BY StationAssumption
<1>2. \A r \in stored : r.ts \in 1..MaxTs
  BY DEF Readings, Ts
<1>3. T \subseteq 0..MaxTs /\ T # {}
  BY <1>1, <1>2
<1>4. Max(T) \in T /\ \A t \in T : t <= Max(T)
  <2> HIDE DEF T
  <2> QED
    BY <1>1, <1>3, MaxIs
<1>5. latest_reading_ts = Max(T)
  BY DEF latest_reading_ts
<1> HIDE DEF latest_reading_ts
<1> QED
  BY <1>3, <1>4, <1>5

LEMMA PortfolioIs ==
    /\ Buildings \in Seq(Building) /\ Len(Buildings) \in Nat \ {0}
    /\ DOMAIN Buildings = 1..Len(Buildings) /\ 1 \in DOMAIN Buildings
    /\ \A k \in DOMAIN Buildings : Buildings[k] \in Building
    /\ \A b \in Building : \E k \in DOMAIN Buildings : Buildings[k] = b
<1>1. Buildings \in Seq(Building) /\ Len(Buildings) > 0
  BY StationAssumption DEF Building
<1>2. \A b \in Building : \E k \in DOMAIN Buildings : Buildings[k] = b
  BY DEF Building, Range
<1> QED
  BY <1>1, <1>2

\* A failed attempt to ask leaves the process waiting for the next, or ends it.
LEMMA RetryIs ==
    ASSUME sim \in Stopped \cup Runs, sim.pc = "asking"
    PROVE  Retry \in Stopped
<1>1. sim \in Stopped
  BY DEF Stopped, Runs
<1>2. sim.tries \in Nat
  BY <1>1 DEF Stopped
<1>3. [sim EXCEPT !.tries = @ + 1] \in Stopped
  BY <1>1, <1>2 DEF Stopped
<1>4. Down \in Stopped
  BY DEF Down, Stopped
<1> QED
  BY <1>3, <1>4 DEF Retry

LEMMA RunningIs ==
    ASSUME NEW start \in Nat, NEW known \in Nat
    PROVE  /\ Running(start, known) \in Runs
           /\ Running(start, known).pc = "run" /\ Running(start, known).next = start
           /\ Running(start, known).pos = 1 /\ Running(start, known).known = known
<1>1. NoFaults \in [Building -> Nat]
  BY DEF NoFaults
<1> QED
  BY <1>1, PortfolioIs DEF Running, Runs

\* The four things an answer may do: nothing to the simulator, another attempt, a run
\* that begins after the newest reading, a run that begins now.
LEMMA ServedIs ==
    ASSUME StreamTypes, NEW p \in Caller, NEW a \in Answer, Served(p, a),
           p = "sim" => sim.pc = "asking"
    PROVE  \/ sim' = sim /\ gone' = gone
           \/ p = "sim" /\ sim' \in Stopped /\ gone' = gone
           \/ /\ p = "sim" /\ a.code = 200 /\ a.readings # 0 /\ gone' = gone
              /\ sim' = Running(a.readings + 1, a.known)
           \/ /\ p = "sim" /\ a.code = 200 /\ a.readings = 0
              /\ sim' = Running(wall, a.known)
              /\ gone' = gone \cup (Building \X (0..(wall - 1)))
<1>1. CASE p # "sim"
  BY <1>1 DEF Served
<1>2. CASE p = "sim"
  <2>1. /\ sim' = resume_point(a)
        /\ gone' = IF a.code = 200 /\ a.readings = 0 THEN gone \cup (Building \X (0..(wall - 1)))
                                                      ELSE gone
    BY <1>2 DEF Served
  <2>2. Retry \in Stopped
    BY <1>2, RetryIs DEF StreamTypes
  <2>3. a.code \in {200, 503}
    BY DEF Answer
  <2> QED
    BY <1>2, <2>1, <2>2, <2>3 DEF resume_point
<1> QED
  BY <1>1, <1>2

----------------------------------------------------------------------------
(* Types *)

\* The steps of the stream, and what the rest of the system leaves alone.
streamVars == <<wall, stored, flight, sim, truth, cache, probe, gone>>
StreamStep == SimNext \/ HealthNext \/ EndNext \/ Tick \/ Store \/ UNCHANGED streamVars

LEMMA SimCaller == "sim" \in Caller /\ \A p \in Prober : p \in Caller /\ p # "sim"
  BY StationAssumption DEF Caller

\* An answer keeps the types, if its caller is no longer in the call afterwards.
LEMMA ServedTypes ==
    ASSUME StreamTypes, NEW p \in Caller, NEW a \in Answer, Served(p, a),
           p = "sim" => sim.pc = "asking",
           UNCHANGED <<wall, stored, flight>>,
           cache' \in Answer \cup {NoAnswer}, probe' \in [Caller -> Probes],
           probe'["sim"].pc # "idle" => probe["sim"].pc # "idle" /\ p # "sim"
    PROVE  StreamTypes'
<1>1. wall \in Nat /\ wall > 0
  BY StationAssumption DEF StreamTypes, Ts
<1>2. a.readings \in Nat /\ a.known \in Nat
  BY StationAssumption DEF Answer
<1>3. p # "sim" => sim' = sim
  BY DEF Served
<1>4. sim' \in Stopped \cup Runs
      /\ (sim'.pc = "run" => sim'.next > 0 /\ (sim'.pos # 1 => sim'.next <= MaxTs))
  <2>1. CASE sim' = sim
    BY <2>1 DEF StreamTypes
  <2>2. CASE sim' \in Stopped
    BY <2>2 DEF Stopped
  <2>3. CASE sim' = Running(a.readings + 1, a.known)
    <3>1. a.readings + 1 \in Nat /\ a.readings + 1 > 0
      BY <1>2
    <3> QED
      BY <1>2, <2>3, <3>1, RunningIs
  <2>4. CASE sim' = Running(wall, a.known)
    BY <1>1, <1>2, <2>4, RunningIs
  <2> QED
    BY <2>1, <2>2, <2>3, <2>4, ServedIs
<1>5. probe'["sim"].pc # "idle" => sim'.pc = "asking"
  BY <1>3 DEF StreamTypes
<1> QED
  BY <1>4, <1>5 DEF StreamTypes

\* What a round publishes next.
LEMMA PublishIs ==
    ASSUME StreamTypes, NEW begin \in BOOLEAN, Publish(begin)
    PROVE  LET b == Buildings[sim.pos]
           IN  /\ sim.pc = "run" /\ sim' \in Runs
               /\ sim.pos \in 1..Len(Buildings) /\ b \in Building /\ sim.next \in Ts
               /\ sim.known \in Nat /\ sim'.known = sim.known
               /\ \E f \in BOOLEAN : flight' = Append(flight, [b |-> b, ts |-> sim.next, faulty |-> f])
               /\ \/ sim.pos = Len(Buildings) /\ sim'.pos = 1 /\ sim'.next = sim.next + 1
                  \/ sim.pos # Len(Buildings) /\ sim'.pos = sim.pos + 1 /\ sim'.next = sim.next
               /\ \/ truth' = truth
                  \/ truth' = truth \cup {[b |-> b, ts |-> sim.next, known |-> sim.known]}
               /\ UNCHANGED <<wall, stored, cache, probe, gone>>
<1> DEFINE b == Buildings[sim.pos]
           ts == sim.next
           on == sim.active[b] # 0
<1>1. /\ sim.pc = "run" /\ (sim.pos = 1 => Due)
      /\ flight' = Append(flight, [b |-> b, ts |-> ts, faulty |-> on /\ ts < sim.active[b]])
      /\ truth' = IF begin THEN truth \cup {[b |-> b, ts |-> ts, known |-> sim.known]} ELSE truth
      /\ sim' = [sim EXCEPT
                     !.active[b] = IF begin THEN ts + FaultSteps
                                   ELSE IF on /\ ts >= @ THEN 0 ELSE @,
                     !.sent = @ + 1,
                     !.pos  = IF @ = Len(Buildings) THEN 1 ELSE @ + 1,
                     !.next = IF sim.pos = Len(Buildings) THEN @ + 1 ELSE @]
      /\ UNCHANGED <<wall, stored, cache, probe, gone>>
  BY DEF Publish, health_state
<1>2. sim \in Runs
  BY <1>1 DEF StreamTypes, Stopped
<1>3. /\ sim.next \in Nat /\ sim.pos \in 1..Len(Buildings) /\ sim.active \in [Building -> Nat]
      /\ sim.sent \in Nat /\ sim.known \in Nat
  BY <1>2, PortfolioIs DEF Runs
<1>4. b \in Building
  BY <1>3, PortfolioIs
<1>5. ts \in Ts
  BY <1>1, <1>3, StationAssumption DEF StreamTypes, Due, Ts
<1>6. (on /\ ts < sim.active[b]) \in BOOLEAN
  OBVIOUS
<1>7. /\ sim'.pos = (IF sim.pos = Len(Buildings) THEN 1 ELSE sim.pos + 1)
      /\ sim'.next = (IF sim.pos = Len(Buildings) THEN sim.next + 1 ELSE sim.next)
      /\ sim'.known = sim.known /\ sim'.pc = "run"
  BY <1>1, <1>2 DEF Runs
<1>8. sim' \in Runs
  <2> DEFINE v == IF begin THEN ts + FaultSteps
                  ELSE IF on /\ ts >= sim.active[b] THEN 0 ELSE sim.active[b]
             act == [sim.active EXCEPT ![b] = v]
             p == IF sim.pos = Len(Buildings) THEN 1 ELSE sim.pos + 1
             x == IF sim.pos = Len(Buildings) THEN sim.next + 1 ELSE sim.next
  <2>1. v \in Nat
    BY <1>3, <1>4, StationAssumption
  <2>2. act \in [Building -> Nat]
    BY <1>3, <2>1
  <2>3. p \in DOMAIN Buildings /\ x \in Nat /\ sim.sent + 1 \in Nat
    <3>1. Len(Buildings) \in Nat /\ DOMAIN Buildings = 1..Len(Buildings)
      BY PortfolioIs
    <3>2. p \in 1..Len(Buildings)
      BY <1>3, <3>1
    <3>3. x \in Nat /\ sim.sent + 1 \in Nat
      BY <1>3
    <3> QED
      BY <3>1, <3>2, <3>3
  <2>4. sim' = [sim EXCEPT !.active = act, !.sent = sim.sent + 1, !.pos = p, !.next = x]
    BY <1>1, <1>2 DEF Runs
  <2> HIDE DEF v, act, p, x
  <2> QED
    BY <1>2, <2>2, <2>3, <2>4 DEF Runs
<1> HIDE DEF b, on
<1>9. \E f \in BOOLEAN : flight' = Append(flight, [b |-> b, ts |-> ts, faulty |-> f])
  BY <1>1, <1>6
<1>10. truth' = truth \/ truth' = truth \cup {[b |-> b, ts |-> ts, known |-> sim.known]}
  BY <1>1
<1> QED
  BY <1>1, <1>3, <1>4, <1>5, <1>7, <1>8, <1>9, <1>10 DEF b

\* A prefix or a suffix of what is in flight is one again.
LEMMA Pieces ==
    ASSUME NEW s \in Seq(Readings), NEW n \in 0..Len(s)
    PROVE  /\ SubSeq(s, 1, Len(s) - n) \in Seq(Readings)
           /\ Len(SubSeq(s, 1, Len(s) - n)) = Len(s) - n
           /\ \A i \in 1..(Len(s) - n) : SubSeq(s, 1, Len(s) - n)[i] = s[i]
           /\ SubSeq(s, n + 1, Len(s)) \in Seq(Readings)
           /\ Len(SubSeq(s, n + 1, Len(s))) = Len(s) - n
           /\ \A i \in 1..(Len(s) - n) : SubSeq(s, n + 1, Len(s))[i] = s[n + i]
<1>1. Len(s) \in Nat /\ n \in Nat /\ n <= Len(s)
  OBVIOUS
<1>2. /\ SubSeq(s, 1, Len(s) - n) \in Seq(Readings)
      /\ Len(SubSeq(s, 1, Len(s) - n)) = Len(s) - n
  BY <1>1
<1>3. \A i \in 1..(Len(s) - n) : SubSeq(s, 1, Len(s) - n)[i] = s[i]
  BY <1>1
<1>4. /\ SubSeq(s, n + 1, Len(s)) \in Seq(Readings)
      /\ Len(SubSeq(s, n + 1, Len(s))) = Len(s) - n
  BY <1>1
<1>5. \A i \in 1..(Len(s) - n) : SubSeq(s, n + 1, Len(s))[i] = s[n + i]
  BY <1>1
<1> QED
  BY <1>2, <1>3, <1>4, <1>5

LEMMA TypesStep ==
    ASSUME StreamTypes, StreamStep
    PROVE  StreamTypes'
<1>t. /\ wall \in Ts /\ stored \subseteq Readings /\ flight \in Seq(Readings)
      /\ sim \in Stopped \cup Runs /\ cache \in Answer \cup {NoAnswer}
      /\ probe \in [Caller -> Probes]
      /\ probe["sim"].pc # "idle" => sim.pc = "asking"
      /\ sim.pc = "run" => sim.next > 0 /\ (sim.pos # 1 => sim.next <= MaxTs)
  BY DEF StreamTypes
<1>i. [pc |-> "idle"] \in Probes /\ [pc |-> "computing"] \in Probes /\ [pc |-> "waiting"] \in Probes
  BY DEF Probes
<1>d. Stopped \cap Runs = {} /\ \A s \in Stopped : s.pc # "run"
  BY DEF Stopped, Runs
<1>s. "sim" \in Caller
  BY SimCaller
<1>1. CASE SimStart
  <2>1. /\ sim.pc = "down" /\ sim' = [pc |-> "asking", tries |-> 0]
        /\ UNCHANGED <<wall, stored, flight, cache, probe>>
    BY <1>1 DEF SimStart, health_state
  <2>2. sim' \in Stopped /\ sim'.pc = "asking"
    BY <2>1 DEF Stopped
  <2> QED
    BY <1>t, <2>1, <2>2 DEF StreamTypes
<1>2. CASE AskFails
  <2>1. /\ sim.pc = "asking" /\ probe["sim"].pc = "idle" /\ sim' \in {Retry, Down}
        /\ UNCHANGED <<wall, stored, flight, cache, probe>>
    BY <1>2 DEF AskFails, health_state
  <2>2. sim' \in Stopped /\ sim'.pc # "run"
    BY <1>t, <1>d, <2>1, RetryIs DEF Down, Stopped
  <2> QED
    BY <1>t, <2>1, <2>2 DEF StreamTypes
<1>3. ASSUME NEW p \in Prober, AskTimesOut(p)
      PROVE  StreamTypes'
  <2>1. /\ probe["sim"].pc # "idle" /\ sim' = Retry
        /\ probe' = [probe EXCEPT ![p] = probe["sim"], !["sim"] = [pc |-> "idle"]]
        /\ UNCHANGED <<wall, stored, flight, cache>>
    BY <1>3 DEF AskTimesOut
  <2>2. sim' \in Stopped /\ sim'.pc # "run"
    BY <1>t, <1>d, <2>1, RetryIs
  <2>3. probe["sim"] \in Probes
    BY <1>t, <1>s
  <2>4. probe' \in [Caller -> Probes] /\ probe'["sim"].pc = "idle"
    BY <1>t, <1>s, <1>i, <2>1, <2>3
  <2> QED
    BY <1>t, <2>1, <2>2, <2>4 DEF StreamTypes
<1>4. ASSUME NEW begin \in BOOLEAN, Publish(begin)
      PROVE  StreamTypes'
  <2> DEFINE b == Buildings[sim.pos]
  <2>1. /\ sim.pc = "run" /\ sim' \in Runs /\ sim.pos \in 1..Len(Buildings) /\ b \in Building
        /\ sim.next \in Ts
        /\ \/ sim.pos = Len(Buildings) /\ sim'.pos = 1 /\ sim'.next = sim.next + 1
           \/ sim.pos # Len(Buildings) /\ sim'.pos = sim.pos + 1 /\ sim'.next = sim.next
        /\ UNCHANGED <<wall, stored, cache, probe, gone>>
    BY <1>4, PublishIs
  <2>2. PICK f \in BOOLEAN : flight' = Append(flight, [b |-> b, ts |-> sim.next, faulty |-> f])
    BY <1>4, PublishIs
  <2>3. [b |-> b, ts |-> sim.next, faulty |-> f] \in Readings
    BY <2>1, <2>2 DEF Readings
  <2>4. flight' \in Seq(Readings)
    BY <1>t, <2>2, <2>3
  <2>5. sim.next \in Nat /\ sim.next > 0 /\ sim.next <= MaxTs
    BY <2>1, StationAssumption DEF Ts
  <2>6. sim'.next > 0 /\ (sim'.pos # 1 => sim'.next <= MaxTs)
    BY <2>1, <2>5
  <2> QED
    BY <1>t, <2>1, <2>4, <2>6 DEF StreamTypes
<1>5. CASE HealthExpires \/ UNCHANGED streamVars
  BY <1>5 DEF HealthExpires, streamVars, StreamTypes
<1>6. ASSUME NEW p \in Caller, HealthCached(p)
      PROVE  StreamTypes'
  <2>1. /\ Calls(p) /\ cache # NoAnswer /\ Served(p, cache)
        /\ UNCHANGED <<wall, stored, flight, cache, probe>>
    BY <1>6 DEF HealthCached, health_state
  <2>2. cache \in Answer /\ (p = "sim" => sim.pc = "asking" /\ probe["sim"].pc = "idle")
    BY <1>t, <2>1 DEF Calls
  <2> QED
    BY <1>t, <2>1, <2>2, ServedTypes
<1>7. ASSUME NEW p \in Caller, HealthLock(p) \/ HealthWait(p)
      PROVE  StreamTypes'
  <2>1. /\ Calls(p) \/ probe[p].pc = "waiting"
        /\ \/ probe' = [probe EXCEPT ![p] = [pc |-> "computing"]]
           \/ probe' = [probe EXCEPT ![p] = [pc |-> "waiting"]]
        /\ UNCHANGED <<wall, stored, flight, sim, cache>>
    BY <1>7 DEF HealthLock, HealthWait
  <2>2. p = "sim" => sim.pc = "asking"
    BY <1>t, <2>1 DEF Calls
  <2>3. probe' \in [Caller -> Probes] /\ (p # "sim" => probe'["sim"] = probe["sim"])
    BY <1>t, <1>s, <1>i, <2>1
  <2> QED
    BY <1>t, <2>1, <2>2, <2>3 DEF StreamTypes
<1>8. ASSUME NEW p \in Caller, NEW ok \in BOOLEAN, HealthRead(p, ok)
      PROVE  StreamTypes'
  <2> DEFINE a == [code     |-> IF ok THEN 200 ELSE 503,
                   readings |-> IF ok THEN latest_reading_ts ELSE 0,
                   known    |-> latest_reading_ts]
  <2>1. /\ probe[p].pc = "computing" /\ probe' = [probe EXCEPT ![p] = [pc |-> "read", answer |-> a]]
        /\ UNCHANGED <<wall, stored, flight, sim, cache>>
    BY <1>8 DEF HealthRead
  <2>2. latest_reading_ts \in 0..MaxTs /\ 0 \in 0..MaxTs
    BY <1>t, LatestIs, StationAssumption
  <2>3. a \in Answer
    BY <2>2 DEF Answer
  <2> HIDE DEF a
  <2>4. [pc |-> "read", answer |-> a] \in Probes
    BY <2>3 DEF Probes
  <2>5. p = "sim" => sim.pc = "asking"
    BY <1>t, <2>1
  <2>6. probe' \in [Caller -> Probes] /\ (p # "sim" => probe'["sim"] = probe["sim"])
    BY <1>t, <1>s, <2>1, <2>4
  <2> QED
    BY <1>t, <2>1, <2>5, <2>6 DEF StreamTypes
<1>9. ASSUME NEW p \in Caller, HealthAnswer(p)
      PROVE  StreamTypes'
  <2>1. /\ probe[p].pc = "read" /\ cache' = probe[p].answer
        /\ probe' = [probe EXCEPT ![p] = [pc |-> "idle"]]
        /\ Served(p, probe[p].answer)
        /\ UNCHANGED <<wall, stored, flight>>
    BY <1>9 DEF HealthAnswer
  <2>2. probe[p].answer \in Answer /\ (p = "sim" => sim.pc = "asking")
    BY <1>t, <2>1 DEF Probes
  <2>3. probe' \in [Caller -> Probes] /\ probe'[p].pc = "idle"
        /\ (p # "sim" => probe'["sim"] = probe["sim"])
    BY <1>t, <1>s, <1>i, <2>1
  <2> QED
    BY <2>1, <2>2, <2>3, ServedTypes
<1>10. ASSUME NEW n \in 0..Len(flight), SimEnds(n)
       PROVE  StreamTypes'
  <2>1. /\ sim.pc = "run" /\ sim' = Down /\ flight' = SubSeq(flight, 1, Len(flight) - n)
        /\ UNCHANGED <<wall, stored, cache, probe>>
    BY <1>10 DEF SimEnds, health_state
  <2>2. flight' \in Seq(Readings)
    BY <1>t, <2>1, Pieces
  <2>3. sim' \in Stopped /\ sim'.pc # "run"
    BY <2>1 DEF Down, Stopped
  <2> QED
    BY <1>t, <2>1, <2>2, <2>3 DEF StreamTypes
<1>11. ASSUME NEW n \in 0..Len(flight), ApiRestart(n)
       PROVE  StreamTypes'
  <2>1. /\ flight' = SubSeq(flight, n + 1, Len(flight)) /\ cache' = NoAnswer
        /\ probe' = [p \in Caller |-> [pc |-> "idle"]]
        /\ sim' = IF probe["sim"].pc # "idle" THEN Retry ELSE sim
        /\ UNCHANGED <<wall, stored>>
    BY <1>11 DEF ApiRestart
  <2>2. flight' \in Seq(Readings)
    BY <1>t, <2>1, Pieces
  <2>3. probe' \in [Caller -> Probes] /\ probe'["sim"].pc = "idle"
    BY <1>s, <1>i, <2>1
  <2>4. sim' = sim \/ (sim' \in Stopped /\ sim'.pc # "run")
    BY <1>t, <1>d, <2>1, RetryIs
  <2> QED
    BY <1>t, <2>1, <2>2, <2>3, <2>4 DEF StreamTypes
<1>12. CASE Store
  <2>1. /\ flight # <<>> /\ flight' = Tail(flight)
        /\ stored' = stored \/ stored' = stored \cup {Head(flight)}
        /\ UNCHANGED <<wall, sim, cache, probe>>
    BY <1>12 DEF Store, health_state
  <2>2. Head(flight) \in Readings /\ flight' \in Seq(Readings)
    BY <1>t, <2>1
  <2> QED
    BY <1>t, <2>1, <2>2 DEF StreamTypes
<1>13. CASE Tick
  <2>1. wall' \in Ts /\ UNCHANGED <<stored, flight, sim, cache, probe>>
    BY <1>t, <1>13, StationAssumption DEF Tick, Ts, health_state
  <2> QED
    BY <1>t, <2>1 DEF StreamTypes
<1> QED
  BY <1>1, <1>2, <1>3, <1>4, <1>5, <1>6, <1>7, <1>8, <1>9, <1>10, <1>11, <1>12, <1>13
     DEF StreamStep, SimNext, HealthNext, EndNext

----------------------------------------------------------------------------
(* The answers of /health *)

LEMMA StoredGrows ==
    ASSUME StreamStep
    PROVE  stored \subseteq stored'
  BY DEF StreamStep, SimNext, HealthNext, EndNext, Tick, Store, streamVars, SimStart, AskFails,
         AskTimesOut, Publish, HealthExpires, HealthCached, HealthLock, HealthWait, HealthAnswer,
         HealthRead, SimEnds, ApiRestart

\* What an answer may be after a step: what some answer was before, nothing, or the
\* newest reading as it is.
LEMMA AnswersStep ==
    ASSUME StreamTypes, NEW e \in 0..MaxTs, SeedInv(e), AnswersInv(e), StreamStep
    PROVE  AnswersInv(e)'
<1>t. probe \in [Caller -> Probes] /\ stored \subseteq Readings
  BY DEF StreamTypes
<1>s. "sim" \in Caller /\ \A p \in Prober : p \in Caller
  BY SimCaller
<1> DEFINE After(a) == a.code = 200 =>
                         /\ a.known = a.readings
                         /\ e <= a.readings
                         /\ a.readings = 0 \/ \E r \in stored' : a.readings <= r.ts
<1>g. stored \subseteq stored'
  BY StoredGrows
<1>h. \A a : Sound(a, e) => After(a)
  BY <1>g DEF Sound
<1>i. After(cache') /\ (\A p \in Caller : probe'[p].pc = "read" => After(probe'[p].answer))
        => AnswersInv(e)'
  BY DEF AnswersInv, Sound
<1> HIDE DEF After
<1>a. /\ Sound(cache, e) /\ \A p \in Caller : probe[p].pc = "read" => Sound(probe[p].answer, e)
  BY DEF AnswersInv
<1>1. CASE UNCHANGED <<cache, probe>>
  <2>1. After(cache') /\ \A p \in Caller : probe'[p].pc = "read" => After(probe'[p].answer)
    BY <1>1, <1>a, <1>h
  <2> QED
    BY <1>i, <2>1
<1>2. ASSUME NEW p \in Prober, AskTimesOut(p)
      PROVE  AnswersInv(e)'
  <2>1. /\ cache' = cache
        /\ probe' = [probe EXCEPT ![p] = probe["sim"], !["sim"] = [pc |-> "idle"]]
    BY <1>2 DEF AskTimesOut
  <2>2. \A q \in Caller : \/ probe'[q].pc = "idle"
                          \/ probe'[q] = probe[q]
                          \/ probe'[q] = probe["sim"]
    BY <1>t, <1>s, <2>1
  <2>3. After(cache') /\ \A q \in Caller : probe'[q].pc = "read" => After(probe'[q].answer)
    BY <1>a, <1>h, <1>s, <2>1, <2>2
  <2> QED
    BY <1>i, <2>3
<1>3. ASSUME NEW p \in Caller, HealthLock(p) \/ HealthWait(p)
      PROVE  AnswersInv(e)'
  <2>1. /\ cache' = cache
        /\ \/ probe' = [probe EXCEPT ![p] = [pc |-> "computing"]]
           \/ probe' = [probe EXCEPT ![p] = [pc |-> "waiting"]]
    BY <1>3 DEF HealthLock, HealthWait
  <2>2. \A q \in Caller : probe'[q].pc # "read" \/ probe'[q] = probe[q]
    BY <1>t, <2>1
  <2>3. After(cache') /\ \A q \in Caller : probe'[q].pc = "read" => After(probe'[q].answer)
    BY <1>a, <1>h, <2>1, <2>2
  <2> QED
    BY <1>i, <2>3
<1>4. ASSUME NEW p \in Caller, NEW ok \in BOOLEAN, HealthRead(p, ok)
      PROVE  AnswersInv(e)'
  <2> DEFINE a == [code     |-> IF ok THEN 200 ELSE 503,
                   readings |-> IF ok THEN latest_reading_ts ELSE 0,
                   known    |-> latest_reading_ts]
             l == latest_reading_ts
  <2>1. /\ cache' = cache /\ probe' = [probe EXCEPT ![p] = [pc |-> "read", answer |-> a]]
    BY <1>4 DEF HealthRead
  <2>2. /\ l \in 0..MaxTs
        /\ \A r \in stored : r.ts <= l
        /\ l = 0 \/ \E r \in stored : r.ts = l
    BY <1>t, LatestIs
  <2>3. /\ a.code = 200 => a.known = l /\ a.readings = l
    OBVIOUS
  <2> HIDE DEF l, a
  <2>4. \A r \in stored : r.ts \in Nat
    BY <1>t, StationAssumption DEF Readings, Ts
  <2>5. e <= l
    BY <2>2, <2>4 DEF SeedInv
  <2>6. l = 0 \/ \E r \in stored : l <= r.ts
    BY <2>2, <2>4
  <2>7. Sound(a, e)
    BY <2>3, <2>5, <2>6 DEF Sound
  <2>8. /\ probe'[p] = [pc |-> "read", answer |-> a]
        /\ \A q \in Caller : q # p => probe'[q] = probe[q]
    BY <1>t, <2>1
  <2>9. After(cache') /\ \A q \in Caller : probe'[q].pc = "read" => After(probe'[q].answer)
    BY <1>a, <1>h, <2>1, <2>7, <2>8
  <2> QED
    BY <1>i, <2>9
<1>5. ASSUME NEW p \in Caller, HealthAnswer(p)
      PROVE  AnswersInv(e)'
  <2>1. /\ probe[p].pc = "read" /\ cache' = probe[p].answer
        /\ probe' = [probe EXCEPT ![p] = [pc |-> "idle"]]
    BY <1>5 DEF HealthAnswer
  <2>2. \A q \in Caller : probe'[q].pc = "idle" \/ probe'[q] = probe[q]
    BY <1>t, <2>1
  <2>3. After(cache') /\ \A q \in Caller : probe'[q].pc = "read" => After(probe'[q].answer)
    BY <1>a, <1>h, <2>1, <2>2
  <2> QED
    BY <1>i, <2>3
<1>6. ASSUME NEW n \in 0..Len(flight), ApiRestart(n)
      PROVE  AnswersInv(e)'
  <2>1. cache' = NoAnswer /\ probe' = [p \in Caller |-> [pc |-> "idle"]]
    BY <1>6 DEF ApiRestart
  <2>2. NoAnswer.code # 200
    BY DEF NoAnswer
  <2>3. After(cache') /\ \A q \in Caller : probe'[q].pc # "read"
    BY <2>1, <2>2 DEF After
  <2> QED
    BY <1>i, <2>3
<1>7. ASSUME \/ SimStart \/ AskFails \/ HealthExpires \/ Tick \/ Store \/ UNCHANGED streamVars
             \/ \E begin \in BOOLEAN : Publish(begin)
             \/ \E p \in Caller : HealthCached(p)
             \/ \E n \in 0..Len(flight) : SimEnds(n)
      PROVE  UNCHANGED <<cache, probe>>
  BY <1>7 DEF SimStart, AskFails, HealthExpires, Tick, Store, streamVars, Publish, HealthCached,
              SimEnds, health_state
<1> QED
  BY <1>1, <1>2, <1>3, <1>4, <1>5, <1>6, <1>7 DEF StreamStep, SimNext, HealthNext, EndNext

----------------------------------------------------------------------------
(* Where a run begins *)

\* The runs an answer may begin, with the facts that matter about each.
LEMMA ServedRun ==
    ASSUME StreamTypes, NEW p \in Caller, NEW a \in Answer, Served(p, a),
           p = "sim" => sim.pc = "asking", NEW e \in 0..MaxTs, Sound(a, e)
    PROVE  \/ sim' = sim /\ gone' = gone
           \/ sim.pc = "asking" /\ sim'.pc # "run" /\ gone' = gone
           \/ /\ sim.pc = "asking" /\ sim'.pc = "run" /\ sim'.pos = 1 /\ sim'.next \in Nat
              /\ sim'.known \in Nat /\ sim'.known < sim'.next /\ e < sim'.next
              /\ \/ gone' = gone /\ \E r \in stored : sim'.next <= r.ts + 1
                 \/ /\ gone \subseteq gone'
                    /\ \A b \in Building : \A t \in 0..(sim'.next - 1) : <<b, t>> \in gone'
<1>1. wall \in Nat /\ wall > 0
  BY StationAssumption DEF StreamTypes, Ts
<1>2. a.readings \in Nat /\ a.known \in Nat /\ e \in Nat /\ \A r \in stored : r.ts \in Nat
  BY StationAssumption DEF Answer, StreamTypes, Readings, Ts
<1>3. CASE p = "sim" /\ sim' \in Stopped /\ gone' = gone
  <2>1. sim'.pc # "run"
    BY <1>3 DEF Stopped
  <2> QED
    BY <1>3, <2>1
<1>4. CASE /\ p = "sim" /\ a.code = 200 /\ a.readings # 0 /\ gone' = gone
           /\ sim' = Running(a.readings + 1, a.known)
  <2>1. a.known = a.readings /\ e <= a.readings /\ \E r \in stored : a.readings <= r.ts
    BY <1>4 DEF Sound
  <2>2. a.readings + 1 \in Nat
    BY <1>2
  <2>3. /\ sim'.pc = "run" /\ sim'.pos = 1 /\ sim'.next = a.readings + 1 /\ sim'.known = a.known
    BY <1>2, <1>4, <2>2, RunningIs
  <2>4. a.known < a.readings + 1 /\ e < a.readings + 1 /\ \E r \in stored : a.readings + 1 <= r.ts + 1
    BY <1>2, <2>1
  <2> QED
    BY <1>2, <1>4, <2>2, <2>3, <2>4
<1>5. CASE /\ p = "sim" /\ a.code = 200 /\ a.readings = 0
           /\ sim' = Running(wall, a.known)
           /\ gone' = gone \cup (Building \X (0..(wall - 1)))
  <2>1. a.known = 0 /\ e = 0
    BY <1>2, <1>5 DEF Sound
  <2>2. /\ sim'.pc = "run" /\ sim'.pos = 1 /\ sim'.next = wall /\ sim'.known = a.known
    BY <1>1, <1>2, <1>5, RunningIs
  <2> QED
    BY <1>1, <1>5, <2>1, <2>2
<1> QED
  BY <1>3, <1>4, <1>5, ServedIs

\* The answer of a step and its caller.
LEMMA WhoIsServed ==
    ASSUME StreamTypes, NEW e, AnswersInv(e), NEW p \in Caller, HealthCached(p) \/ HealthAnswer(p)
    PROVE  /\ UNCHANGED <<stored, flight, truth>>
           /\ p = "sim" => sim.pc = "asking"
           /\ \E a \in Answer : Sound(a, e) /\ Served(p, a)
<1>1. CASE HealthCached(p)
  <2>1. /\ Calls(p) /\ cache # NoAnswer /\ Served(p, cache) /\ UNCHANGED <<stored, flight, truth>>
    BY <1>1 DEF HealthCached
  <2>2. cache \in Answer /\ (p = "sim" => sim.pc = "asking")
    BY <2>1 DEF Calls, StreamTypes
  <2> QED
    BY <2>1, <2>2 DEF AnswersInv
<1>2. CASE HealthAnswer(p)
  <2>1. /\ probe[p].pc = "read" /\ Served(p, probe[p].answer) /\ UNCHANGED <<stored, flight, truth>>
    BY <1>2 DEF HealthAnswer
  <2>2. probe[p].answer \in Answer /\ (p = "sim" => sim.pc = "asking")
    BY <2>1 DEF StreamTypes, Probes
  <2> QED
    BY <2>1, <2>2 DEF AnswersInv
<1> QED
  BY <1>1, <1>2

\* The other steps begin no run, and none but SimEnds ends one.
LEMMA SimElsewhere ==
    ASSUME StreamTypes,
           \/ SimStart \/ AskFails \/ HealthExpires \/ Tick \/ Store \/ UNCHANGED streamVars
           \/ \E p \in Prober : AskTimesOut(p)
           \/ \E p \in Caller : HealthLock(p) \/ HealthWait(p) \/ \E ok \in BOOLEAN : HealthRead(p, ok)
           \/ \E n \in 0..Len(flight) : SimEnds(n) \/ ApiRestart(n)
    PROVE  /\ sim' = sim \/ sim'.pc # "run"
           /\ sim' = sim \/ sim.pc # "run" \/ \E n \in 0..Len(flight) : SimEnds(n)
<1>1. \/ sim' = sim
      \/ sim' = Retry /\ sim.pc = "asking"
      \/ sim' = [pc |-> "asking", tries |-> 0] /\ sim.pc = "down"
      \/ sim' = Down /\ (sim.pc = "asking" \/ \E n \in 0..Len(flight) : SimEnds(n))
  BY DEF StreamTypes, SimStart, AskFails, HealthExpires, Tick, Store, streamVars, AskTimesOut,
         HealthLock, HealthWait, HealthRead, SimEnds, ApiRestart
<1>2. sim.pc = "asking" => Retry.pc # "run"
  BY RetryIs DEF StreamTypes, Stopped
<1>3. Down.pc # "run"
  BY DEF Down
<1> QED
  BY <1>1, <1>2, <1>3

LEMMA RunStep ==
    ASSUME StreamTypes, NEW e \in 0..MaxTs, AnswersInv(e), RunInv, StreamStep
    PROVE  RunInv'
<1>1. ASSUME NEW begin \in BOOLEAN, Publish(begin)
      PROVE  RunInv'
  <2> DEFINE b == Buildings[sim.pos]
  <2>1. /\ sim.pc = "run" /\ sim.next \in Ts /\ sim.known \in Nat /\ sim'.known = sim.known
        /\ sim'.next = sim.next + 1 \/ sim'.next = sim.next
        /\ \/ truth' = truth
           \/ truth' = truth \cup {[b |-> b, ts |-> sim.next, known |-> sim.known]}
    BY <1>1, PublishIs
  <2>2. sim.known < sim.next /\ sim.next \in Nat
    BY <2>1, StationAssumption DEF RunInv, Ts
  <2>3. sim'.known < sim'.next
    BY <2>1, <2>2
  <2>4. \A line \in truth' : line.ts > line.known
    BY <2>1, <2>2 DEF RunInv, TruthAfterHistory
  <2> QED
    BY <2>3, <2>4 DEF RunInv, TruthAfterHistory
<1>2. ASSUME NEW p \in Caller, HealthCached(p) \/ HealthAnswer(p)
      PROVE  RunInv'
  <2>1. PICK a \in Answer : Sound(a, e) /\ Served(p, a)
    BY <1>2, WhoIsServed
  <2>2. truth' = truth /\ (p = "sim" => sim.pc = "asking")
    BY <1>2, WhoIsServed
  <2>3. sim' = sim \/ sim'.pc # "run" \/ sim'.known < sim'.next
    BY <2>1, <2>2, ServedRun
  <2> QED
    BY <2>2, <2>3 DEF RunInv, TruthAfterHistory
<1>3. ASSUME \/ SimStart \/ AskFails \/ HealthExpires \/ Tick \/ Store \/ UNCHANGED streamVars
             \/ \E p \in Prober : AskTimesOut(p)
             \/ \E p \in Caller : HealthLock(p) \/ HealthWait(p) \/ \E ok \in BOOLEAN : HealthRead(p, ok)
             \/ \E n \in 0..Len(flight) : SimEnds(n) \/ ApiRestart(n)
      PROVE  RunInv'
  <2>1. truth' = truth
    BY <1>3 DEF SimStart, AskFails, HealthExpires, Tick, Store, streamVars, AskTimesOut, HealthLock,
                HealthWait, HealthRead, SimEnds, ApiRestart
  <2>2. sim' = sim \/ sim'.pc # "run"
    BY <1>3, SimElsewhere
  <2> QED
    BY <2>1, <2>2 DEF RunInv, TruthAfterHistory
<1> QED
  BY <1>1, <1>2, <1>3 DEF StreamStep, SimNext, HealthNext, EndNext

----------------------------------------------------------------------------
(* The stored data and their holes *)

LEMMA StoredTsIs ==
    ASSUME NEW b, NEW t
    PROVE  t \in StoredTs(b) <=> \E r \in stored : r.b = b /\ r.ts = t
  BY DEF StoredTs

\* Cover is kept where nothing is lost without a trace and nothing new comes in.
LEMMA CoverKept ==
    ASSUME NEW e \in 0..MaxTs, CoverInv(e),
           \A b \in Building : \A t \in 1..MaxTs : Have(b, t) => Have(b, t)',
           \A t \in 1..MaxTs : Reached(t)' => Reached(t),
           \A k \in DOMAIN Buildings : \A t \in 1..MaxTs : Owed(k, t) => Owed(k, t)' \/ Have(Buildings[k], t)',
           sim'.pc = "run" => /\ sim' = sim /\ sim.next \in Nat
                              /\ \A b \in Building : \A t \in 1..sim.next : Have(b, t) => Have(b, t)'
    PROVE  CoverInv(e)'
<1>1. e \in Nat /\ MaxTs \in Nat
  BY StationAssumption
<1>2. \A k \in DOMAIN Buildings : Buildings[k] \in Building
  BY PortfolioIs
<1>3. \A u \in (e + 1)..MaxTs : u \in 1..MaxTs
  BY <1>1
<1>4. ASSUME NEW k \in DOMAIN Buildings, NEW u \in (e + 1)..MaxTs, Reached(u)'
      PROVE  Have(Buildings[k], u)' \/ Owed(k, u)'
  <2>1. Have(Buildings[k], u) \/ Owed(k, u)
    BY <1>3, <1>4 DEF CoverInv
  <2> QED
    BY <1>2, <1>3, <2>1
<1>5. ASSUME sim'.pc = "run", NEW k \in DOMAIN Buildings, NEW u \in (e + 1)..(sim'.next),
             u < sim'.next \/ k < sim'.pos
      PROVE  Have(Buildings[k], u)'
  <2>1. sim' = sim /\ sim.next \in Nat
    BY <1>5
  <2>2. u \in (e + 1)..sim.next /\ u \in 1..sim.next
    BY <1>1, <2>1
  <2>3. Have(Buildings[k], u)
    BY <1>5, <2>1, <2>2 DEF CoverInv
  <2> QED
    BY <1>2, <1>5, <2>2, <2>3
<1>6. sim'.pc = "run" => e < sim'.next
  BY DEF CoverInv
<1> QED
  BY <1>4, <1>5, <1>6 DEF CoverInv

\* Nothing moves.
LEMMA HistoryQuiet ==
    ASSUME NEW e, HistoryInv(e), UNCHANGED <<stored, flight, gone>>, AnswersInv(e)',
           sim' = sim \/ (sim.pc # "run" /\ sim'.pc # "run")
    PROVE  HistoryInv(e)'
<1>1. \A b, t : Have(b, t)' = Have(b, t) /\ Seen(b, t)' = Seen(b, t)
  BY DEF Have, Seen, InFlight, StoredTs
<1>2. SeedInv(e)'
  BY DEF HistoryInv, SeedInv, StoredTs
<1>3. OrderInv(e)'
  BY <1>1 DEF HistoryInv, OrderInv, Ahead
<1>4. CoverInv(e)'
  BY <1>1 DEF HistoryInv, CoverInv, Reached, Owed
<1> QED
  BY <1>2, <1>3, <1>4 DEF HistoryInv

\* A run begins.
LEMMA HistoryBegins ==
    ASSUME StreamTypes, NEW e \in 0..MaxTs, HistoryInv(e), UNCHANGED <<stored, flight>>, AnswersInv(e)',
           sim.pc # "run", sim'.pc = "run", sim'.pos = 1, sim'.next \in Nat, e < sim'.next,
           gone \subseteq gone',
           \/ \E r \in stored : sim'.next <= r.ts + 1
           \/ \A b \in Building : \A t \in 0..(sim'.next - 1) : <<b, t>> \in gone'
    PROVE  HistoryInv(e)'
<1>0. \A b, t : (Have(b, t) => Have(b, t)') /\ (Seen(b, t) => Seen(b, t)')
  BY DEF Have, Seen, InFlight, StoredTs
<1>1. \A t : Reached(t)' <=> Reached(t)
  BY DEF Reached
<1>2. \A k \in DOMAIN Buildings : Buildings[k] \in Building /\ k >= 1 /\ k \in Nat
  BY PortfolioIs
<1>3. SeedInv(e)'
  BY DEF HistoryInv, SeedInv, StoredTs
<1>4. OrderInv(e)'
  BY <1>0 DEF HistoryInv, OrderInv, Ahead
<1>5. e \in Nat /\ MaxTs \in Nat /\ \A r \in stored : r.ts \in 1..MaxTs
  BY StationAssumption DEF StreamTypes, Readings, Ts
<1>6. ASSUME NEW k \in DOMAIN Buildings, NEW u \in (e + 1)..MaxTs, Reached(u)
      PROVE  Have(Buildings[k], u)'
  BY <1>0, <1>6 DEF HistoryInv, CoverInv, Owed
<1>7. ASSUME NEW k \in DOMAIN Buildings, NEW u \in (e + 1)..(sim'.next), u < sim'.next \/ k < sim'.pos
      PROVE  Have(Buildings[k], u)'
  <2>1. u \in Nat /\ u < sim'.next /\ u >= e + 1
    BY <1>2, <1>5, <1>7
  <2>2. CASE \E r \in stored : sim'.next <= r.ts + 1
    <3>1. PICK r \in stored : sim'.next <= r.ts + 1
      BY <2>2
    <3>2. u <= r.ts /\ u <= MaxTs
      BY <1>5, <2>1, <3>1
    <3>3. Reached(u) /\ u \in (e + 1)..MaxTs
      BY <1>5, <2>1, <3>2 DEF Reached
    <3> QED
      BY <1>6, <3>3
  <2>3. CASE \A b \in Building : \A t \in 0..(sim'.next - 1) : <<b, t>> \in gone'
    <3>1. u \in 0..(sim'.next - 1)
      BY <2>1
    <3>2. <<Buildings[k], u>> \in gone'
      BY <1>2, <2>3, <3>1
    <3> QED
      BY <3>2 DEF Have, Seen
  <2> QED
    BY <2>2, <2>3
<1>8. CoverInv(e)'
  BY <1>1, <1>6, <1>7 DEF CoverInv
<1> QED
  BY <1>3, <1>4, <1>8 DEF HistoryInv

\* A round goes on by one building.
LEMMA HistoryPublish ==
    ASSUME StreamTypes, NEW e \in 0..MaxTs, HistoryInv(e), AnswersInv(e)',
           NEW begin \in BOOLEAN, Publish(begin)
    PROVE  HistoryInv(e)'
<1>0. PICK b, L, x, p : b = Buildings[p] /\ L = Len(flight) /\ x = sim.next /\ p = sim.pos
  OBVIOUS
<1>1. /\ sim.pc = "run" /\ sim' \in Runs /\ p \in 1..Len(Buildings) /\ b \in Building /\ x \in Ts
      /\ \/ p = Len(Buildings) /\ sim'.pos = 1 /\ sim'.next = x + 1
         \/ p # Len(Buildings) /\ sim'.pos = p + 1 /\ sim'.next = x
      /\ UNCHANGED <<stored, gone>>
  BY <1>0, PublishIs
<1>2. PICK f \in BOOLEAN : flight' = Append(flight, [b |-> b, ts |-> x, faulty |-> f])
  BY <1>0, PublishIs
<1>3. sim'.pc = "run"
  BY <1>1 DEF Runs
<1>4. flight \in Seq(Readings)
  BY DEF StreamTypes
<1>5. L \in Nat /\ DOMAIN flight = 1..L /\ DOMAIN flight' = 1..(L + 1)
      /\ (\A i \in 1..L : i \in 1..(L + 1) /\ flight'[i] = flight[i])
      /\ flight'[L + 1].b = b /\ flight'[L + 1].ts = x
  BY <1>0, <1>2, <1>4
<1>6. e \in Nat /\ MaxTs \in Nat /\ x \in Nat /\ x >= 1 /\ x <= MaxTs
  BY <1>1, StationAssumption DEF Ts
<1>7. /\ SeedInv(e) /\ OrderInv(e) /\ e < x
      /\ \A k \in DOMAIN Buildings : \A u \in (e + 1)..x : u < x \/ k < p => Have(Buildings[k], u)
      /\ \A k \in DOMAIN Buildings : \A u \in (e + 1)..MaxTs :
            Reached(u) => Have(Buildings[k], u) \/ Owed(k, u)
  BY <1>0, <1>1 DEF HistoryInv, CoverInv
<1>8. Len(Buildings) \in Nat /\ DOMAIN Buildings = 1..Len(Buildings)
  BY PortfolioIs
<1>k. /\ p \in Nat /\ p >= 1 /\ p <= Len(Buildings)
      /\ \A k \in DOMAIN Buildings : k \in Nat /\ k <= Len(Buildings)
  <2>1. \A n \in Nat : \A k \in 1..n : k \in Nat /\ k >= 1 /\ k <= n
    OBVIOUS
  <2> QED
    BY <1>1, <1>8, <2>1
<1>9. \A c, t : Seen(c, t)' = Seen(c, t)
  BY <1>1 DEF Seen, StoredTs
<1>10. \A c, t : Have(c, t) => Have(c, t)'
  BY <1>5, <1>9 DEF Have, InFlight
<1>11. Have(b, x)'
  <2>1. L + 1 \in DOMAIN flight'
    BY <1>5
  <2> QED
    BY <1>5, <2>1 DEF Have, InFlight
<1>12. SeedInv(e)'
  <2>1. \A i \in DOMAIN flight' : e < flight'[i].ts
    <3>1. ASSUME NEW i \in 1..(L + 1) PROVE e < flight'[i].ts
      <4>1. i \in 1..L \/ i = L + 1
        BY <1>5
      <4> QED
        BY <1>5, <1>7, <4>1 DEF SeedInv
    <3> QED
      BY <1>5, <3>1
  <2> QED
    BY <1>1, <1>7, <2>1 DEF SeedInv, StoredTs
<1>13. OrderInv(e)'
  <2>1. \A r \in stored' : \A u \in (e + 1)..(r.ts - 1) : Seen(r.b, u)'
    BY <1>1, <1>7, <1>9 DEF OrderInv
  <2>2. ASSUME NEW i \in 1..(L + 1), NEW u \in (e + 1)..(flight'[i].ts - 1),
               NEW c, c = flight'[i].b
        PROVE  Seen(c, u)' \/ Ahead(i, c, u)'
    <3>1. CASE i \in 1..L
      <4>1. flight'[i] = flight[i]
        BY <1>5, <3>1
      <4>2. Seen(flight[i].b, u) \/ Ahead(i, flight[i].b, u)
        BY <1>5, <1>7, <3>1, <4>1 DEF OrderInv
      <4>3. \A j \in 1..(i - 1) : j \in 1..L
        BY <1>5, <3>1
      <4> QED
        BY <1>5, <1>9, <2>2, <4>1, <4>2, <4>3 DEF Ahead
    <3>2. CASE i = L + 1
      <4>1. flight'[i].b = b /\ flight'[i].ts = x
        BY <1>5, <3>2
      <4>2. u \in (e + 1)..x /\ u < x
        BY <1>6, <4>1
      <4>3. Have(b, u)
        BY <1>1, <1>7, <1>8, <4>2, <1>0
      <4>4. CASE Seen(b, u)
        BY <1>9, <2>2, <4>1, <4>4
      <4>5. CASE InFlight(b, u)
        <5>1. PICK j \in 1..L : flight[j].b = b /\ flight[j].ts = u
          BY <1>5, <4>5 DEF InFlight
        <5>2. j \in 1..(i - 1) /\ flight'[j] = flight[j]
          BY <1>5, <3>2, <5>1
        <5> QED
          BY <2>2, <4>1, <5>1, <5>2 DEF Ahead
      <4> QED
        BY <4>3, <4>4, <4>5 DEF Have
    <3>3. i \in 1..L \/ i = L + 1
      BY <1>5
    <3> QED
      BY <3>1, <3>2, <3>3
  <2>3. ASSUME NEW i \in DOMAIN flight', NEW u \in (e + 1)..(flight'[i].ts - 1)
        PROVE  \/ u \in { r.ts : r \in { q \in stored' : q.b = flight'[i].b } }
               \/ <<flight'[i].b, u>> \in gone'
               \/ \E j \in 1..(i - 1) : flight'[j].b = flight'[i].b /\ flight'[j].ts = u
    <3>0. PICK c : c = flight'[i].b
      OBVIOUS
    <3>1. Seen(c, u)' \/ Ahead(i, c, u)'
      BY <1>5, <2>2, <3>0
    <3> QED
      BY <3>0, <3>1 DEF Seen, Ahead, StoredTs
  <2> QED
    BY <2>1, <2>3 DEF OrderInv, Seen, Ahead, StoredTs
<1>14. ASSUME NEW k \in DOMAIN Buildings, NEW u \in (e + 1)..x, u < x \/ k <= p
       PROVE  Have(Buildings[k], u)'
  <2>1. u < x \/ k < p \/ (u = x /\ k = p)
    <3>1. k \in Nat /\ p \in Nat /\ u \in Nat /\ x \in Nat /\ u <= x
      BY <1>6, <1>k
    <3> QED
      BY <1>14, <3>1
  <2>2. k = p /\ u = x => Have(Buildings[k], u)'
    BY <1>0, <1>11
  <2> QED
    BY <1>7, <1>10, <2>1, <2>2
<1>15. ASSUME NEW k \in DOMAIN Buildings, NEW u \in (e + 1)..MaxTs, Reached(u)'
       PROVE  Have(Buildings[k], u)' \/ Owed(k, u)'
  <2>1. CASE Reached(u) /\ Have(Buildings[k], u)
    BY <1>10, <2>1
  <2>2. CASE u = x
    <3>1. u \in (e + 1)..x
      BY <1>6, <1>7, <2>2
    <3>2. CASE k <= p
      BY <1>14, <3>1, <3>2
    <3>3. CASE k > p
      <4>1. p # Len(Buildings) /\ k >= p + 1 /\ p + 1 # 1
        <5>1. k \in Nat /\ k <= Len(Buildings) /\ p \in Nat /\ p >= 1
          BY <1>k
        <5>2. \A l, i, j \in Nat : i >= 1 /\ j <= l /\ j > i => i # l /\ j >= i + 1 /\ i + 1 # 1
          OBVIOUS
        <5> QED
          BY <1>8, <3>3, <5>1, <5>2
      <4>2. sim'.pos = p + 1 /\ sim'.next = x
        BY <1>1, <4>1
      <4> QED
        BY <1>3, <2>2, <4>1, <4>2 DEF Owed
    <3> QED
      BY <1>k, <3>2, <3>3
  <2>3. CASE Reached(u) /\ Owed(k, u)
    BY <1>0, <2>2, <2>3 DEF Owed
  <2>4. CASE ~Reached(u)
    <3>1. PICK i \in 1..(L + 1) : u <= flight'[i].ts
      BY <1>1, <1>5, <1>15, <2>4 DEF Reached
    <3>2. i = L + 1
      BY <1>5, <2>4, <3>1 DEF Reached
    <3>3. u <= x
      BY <1>5, <3>1, <3>2
    <3>4. u = x \/ (u < x /\ u \in (e + 1)..x)
      BY <1>6, <3>3
    <3> QED
      BY <1>14, <2>2, <3>4
  <2> QED
    BY <1>7, <2>1, <2>3, <2>4
<1>16. ASSUME NEW k \in DOMAIN Buildings, NEW u \in (e + 1)..(sim'.next), u < sim'.next \/ k < sim'.pos
       PROVE  Have(Buildings[k], u)'
  <2>1. u \in (e + 1)..x /\ (u < x \/ k <= p)
    <3>1. k \in Nat /\ p \in Nat /\ x \in Nat /\ ~(k < 1)
      BY <1>6, <1>8, <1>k
    <3>2. CASE sim'.pos = 1 /\ sim'.next = x + 1 /\ p = Len(Buildings)
      <4>1. u \in Nat /\ u >= e + 1 /\ u < x + 1 /\ k <= p
        BY <1>6, <1>k, <1>16, <3>1, <3>2
      <4> QED
        BY <1>6, <3>1, <4>1
    <3>3. CASE sim'.pos = p + 1 /\ sim'.next = x
      BY <1>6, <1>16, <3>1, <3>3
    <3> QED
      BY <1>1, <3>2, <3>3
  <2> QED
    BY <1>14, <2>1
<1>17. e < sim'.next
  BY <1>1, <1>6, <1>7
<1>18. CoverInv(e)'
  BY <1>15, <1>16, <1>17 DEF CoverInv
<1> QED
  BY <1>12, <1>13, <1>18 DEF HistoryInv

\* A run ends: what it had not sent, and the rest of its round, are lost.
LEMMA HistoryEnds ==
    ASSUME StreamTypes, NEW e \in 0..MaxTs, HistoryInv(e), AnswersInv(e)',
           NEW n \in 0..Len(flight), SimEnds(n)
    PROVE  HistoryInv(e)'
<1> DEFINE L == Len(flight)
           m == L - n
<1>1. /\ sim.pc = "run" /\ flight' = SubSeq(flight, 1, m) /\ sim' = Down /\ stored' = stored
      /\ gone' = gone \cup { <<flight[i].b, flight[i].ts>> : i \in (m + 1)..L }
                    \cup (IF sim.pos = 1 THEN {}
                          ELSE { <<Buildings[i], sim.next>> : i \in sim.pos..Len(Buildings) })
  BY DEF SimEnds
<1>2. flight \in Seq(Readings) /\ L \in Nat /\ n \in Nat /\ n <= L /\ DOMAIN flight = 1..L
  BY DEF StreamTypes
<1>3. m \in Nat /\ m <= L /\ DOMAIN flight' = 1..m /\ \A i \in 1..m : i \in 1..L /\ flight'[i] = flight[i]
  BY <1>1, <1>2, Pieces
<1>4. sim'.pc # "run"
  BY <1>1 DEF Down
<1>5. SeedInv(e) /\ OrderInv(e) /\ CoverInv(e)
  BY DEF HistoryInv
<1>6. gone \subseteq gone' /\ \A i \in 1..L : i \in 1..m \/ <<flight[i].b, flight[i].ts>> \in gone'
  <2>1. \A i \in 1..L : i \in 1..m \/ i \in (m + 1)..L
    BY <1>2, <1>3
  <2> HIDE DEF m, L
  <2> QED
    BY <1>1, <2>1
<1>7. \A k \in DOMAIN Buildings : \A t : Owed(k, t) => <<Buildings[k], t>> \in gone'
  <2>1. DOMAIN Buildings = 1..Len(Buildings) /\ Len(Buildings) \in Nat
    BY PortfolioIs
  <2>2. sim.pos \in 1..Len(Buildings)
    BY <1>1, <2>1 DEF StreamTypes, Stopped, Runs
  <2>3. \A k \in DOMAIN Buildings : k >= sim.pos => k \in sim.pos..Len(Buildings)
    BY <2>1, <2>2
  <2> HIDE DEF m, L
  <2> QED
    BY <1>1, <2>3 DEF Owed
<1> HIDE DEF m, L
<1>8. \A b, t : Seen(b, t) => Seen(b, t)'
  BY <1>1, <1>6 DEF Seen, StoredTs
<1>9. \A b, t : Have(b, t) => Have(b, t)'
  <2>1. ASSUME NEW b, NEW t, InFlight(b, t) PROVE Have(b, t)'
    <3>1. PICK i \in 1..L : flight[i].b = b /\ flight[i].ts = t
      BY <1>2, <2>1 DEF InFlight
    <3>2. CASE i \in 1..m
      BY <1>3, <3>1, <3>2 DEF Have, InFlight
    <3>3. CASE <<flight[i].b, flight[i].ts>> \in gone'
      BY <3>1, <3>3 DEF Have, Seen
    <3> QED
      BY <1>6, <3>2, <3>3
  <2> QED
    BY <1>8, <2>1 DEF Have
<1>10. \A t : Reached(t)' => Reached(t)
  BY <1>1, <1>2, <1>3 DEF Reached
<1>11. SeedInv(e)'
  BY <1>1, <1>2, <1>3, <1>5 DEF SeedInv, StoredTs
<1>12. OrderInv(e)'
  <2>1. \A r \in stored' : \A u \in (e + 1)..(r.ts - 1) : Seen(r.b, u)'
    BY <1>1, <1>5, <1>8 DEF OrderInv
  <2>2. ASSUME NEW i \in 1..m, NEW u \in (e + 1)..(flight'[i].ts - 1),
               NEW c, c = flight'[i].b
        PROVE  Seen(c, u)' \/ Ahead(i, c, u)'
    <3>1. flight'[i] = flight[i] /\ i \in DOMAIN flight
      BY <1>2, <1>3
    <3>2. Seen(flight[i].b, u) \/ Ahead(i, flight[i].b, u)
      BY <1>5, <3>1 DEF OrderInv
    <3>3. \A j \in 1..(i - 1) : j \in 1..m
      BY <1>3
    <3> QED
      BY <1>3, <1>8, <2>2, <3>1, <3>2, <3>3 DEF Ahead
  <2>3. ASSUME NEW i \in DOMAIN flight', NEW u \in (e + 1)..(flight'[i].ts - 1)
        PROVE  \/ u \in { r.ts : r \in { q \in stored' : q.b = flight'[i].b } }
               \/ <<flight'[i].b, u>> \in gone'
               \/ \E j \in 1..(i - 1) : flight'[j].b = flight'[i].b /\ flight'[j].ts = u
    <3>0. PICK c : c = flight'[i].b
      OBVIOUS
    <3>1. Seen(c, u)' \/ Ahead(i, c, u)'
      BY <1>3, <2>2, <3>0
    <3> QED
      BY <3>0, <3>1 DEF Seen, Ahead, StoredTs
  <2> QED
    BY <2>1, <2>3 DEF OrderInv, Seen, Ahead, StoredTs
<1>13. \A k \in DOMAIN Buildings : \A t : Owed(k, t) => Have(Buildings[k], t)'
  BY <1>7 DEF Have, Seen
<1>14. CoverInv(e)'
  BY <1>4, <1>5, <1>9, <1>10, <1>13, CoverKept
<1> QED
  BY <1>11, <1>12, <1>14 DEF HistoryInv

\* The API goes down with the first n readings in its memory.
LEMMA HistoryRestarts ==
    ASSUME StreamTypes, NEW e \in 0..MaxTs, HistoryInv(e), AnswersInv(e)',
           NEW n \in 0..Len(flight), ApiRestart(n)
    PROVE  HistoryInv(e)'
<1>0. PICK L, m : L = Len(flight) /\ m = L - n
  OBVIOUS
<1>1. /\ flight' = SubSeq(flight, n + 1, Len(flight)) /\ stored' = stored
      /\ gone' = gone \cup { <<flight[i].b, flight[i].ts>> : i \in 1..n }
  BY DEF ApiRestart
<1>2. flight \in Seq(Readings) /\ L \in Nat /\ n \in Nat /\ n <= L /\ DOMAIN flight = 1..L
  BY <1>0 DEF StreamTypes
<1>3. m \in Nat /\ m + n = L /\ DOMAIN flight' = 1..m /\ \A i \in 1..m : flight'[i] = flight[n + i]
  <2>1. m \in Nat /\ m + n = L
    BY <1>0, <1>2
  <2> QED
    BY <1>0, <1>1, <1>2, <2>1, Pieces
<1>4. \A i \in 1..m : n + i \in 1..L
  BY <1>2, <1>3
<1>5. \A i \in 1..L : i \in 1..n \/ (i - n \in 1..m /\ n + (i - n) = i)
  BY <1>2, <1>3
<1>6. SeedInv(e) /\ OrderInv(e) /\ CoverInv(e)
  BY DEF HistoryInv
<1>7. sim' = sim \/ (sim.pc # "run" /\ sim'.pc # "run")
  <2>1. \/ sim' = sim
        \/ sim' = Retry /\ sim.pc = "asking"
    BY DEF ApiRestart, StreamTypes
  <2>2. sim.pc = "asking" => Retry.pc # "run"
    BY RetryIs DEF StreamTypes, Stopped
  <2> QED
    BY <2>1, <2>2
<1>8. \A b, t : Seen(b, t) => Seen(b, t)'
  BY <1>1 DEF Seen, StoredTs
<1>9. \A i \in 1..n : \A b, t : flight[i].b = b /\ flight[i].ts = t => Seen(b, t)'
  BY <1>1 DEF Seen
<1>10. \A b, t : Have(b, t) => Have(b, t)'
  <2>1. ASSUME NEW b, NEW t, InFlight(b, t) PROVE Have(b, t)'
    <3>1. PICK i \in 1..L : flight[i].b = b /\ flight[i].ts = t
      BY <1>2, <2>1 DEF InFlight
    <3>2. CASE i \in 1..n
      BY <1>9, <3>1, <3>2 DEF Have
    <3>3. CASE i - n \in 1..m /\ n + (i - n) = i
      <4>1. flight'[i - n] = flight[i]
        BY <1>3, <3>3
      <4> QED
        BY <1>3, <3>1, <3>3, <4>1 DEF Have, InFlight
    <3> QED
      BY <1>5, <3>2, <3>3
  <2> QED
    BY <1>8, <2>1 DEF Have
<1>11. \A t : Reached(t)' => Reached(t)
  BY <1>1, <1>2, <1>3, <1>4 DEF Reached
<1>12. SeedInv(e)'
  BY <1>1, <1>2, <1>3, <1>4, <1>6 DEF SeedInv, StoredTs
<1>13. OrderInv(e)'
  <2>1. \A r \in stored' : \A u \in (e + 1)..(r.ts - 1) : Seen(r.b, u)'
    BY <1>1, <1>6, <1>8 DEF OrderInv
  <2>2. ASSUME NEW i \in 1..m, NEW u \in (e + 1)..(flight'[i].ts - 1),
               NEW c, c = flight'[i].b
        PROVE  Seen(c, u)' \/ Ahead(i, c, u)'
    <3>1. flight'[i] = flight[n + i] /\ n + i \in DOMAIN flight
      BY <1>2, <1>3, <1>4
    <3>2. Seen(c, u) \/ Ahead(n + i, c, u)
      BY <1>6, <2>2, <3>1 DEF OrderInv
    <3>3. CASE Ahead(n + i, c, u)
      <4>1. PICK j \in 1..(n + i - 1) : flight[j].b = c /\ flight[j].ts = u
        BY <3>3 DEF Ahead
      <4>2. j \in 1..n \/ (j - n \in 1..(i - 1) /\ j - n \in 1..m /\ n + (j - n) = j)
        BY <1>2, <1>3
      <4>3. CASE j \in 1..n
        BY <1>9, <4>1, <4>3
      <4>4. CASE j - n \in 1..(i - 1) /\ j - n \in 1..m /\ n + (j - n) = j
        <5>1. flight'[j - n] = flight[j]
          BY <1>3, <4>4
        <5> QED
          BY <4>1, <4>4, <5>1 DEF Ahead
      <4> QED
        BY <4>2, <4>3, <4>4
    <3> QED
      BY <1>8, <3>2, <3>3
  <2>3. \A i \in DOMAIN flight' : \A u \in (e + 1)..(flight'[i].ts - 1) :
           (Seen(flight[i].b, u) \/ Ahead(i, flight[i].b, u))'
    <3> SUFFICES ASSUME NEW i \in DOMAIN flight', NEW u \in (e + 1)..(flight'[i].ts - 1)
                 PROVE  (Seen(flight[i].b, u) \/ Ahead(i, flight[i].b, u))'
      OBVIOUS
    <3>1. PICK c : c = flight'[i].b
      OBVIOUS
    <3>2. Seen(c, u)' \/ Ahead(i, c, u)'
      BY <1>3, <2>2, <3>1
    <3> QED
      BY <3>1, <3>2 DEF Seen, Ahead, StoredTs
  <2> QED
    BY <2>1, <2>3 DEF OrderInv
<1>14. \A k, t : Owed(k, t) => Owed(k, t)'
  BY <1>7 DEF Owed
<1>15. sim'.pc = "run" => sim' = sim /\ sim.next \in Nat
  BY <1>7 DEF StreamTypes, Stopped, Runs
<1>16. CoverInv(e)'
  BY <1>6, <1>10, <1>11, <1>14, <1>15, CoverKept
<1> QED
  BY <1>12, <1>13, <1>16 DEF HistoryInv

\* A reading is stored, or found late: then one like it is stored or lost already.
LEMMA HistoryStores ==
    ASSUME StreamTypes, NEW e \in 0..MaxTs, HistoryInv(e), AnswersInv(e)', Store
    PROVE  HistoryInv(e)'
<1>0. PICK L, h : L = Len(flight) /\ h = Head(flight)
  OBVIOUS
<1>1. /\ flight # <<>> /\ flight' = Tail(flight) /\ UNCHANGED <<sim, gone>>
      /\ stored' = IF Late(h) THEN stored ELSE stored \cup {h}
  BY <1>0 DEF Store
<1>2. /\ flight \in Seq(Readings) /\ L \in Nat \ {0} /\ DOMAIN flight = 1..L
      /\ h = flight[1] /\ 1 \in 1..L /\ h \in Readings
  BY <1>0, <1>1 DEF StreamTypes
<1>3. DOMAIN flight' = 1..(L - 1) /\ \A i \in 1..(L - 1) : flight'[i] = flight[i + 1] /\ i + 1 \in 1..L
  BY <1>0, <1>1, <1>2
<1>4. \A i \in 1..L : i = 1 \/ (i - 1 \in 1..(L - 1) /\ (i - 1) + 1 = i)
  BY <1>2
<1>5. SeedInv(e) /\ OrderInv(e) /\ CoverInv(e)
  BY DEF HistoryInv
<1>6. e \in Nat /\ h.ts \in Nat /\ e < h.ts /\ \A r \in stored : r.ts \in Nat
  BY <1>2, <1>5, StationAssumption DEF SeedInv, Readings, Ts, StreamTypes
<1>7. \A b, t : Seen(b, t) => Seen(b, t)'
  BY <1>1 DEF Seen, StoredTs
<1>8. Seen(h.b, h.ts)'
  <2>1. CASE ~Late(h)
    <3>1. h \in stored'
      BY <1>1, <2>1
    <3> QED
      BY <3>1 DEF Seen, StoredTs
  <2>2. CASE Late(h)
    <3>1. PICK r \in stored : r.b = h.b /\ h.ts <= r.ts
      BY <2>2 DEF Late, StoredTs
    <3>2. CASE h.ts = r.ts
      <4>1. Seen(h.b, h.ts)
        BY <3>1, <3>2 DEF Seen, StoredTs
      <4> QED
        BY <1>7, <4>1
    <3>3. CASE h.ts # r.ts
      <4>1. h.ts \in (e + 1)..(r.ts - 1)
        BY <1>6, <3>1, <3>3
      <4>2. Seen(h.b, h.ts)
        BY <1>5, <3>1, <4>1 DEF OrderInv
      <4> QED
        BY <1>7, <4>2
    <3> QED
      BY <3>2, <3>3
  <2> QED
    BY <2>1, <2>2
<1>9. \A b, t : Have(b, t) => Have(b, t)'
  <2>1. ASSUME NEW b, NEW t, InFlight(b, t) PROVE Have(b, t)'
    <3>1. PICK i \in 1..L : flight[i].b = b /\ flight[i].ts = t
      BY <1>2, <2>1 DEF InFlight
    <3>2. CASE i = 1
      BY <1>2, <1>8, <3>1, <3>2 DEF Have
    <3>3. CASE i - 1 \in 1..(L - 1) /\ (i - 1) + 1 = i
      <4>1. flight'[i - 1] = flight[i]
        BY <1>3, <3>3
      <4> QED
        BY <1>3, <3>1, <3>3, <4>1 DEF Have, InFlight
    <3> QED
      BY <1>4, <3>2, <3>3
  <2> QED
    BY <1>7, <2>1 DEF Have
<1>10. stored \subseteq stored' /\ stored' \subseteq stored \cup {h}
  BY <1>1
<1>11. \A t : Reached(t)' => Reached(t)
  BY <1>2, <1>3, <1>10 DEF Reached
<1>12. SeedInv(e)'
  <2>1. e = 0 \/ \E r \in stored' : e <= r.ts
    BY <1>5, <1>10 DEF SeedInv
  <2>2. \A i \in DOMAIN flight' : e < flight'[i].ts
    BY <1>2, <1>3, <1>5 DEF SeedInv
  <2>3. ASSUME NEW b \in Building
        PROVE  \/ \A t \in 1..e : t \in StoredTs(b)'
               \/ \A t \in StoredTs(b)' : e < t
    <3>1. CASE \A t \in 1..e : t \in StoredTs(b)
      BY <1>10, <3>1 DEF StoredTs
    <3>2. CASE \A t \in StoredTs(b) : e < t
      BY <1>6, <1>10, <3>2 DEF StoredTs
    <3> QED
      BY <1>5, <3>1, <3>2 DEF SeedInv
  <2> QED
    BY <2>1, <2>2, <2>3 DEF SeedInv
<1>13. OrderInv(e)'
  <2>1. ASSUME NEW r \in stored', NEW u \in (e + 1)..(r.ts - 1)
        PROVE  Seen(r.b, u)'
    <3>1. CASE r \in stored
      <4>1. Seen(r.b, u)
        BY <1>5, <3>1 DEF OrderInv
      <4> QED
        BY <1>7, <4>1
    <3>2. CASE r = h
      <4>1. Seen(h.b, u) \/ Ahead(1, h.b, u)
        BY <1>2, <1>5, <3>2 DEF OrderInv
      <4>2. ~Ahead(1, h.b, u)
        BY DEF Ahead
      <4> QED
        BY <1>7, <3>2, <4>1, <4>2
    <3> QED
      BY <1>10, <3>1, <3>2
  <2>2. ASSUME NEW i \in 1..(L - 1), NEW u \in (e + 1)..(flight'[i].ts - 1),
               NEW c, c = flight'[i].b
        PROVE  Seen(c, u)' \/ Ahead(i, c, u)'
    <3>1. flight'[i] = flight[i + 1] /\ i + 1 \in DOMAIN flight
      BY <1>2, <1>3
    <3>2. Seen(c, u) \/ Ahead(i + 1, c, u)
      BY <1>5, <2>2, <3>1 DEF OrderInv
    <3>3. CASE Ahead(i + 1, c, u)
      <4>1. PICK j \in 1..(i + 1 - 1) : flight[j].b = c /\ flight[j].ts = u
        BY <3>3 DEF Ahead
      <4>2. j = 1 \/ (j - 1 \in 1..(i - 1) /\ j - 1 \in 1..(L - 1) /\ (j - 1) + 1 = j)
        BY <1>2
      <4>3. CASE j = 1
        BY <1>2, <1>8, <4>1, <4>3
      <4>4. CASE j - 1 \in 1..(i - 1) /\ j - 1 \in 1..(L - 1) /\ (j - 1) + 1 = j
        <5>1. flight'[j - 1] = flight[j]
          BY <1>3, <4>4
        <5> QED
          BY <4>1, <4>4, <5>1 DEF Ahead
      <4> QED
        BY <4>2, <4>3, <4>4
    <3> QED
      BY <1>7, <3>2, <3>3
  <2>3. \A i \in DOMAIN flight' : \A u \in (e + 1)..(flight'[i].ts - 1) :
           (Seen(flight[i].b, u) \/ Ahead(i, flight[i].b, u))'
    <3> SUFFICES ASSUME NEW i \in DOMAIN flight', NEW u \in (e + 1)..(flight'[i].ts - 1)
                 PROVE  (Seen(flight[i].b, u) \/ Ahead(i, flight[i].b, u))'
      OBVIOUS
    <3>1. PICK c : c = flight'[i].b
      OBVIOUS
    <3>2. Seen(c, u)' \/ Ahead(i, c, u)'
      BY <1>3, <2>2, <3>1
    <3> QED
      BY <3>1, <3>2 DEF Seen, Ahead, StoredTs
  <2> QED
    BY <2>1, <2>3 DEF OrderInv
<1>14. \A k, t : Owed(k, t) => Owed(k, t)'
  BY <1>1 DEF Owed
<1>15. sim'.pc = "run" => sim' = sim /\ sim.next \in Nat
  BY <1>1 DEF StreamTypes, Stopped, Runs
<1>16. CoverInv(e)'
  BY <1>5, <1>9, <1>11, <1>14, <1>15, CoverKept
<1> QED
  BY <1>12, <1>13, <1>16 DEF HistoryInv

LEMMA HistoryStep ==
    ASSUME StreamTypes, NEW e \in 0..MaxTs, HistoryInv(e), StreamStep
    PROVE  HistoryInv(e)'
<1>a. AnswersInv(e)'
  BY AnswersStep DEF HistoryInv
<1>1. ASSUME NEW p \in Caller, HealthCached(p) \/ HealthAnswer(p)
      PROVE  HistoryInv(e)'
  <2>1. PICK a \in Answer : Sound(a, e) /\ Served(p, a)
    BY <1>1, WhoIsServed DEF HistoryInv
  <2>2. UNCHANGED <<stored, flight>> /\ (p = "sim" => sim.pc = "asking")
    BY <1>1, WhoIsServed DEF HistoryInv
  <2>3. CASE gone' = gone /\ (sim' = sim \/ (sim.pc # "run" /\ sim'.pc # "run"))
    BY <1>a, <2>2, <2>3, HistoryQuiet
  <2>4. CASE /\ sim.pc = "asking" /\ sim'.pc = "run" /\ sim'.pos = 1 /\ sim'.next \in Nat
             /\ e < sim'.next /\ gone \subseteq gone'
             /\ \/ \E r \in stored : sim'.next <= r.ts + 1
                \/ \A b \in Building : \A t \in 0..(sim'.next - 1) : <<b, t>> \in gone'
    BY <1>a, <2>2, <2>4, HistoryBegins
  <2> QED
    BY <2>1, <2>2, <2>3, <2>4, ServedRun
<1>2. ASSUME \/ SimStart \/ AskFails \/ HealthExpires \/ Tick \/ UNCHANGED streamVars
             \/ \E p \in Prober : AskTimesOut(p)
             \/ \E p \in Caller : HealthLock(p) \/ HealthWait(p) \/ \E ok \in BOOLEAN : HealthRead(p, ok)
      PROVE  HistoryInv(e)'
  <2>1. UNCHANGED <<stored, flight, gone>>
    BY <1>2 DEF SimStart, AskFails, HealthExpires, Tick, streamVars, AskTimesOut, HealthLock,
                HealthWait, HealthRead
  <2>2. \/ sim' = sim
        \/ sim' \in {Retry, Down} /\ sim.pc = "asking"
        \/ sim' = [pc |-> "asking", tries |-> 0] /\ sim.pc = "down"
    BY <1>2 DEF StreamTypes, SimStart, AskFails, HealthExpires, Tick, streamVars, AskTimesOut,
                HealthLock, HealthWait, HealthRead
  <2>3. sim.pc = "asking" => Retry.pc # "run"
    BY RetryIs DEF StreamTypes, Stopped
  <2>4. sim' = sim \/ (sim.pc # "run" /\ sim'.pc # "run")
    BY <2>2, <2>3 DEF Down
  <2> QED
    BY <1>a, <2>1, <2>4, HistoryQuiet
<1>3. ASSUME NEW begin \in BOOLEAN, Publish(begin)
      PROVE  HistoryInv(e)'
  BY <1>a, <1>3, HistoryPublish
<1>4. ASSUME NEW n \in 0..Len(flight), SimEnds(n)
      PROVE  HistoryInv(e)'
  BY <1>a, <1>4, HistoryEnds
<1>5. ASSUME NEW n \in 0..Len(flight), ApiRestart(n)
      PROVE  HistoryInv(e)'
  BY <1>a, <1>5, HistoryRestarts
<1>6. CASE Store
  BY <1>a, <1>6, HistoryStores
<1> QED
  BY <1>1, <1>2, <1>3, <1>4, <1>5, <1>6 DEF StreamStep, SimNext, HealthNext, EndNext

LEMMA StreamInvStep ==
    ASSUME StreamInv, StreamStep
    PROVE  StreamInv'
<1>1. PICK e \in 0..MaxTs : HistoryInv(e)
  BY DEF StreamInv
<1>2. StreamTypes /\ RunInv
  BY DEF StreamInv
<1>3. StreamTypes'
  BY <1>2, TypesStep
<1>4. RunInv'
  BY <1>1, <1>2, RunStep DEF HistoryInv
<1>5. HistoryInv(e)'
  BY <1>1, <1>2, HistoryStep
<1> QED
  BY <1>3, <1>4, <1>5 DEF StreamInv

\* gemp-seed leaves the first n buildings with their whole history and the others with
\* none; without any building there is no history at all.
LEMMA StreamInit == Init => StreamInv
<1> SUFFICES ASSUME Init PROVE StreamInv
  OBVIOUS
<1>1. PICK n \in 0..Len(Buildings), end \in SeedEnds : stored = Seeded(n, end)
  BY DEF Init
<1>2. /\ wall \in Ts /\ flight = <<>> /\ sim = Down /\ truth = {} /\ cache = NoAnswer
      /\ probe = [p \in Caller |-> [pc |-> "idle"]]
  BY DEF Init
<1>3. /\ MaxTs \in Nat /\ end \in 1..MaxTs /\ Len(Buildings) \in Nat
      /\ DOMAIN Buildings = 1..Len(Buildings)
      /\ \A k \in 1..Len(Buildings) : Buildings[k] \in Building
  BY StationAssumption, PortfolioIs
<1>4. \A i \in 1..n : i \in 1..Len(Buildings)
  BY <1>3
<1>5. \A t \in 1..end : t \in Ts /\ t <= end
  BY <1>3 DEF Ts
<1>6. \A r : r \in stored <=> \E i \in 1..n, t \in 1..end : r = [b |-> Buildings[i], ts |-> t, faulty |-> FALSE]
  BY <1>1 DEF Seeded
<1>7. ASSUME NEW r \in stored PROVE r \in Readings /\ r.ts \in 1..end
  <2>1. PICK i \in 1..n, t \in 1..end : r = [b |-> Buildings[i], ts |-> t, faulty |-> FALSE]
    BY <1>6
  <2>2. Buildings[i] \in Building /\ t \in Ts
    BY <1>3, <1>4, <1>5
  <2> QED
    BY <2>1, <2>2 DEF Readings
<1>8. StreamTypes
  <2>1. sim \in Stopped /\ sim.pc = "down"
    BY <1>2 DEF Down, Stopped
  <2>2. probe \in [Caller -> Probes] /\ probe["sim"].pc = "idle"
    BY <1>2, SimCaller DEF Probes
  <2>3. flight \in Seq(Readings)
    BY <1>2
  <2> QED
    BY <1>2, <1>7, <2>1, <2>2, <2>3 DEF StreamTypes
<1>9. RunInv
  BY <1>2 DEF RunInv, TruthAfterHistory, Down
<1>10. DOMAIN flight = {} /\ sim.pc # "run"
  BY <1>2 DEF Down
<1>11. \A e : AnswersInv(e)
  BY <1>2 DEF AnswersInv, Sound, NoAnswer
<1>12. CASE n = 0
  <2>1. stored = {}
    BY <1>6, <1>12
  <2>2. SeedInv(0)
    BY <1>3, <1>10, <2>1 DEF SeedInv, StoredTs
  <2>3. OrderInv(0)
    BY <1>10, <2>1 DEF OrderInv
  <2>4. CoverInv(0)
    BY <1>10, <2>1 DEF CoverInv, Reached
  <2>5. HistoryInv(0) /\ 0 \in 0..MaxTs
    BY <1>3, <1>11, <2>2, <2>3, <2>4 DEF HistoryInv
  <2> QED
    BY <1>8, <1>9, <2>5 DEF StreamInv
<1>13. CASE n # 0
  <2>1. 1 \in 1..n /\ end \in 1..end /\ end \in Nat /\ end \in 0..MaxTs
    BY <1>3, <1>13
  <2>2. \E r \in stored : end <= r.ts
    <3>1. [b |-> Buildings[1], ts |-> end, faulty |-> FALSE] \in stored
      BY <1>6, <2>1
    <3> QED
      BY <2>1, <3>1
  <2>3. ASSUME NEW b \in Building
        PROVE  \/ \A t \in 1..end : t \in StoredTs(b)
               \/ \A t \in StoredTs(b) : end < t
    <3>1. CASE \E i \in 1..n : Buildings[i] = b
      <4>1. PICK i \in 1..n : Buildings[i] = b
        BY <3>1
      <4>2. ASSUME NEW t \in 1..end PROVE t \in StoredTs(b)
        <5>1. [b |-> b, ts |-> t, faulty |-> FALSE] \in stored
          BY <1>6, <4>1
        <5> QED
          BY <5>1 DEF StoredTs
      <4> QED
        BY <4>2
    <3>2. CASE ~ \E i \in 1..n : Buildings[i] = b
      <4>1. StoredTs(b) = {}
        BY <1>6, <3>2 DEF StoredTs
      <4> QED
        BY <4>1
    <3> QED
      BY <3>1, <3>2
  <2>4. SeedInv(end)
    BY <1>10, <2>1, <2>2, <2>3 DEF SeedInv
  <2>5. \A r \in stored : r.ts \in Nat /\ r.ts <= end
    BY <1>7, <2>1
  <2>6. OrderInv(end)
    BY <1>10, <2>1, <2>5 DEF OrderInv
  <2>7. CoverInv(end)
    <3>1. \A u \in (end + 1)..MaxTs : ~Reached(u)
      BY <1>3, <1>10, <2>1, <2>5 DEF Reached
    <3> QED
      BY <1>10, <3>1 DEF CoverInv
  <2>8. HistoryInv(end)
    BY <1>11, <2>4, <2>6, <2>7 DEF HistoryInv
  <2> QED
    BY <1>8, <1>9, <2>1, <2>8 DEF StreamInv
<1> QED
  BY <1>12, <1>13

LEMMA HolesFollow ==
    ASSUME StreamInv
    PROVE  HolesExplained
<1>1. PICK e \in 0..MaxTs : HistoryInv(e)
  BY DEF StreamInv
<1>2. e \in Nat /\ MaxTs \in Nat /\ \A r \in stored : r.ts \in Nat
  BY StationAssumption DEF StreamInv, StreamTypes, Readings, Ts
<1>3. SUFFICES ASSUME NEW b \in Building, NEW t \in Ts, t \notin StoredTs(b),
                      NEW s \in StoredTs(b), s < t, NEW w \in StoredTs(b), t < w
               PROVE  <<b, t>> \in gone
  BY DEF HolesExplained
<1>4. PICK r \in stored : r.b = b /\ r.ts = w
  BY DEF StoredTs
<1>5. s \in Nat /\ w \in Nat /\ t \in Nat /\ t >= 1
  BY <1>2 DEF StoredTs, Ts
<1>6. CASE e < t
  <2>1. t \in (e + 1)..(r.ts - 1)
    BY <1>2, <1>3, <1>4, <1>5, <1>6
  <2>2. Seen(b, t)
    BY <1>1, <1>4, <2>1 DEF HistoryInv, OrderInv
  <2> QED
    BY <1>3, <2>2 DEF Seen
<1>7. CASE t <= e
  <2>1. t \in 1..e
    BY <1>2, <1>5, <1>7
  <2>2. ~(e < s)
    BY <1>2, <1>3, <1>5, <1>7
  <2> QED
    BY <1>1, <1>3, <2>1, <2>2 DEF HistoryInv, SeedInv
<1> QED
  BY <1>2, <1>5, <1>6, <1>7

----------------------------------------------------------------------------
(* Alerts *)

AlertRows == [b : Building, ts : Int, acked : BOOLEAN]
Refits    == {NoRefit} \cup [pc : {"fit", "delete", "insert"}, series : SUBSET Readings,
                             pos : DOMAIN Buildings]

AlertTypes ==
    /\ alerts \subseteq AlertRows
    /\ hourly \subseteq Readings
    /\ refit \in [Refit -> Refits]

AlertsInv == StreamInv /\ AlertTypes /\ FaultsAlerted

LEMMA HourType ==
    ASSUME NEW t \in Ts
    PROVE  hour(t) \in Int
<1>1. t - 1 \in Nat /\ PerHour \in Nat \ {0}
  BY StationAssumption, AlertsAssumption DEF Ts
<1>2. (t - 1) \div PerHour \in Int
  BY <1>1
<1> QED
  BY <1>1, <1>2 DEF hour

\* Every step of the whole is one of the stream or leaves the stream alone.
LEMMA WholeStep ==
    ASSUME [AlertsNext]_allVars
    PROVE  StreamStep
<1>1. CASE (SimNext \/ HealthNext \/ EndNext \/ Tick) /\ UNCHANGED alertVars
  BY <1>1 DEF StreamStep
<1>2. CASE StoreReading
  BY <1>2 DEF StreamStep, StoreReading
<1>3. ASSUME \/ RefreshHourly
             \/ \E rows \in SUBSET alerts, value \in BOOLEAN : Acknowledge(rows, value)
             \/ \E a \in alerts : AcknowledgeOne(a)
             \/ \E n \in Refit : RefitLoad(n) \/ RefitDies(n)
      PROVE  UNCHANGED streamVars
  BY <1>3 DEF RefreshHourly, Acknowledge, AcknowledgeOne, RefitLoad, RefitDies, streamVars,
              health_state
<1>4. ASSUME \/ \E n \in Refit : RefitSkip(n) \/ RefitForecast(n) \/ RefitDelete(n) \/ RefitInsert(n)
             \/ UNCHANGED allVars
      PROVE  UNCHANGED streamVars
  BY <1>4 DEF RefitSkip, RefitForecast, RefitDelete, RefitInsert, allVars, vars, streamVars
<1> QED
  BY <1>1, <1>2, <1>3, <1>4 DEF AlertsNext, StreamStep

\* What is inserted is there afterwards, and so is what was there before.
LEMMA InsertIgnored ==
    ASSUME NEW rows, alerts' = insert_ignore(rows)
    PROVE  /\ alerts \subseteq alerts' /\ alerts' \subseteq alerts \cup rows
           /\ \A r \in rows : \E a \in alerts' : a.b = r.b /\ a.ts = r.ts
  BY DEF insert_ignore

\* Alerts that are only added or marked leave every fault as it was.
LEMMA AlertsKept ==
    ASSUME \A a \in alerts : \E c \in alerts' : c.b = a.b /\ c.ts = a.ts
    PROVE  \A r : Alerted(r) => Alerted(r)'
  BY DEF Alerted, AlertsOf

\* Knowing refits that are between their two transactions.
Mending(n, r) == refit[n].pc = "insert" /\ r.b = Current(n) /\ r \in refit[n].series

\* A reading is looked after: what FaultsAlerted says of one reading.
Minded(r) == Alerted(r) \/ r \in dropped \/ \E n \in Refit : Mending(n, r)

LEMMA FaultsKept ==
    ASSUME FaultsAlerted, stored' = stored,
           \A r \in stored : r.faulty /\ Minded(r) => Minded(r)'
    PROVE  FaultsAlerted'
<1>1. \A r \in stored : r.faulty => Minded(r)
  BY DEF FaultsAlerted, Minded, Mending
<1>2. \A r \in stored : r.faulty => Minded(r)'
  BY <1>1
<1> QED
  BY <1>2 DEF FaultsAlerted, Minded, Mending, Alerted, AlertsOf, Current

LEMMA RefitIs ==
    ASSUME AlertTypes, NEW n \in Refit
    PROVE  /\ refit[n] # NoRefit => /\ refit[n].series \subseteq Readings
                                    /\ refit[n].pos \in 1..Len(Buildings)
                                    /\ Current(n) \in Building
           /\ refit[n].pc \in {"fit", "delete", "insert"} => refit[n] # NoRefit
           /\ refit[n] # NoRefit => /\ Advanced(n) \in Refits /\ Advanced(n).pc # "insert"
                                    /\ [refit[n] EXCEPT !.pc = "delete"] \in Refits
                                    /\ [refit[n] EXCEPT !.pc = "insert"] \in Refits
<1>1. refit[n] \in Refits
  BY DEF AlertTypes
<1>2. DOMAIN Buildings = 1..Len(Buildings) /\ Len(Buildings) \in Nat
      /\ \A k \in 1..Len(Buildings) : Buildings[k] \in Building
  BY PortfolioIs
<1>3. ASSUME refit[n] # NoRefit
      PROVE  /\ refit[n].series \subseteq Readings
             /\ refit[n].pos \in 1..Len(Buildings)
             /\ Current(n) \in Building
  BY <1>1, <1>2, <1>3 DEF Refits, Current
<1>4. refit[n].pc \in {"fit", "delete", "insert"} => refit[n] # NoRefit
  BY DEF NoRefit
<1>5. ASSUME refit[n] # NoRefit
      PROVE  /\ [refit[n] EXCEPT !.pc = "delete"] \in Refits
             /\ [refit[n] EXCEPT !.pc = "insert"] \in Refits
  BY <1>1, <1>5 DEF Refits
<1>6. ASSUME refit[n] # NoRefit
      PROVE  Advanced(n) \in Refits /\ Advanced(n).pc # "insert"
  <2>1. CASE refit[n].pos = Len(Buildings)
    BY <2>1 DEF Advanced, Refits, NoRefit
  <2>2. CASE refit[n].pos # Len(Buildings)
    <3>1. refit[n].pos + 1 \in DOMAIN Buildings
      BY <1>2, <1>3, <1>6, <2>2
    <3>2. Advanced(n) = [refit[n] EXCEPT !.pc = "fit", !.pos = refit[n].pos + 1]
      BY <1>1, <1>6, <2>2 DEF Advanced, Refits
    <3> QED
      BY <1>1, <1>6, <3>1, <3>2 DEF Refits
  <2> QED
    BY <2>1, <2>2
<1> QED
  BY <1>3, <1>4, <1>5, <1>6

LEMMA AlertsStep ==
    ASSUME StreamTypes, AlertTypes, FaultsAlerted, [AlertsNext]_allVars
    PROVE  AlertTypes' /\ FaultsAlerted'
<1>t. /\ stored \subseteq Readings /\ flight \in Seq(Readings)
      /\ alerts \subseteq AlertRows /\ hourly \subseteq Readings /\ refit \in [Refit -> Refits]
  BY DEF StreamTypes, AlertTypes
<1>f. \A t : hour(t) = hour(t)'
  BY DEF hour
<1>1. CASE UNCHANGED <<stored, alertVars>>
  BY <1>1 DEF AlertTypes, FaultsAlerted, alertVars, Alerted, AlertsOf, Current
<1>2. CASE StoreReading
  <2>0. PICK r : r = Head(flight)
    OBVIOUS
  <2>1. /\ flight # <<>> /\ stored' = IF Late(r) THEN stored ELSE stored \cup {r}
        /\ alerts' = IF r.faulty /\ ~Late(r) THEN insert_ignore({Alert(r.b, r.ts)}) ELSE alerts
        /\ UNCHANGED <<hourly, forecast, refit, dropped>>
    BY <1>2, <2>0 DEF StoreReading, Store
  <2>2. r \in Readings /\ r.b \in Building /\ r.ts \in Int
    <3>1. r \in Readings
      BY <1>t, <2>0, <2>1
    <3> QED
      BY <3>1, StationAssumption DEF Readings, Ts
  <2>3. Alert(r.b, r.ts) \in AlertRows /\ Alert(r.b, r.ts).b = r.b /\ Alert(r.b, r.ts).ts = r.ts
    BY <2>2 DEF Alert, AlertRows
  <2>4. /\ alerts \subseteq alerts' /\ alerts' \subseteq alerts \cup {Alert(r.b, r.ts)}
        /\ r.faulty /\ ~Late(r) => \E a \in alerts' : a.b = r.b /\ a.ts = r.ts
    <3>0. PICK x : x = Alert(r.b, r.ts)
      OBVIOUS
    <3>1. CASE r.faulty /\ ~Late(r)
      <4>1. alerts' = insert_ignore({x})
        BY <2>1, <3>0, <3>1
      <4>2. /\ alerts \subseteq alerts' /\ alerts' \subseteq alerts \cup {x}
            /\ \A q \in {x} : \E a \in alerts' : a.b = q.b /\ a.ts = q.ts
        BY <4>1, InsertIgnored
      <4>3. \E a \in alerts' : a.b = x.b /\ a.ts = x.ts
        BY <4>2
      <4>4. x.b = r.b /\ x.ts = r.ts
        BY <2>3, <3>0
      <4> QED
        BY <3>0, <4>2, <4>3, <4>4
    <3>2. CASE ~(r.faulty /\ ~Late(r))
      <4>1. alerts' = alerts
        BY <2>1, <3>2
      <4> QED
        BY <3>2, <4>1
    <3> QED
      BY <3>1, <3>2
  <2>5. AlertTypes'
    BY <1>t, <2>1, <2>3, <2>4 DEF AlertTypes
  <2>6. \A q : Alerted(q) => Alerted(q)'
    BY <2>4, AlertsKept
  <2>7. \A q \in stored : q.faulty => Minded(q)'
    BY <2>1, <2>6 DEF FaultsAlerted, Minded, Mending, Current
  <2>8. r \in stored' /\ r.faulty => r \in stored \/ Alerted(r)'
    BY <2>1, <2>4 DEF Alerted, AlertsOf
  <2>9. \A q \in stored' : q.faulty => Minded(q)'
    BY <2>1, <2>7, <2>8 DEF Minded
  <2>10. FaultsAlerted'
    BY <2>9 DEF FaultsAlerted, Minded, Mending, Alerted, AlertsOf, Current
  <2> QED
    BY <2>5, <2>10
<1>3. ASSUME NEW rows \in SUBSET alerts, NEW value \in BOOLEAN,
             alerts' = acknowledge_anomalies(rows, value),
             UNCHANGED <<stored, hourly, refit, dropped>>
      PROVE  AlertTypes' /\ FaultsAlerted'
  <2>1. \A a \in alerts : LET c == [a EXCEPT !.acked = value]
                          IN  c \in AlertRows /\ c.b = a.b /\ c.ts = a.ts
    BY <1>t DEF AlertRows
  <2>2. alerts' = (alerts \ rows) \cup { [a EXCEPT !.acked = value] : a \in rows }
    BY <1>3 DEF acknowledge_anomalies
  <2>3. AlertTypes'
    BY <1>t, <1>3, <2>1, <2>2 DEF AlertTypes
  <2>4. ASSUME NEW a \in alerts PROVE \E c \in alerts' : c.b = a.b /\ c.ts = a.ts
    BY <2>1, <2>2
  <2>5. \A r : Alerted(r) => Alerted(r)'
    BY <2>4, AlertsKept
  <2>6. FaultsAlerted'
    BY <1>3, <2>5, FaultsKept DEF Minded, Mending, Current
  <2> QED
    BY <2>3, <2>6
<1>4. CASE RefreshHourly
  <2>1. hourly' = stored /\ UNCHANGED <<stored, alerts, refit, dropped>>
    BY <1>4 DEF RefreshHourly
  <2> QED
    BY <1>t, <2>1 DEF AlertTypes, FaultsAlerted, Alerted, AlertsOf, Current
<1>5. ASSUME NEW n \in Refit, NEW v \in Refits, refit' = [refit EXCEPT ![n] = v],
             refit[n].pc # "insert",
             UNCHANGED <<stored, alerts, hourly, dropped>>
      PROVE  AlertTypes' /\ FaultsAlerted'
  <2>1. AlertTypes'
    BY <1>t, <1>5 DEF AlertTypes
  <2>2. \A k \in Refit : k # n => refit'[k] = refit[k]
    BY <1>t, <1>5
  <2>3. \A k \in Refit, r \in stored : Mending(k, r) => Mending(k, r)'
    BY <1>5, <2>2 DEF Mending, Current
  <2>4. \A r : Alerted(r) => Alerted(r)'
    BY <1>5 DEF Alerted, AlertsOf
  <2>5. FaultsAlerted'
    BY <1>5, <2>3, <2>4, FaultsKept DEF Minded
  <2> QED
    BY <2>1, <2>5
<1>6. ASSUME NEW n \in Refit, RefitLoad(n)
      PROVE  AlertTypes' /\ FaultsAlerted'
  <2>1. PICK rows \in load_hourly_all :
           refit' = [refit EXCEPT ![n] = [pc |-> "fit", series |-> rows, pos |-> 1]]
    BY <1>6 DEF RefitLoad
  <2>2. refit[n] = NoRefit /\ UNCHANGED <<stored, alerts, hourly, dropped>>
    BY <1>6 DEF RefitLoad
  <2>3. rows \subseteq Readings /\ 1 \in DOMAIN Buildings
    BY <1>t, <2>1, PortfolioIs DEF load_hourly_all
  <2>4. [pc |-> "fit", series |-> rows, pos |-> 1] \in Refits /\ refit[n].pc # "insert"
    BY <2>2, <2>3 DEF Refits, NoRefit
  <2> QED
    BY <1>5, <2>1, <2>2, <2>4
<1>7. ASSUME NEW n \in Refit, RefitSkip(n)
      PROVE  AlertTypes' /\ FaultsAlerted'
  <2>1. /\ refit[n].pc = "fit" /\ refit' = [refit EXCEPT ![n] = Advanced(n)]
        /\ UNCHANGED <<stored, alerts, hourly, dropped>>
    BY <1>7 DEF RefitSkip, vars
  <2>2. Advanced(n) \in Refits
    BY <2>1, RefitIs
  <2> QED
    BY <1>5, <2>1, <2>2
<1>8. ASSUME NEW n \in Refit, RefitForecast(n)
      PROVE  AlertTypes' /\ FaultsAlerted'
  <2>1. /\ refit[n].pc = "fit" /\ refit' = [refit EXCEPT ![n].pc = "delete"]
        /\ UNCHANGED <<stored, alerts, hourly, dropped>>
    BY <1>8 DEF RefitForecast, vars
  <2>2. [refit[n] EXCEPT !.pc = "delete"] \in Refits
    BY <2>1, RefitIs
  <2>3. refit' = [refit EXCEPT ![n] = [refit[n] EXCEPT !.pc = "delete"]]
    BY <1>t, <2>1
  <2> QED
    BY <1>5, <2>1, <2>2, <2>3
<1>9. ASSUME NEW n \in Refit, RefitDelete(n)
      PROVE  AlertTypes' /\ FaultsAlerted'
  <2>0. PICK b : b = Current(n)
    OBVIOUS
  <2>1. /\ refit[n].pc = "delete" /\ refit' = [refit EXCEPT ![n].pc = "insert"]
        /\ alerts' = alerts \ AlertsOf(b)
        /\ dropped' = dropped \cup (FaultyOf(b, stored) \ refit[n].series)
        /\ UNCHANGED <<stored, hourly>>
    BY <1>9, <2>0 DEF RefitDelete, vars, Replaced
  <2>2. [refit[n] EXCEPT !.pc = "insert"] \in Refits /\ refit[n] \in Refits /\ refit[n] # NoRefit
    BY <1>t, <2>1, RefitIs
  <2>3. refit' = [refit EXCEPT ![n] = [refit[n] EXCEPT !.pc = "insert"]]
    BY <1>t, <2>1
  <2>4. AlertTypes'
    BY <1>t, <2>1, <2>2, <2>3 DEF AlertTypes
  <2>5. \A k \in Refit : k # n => refit'[k] = refit[k]
    BY <1>t, <2>3
  <2>6. refit'[n].pc = "insert" /\ refit'[n].series = refit[n].series /\ refit'[n].pos = refit[n].pos
    BY <1>t, <2>2, <2>3 DEF Refits
  <2>7. \A k \in Refit, r \in stored : Mending(k, r) => Mending(k, r)'
    BY <2>1, <2>5 DEF Mending, Current
  <2>8. ASSUME NEW r \in stored, r.faulty, Alerted(r) PROVE Minded(r)'
    <3>1. CASE r.b # b
      <4>1. Alerted(r)'
        BY <2>1, <2>8, <3>1 DEF Alerted, AlertsOf
      <4> QED
        BY <4>1 DEF Minded
    <3>2. CASE r.b = b /\ r \in refit[n].series
      <4>1. Mending(n, r)'
        BY <2>0, <2>6, <3>2 DEF Mending, Current
      <4> QED
        BY <4>1 DEF Minded
    <3>3. CASE r.b = b /\ r \notin refit[n].series
      <4>1. r \in dropped'
        BY <2>1, <2>8, <3>3 DEF FaultyOf
      <4> QED
        BY <4>1 DEF Minded
    <3> QED
      BY <3>1, <3>2, <3>3
  <2>9. FaultsAlerted'
    BY <2>1, <2>7, <2>8, FaultsKept DEF Minded
  <2> QED
    BY <2>4, <2>9
<1>10. ASSUME NEW n \in Refit, RefitInsert(n)
       PROVE  AlertTypes' /\ FaultsAlerted'
  <2>0. PICK b, S : b = Current(n) /\ S = refit[n].series
    OBVIOUS
  <2>1. /\ refit[n].pc = "insert" /\ refit' = [refit EXCEPT ![n] = Advanced(n)]
        /\ alerts' = insert_ignore({ Alert(r.b, hour(r.ts)) : r \in FaultyOf(b, S) })
        /\ dropped' = dropped \ FaultyOf(b, S)
        /\ UNCHANGED <<stored, hourly>>
    BY <1>10, <2>0 DEF RefitInsert, vars
  <2>2. Advanced(n) \in Refits /\ S \subseteq Readings
    BY <2>0, <2>1, RefitIs
  <2>3. \A r \in FaultyOf(b, S) : r \in Readings /\ r.b \in Building /\ r.ts \in Ts
    BY <2>2 DEF FaultyOf, Readings
  <2>4. \A r \in FaultyOf(b, S) : /\ Alert(r.b, hour(r.ts)) \in AlertRows
                                  /\ Alert(r.b, hour(r.ts)).b = r.b
                                  /\ Alert(r.b, hour(r.ts)).ts = hour(r.ts)
    BY <2>3, HourType DEF Alert, AlertRows
  <2>5. /\ alerts \subseteq alerts'
        /\ alerts' \subseteq alerts \cup { Alert(r.b, hour(r.ts)) : r \in FaultyOf(b, S) }
        /\ \A r \in FaultyOf(b, S) : \E a \in alerts' : a.b = r.b /\ a.ts = hour(r.ts)
    <3> DEFINE rows == { Alert(r.b, hour(r.ts)) : r \in FaultyOf(b, S) }
    <3>1. /\ alerts \subseteq alerts' /\ alerts' \subseteq alerts \cup rows
          /\ \A x \in rows : \E a \in alerts' : a.b = x.b /\ a.ts = x.ts
      <4> HIDE DEF rows
      <4>1. alerts' = insert_ignore(rows)
        BY <2>1 DEF rows
      <4> QED
        BY <4>1, InsertIgnored
    <3> QED
      BY <2>4, <3>1
  <2>6. AlertTypes'
    BY <1>t, <2>1, <2>2, <2>4, <2>5 DEF AlertTypes
  <2>7. \A r : Alerted(r) => Alerted(r)'
    BY <2>5, AlertsKept
  <2>8. \A r \in FaultyOf(b, S) : Alerted(r)'
    BY <2>5 DEF Alerted, AlertsOf, hour
  <2>9. \A k \in Refit : k # n => refit'[k] = refit[k]
    BY <1>t, <2>1
  <2>10. ASSUME NEW k \in Refit, NEW r \in stored, r.faulty, Mending(k, r)
         PROVE  Mending(k, r)' \/ Alerted(r)'
    <3>1. CASE k = n
      <4>1. r \in FaultyOf(b, S)
        BY <2>0, <2>10, <3>1 DEF Mending, FaultyOf
      <4> QED
        BY <2>8, <4>1
    <3>2. CASE k # n
      BY <2>9, <2>10, <3>2 DEF Mending, Current
    <3> QED
      BY <3>1, <3>2
  <2>11. \A r \in stored : r.faulty /\ r \in dropped => r \in dropped' \/ Alerted(r)'
    BY <2>1, <2>8
  <2>12. FaultsAlerted'
    BY <2>1, <2>7, <2>10, <2>11, FaultsKept DEF Minded
  <2> QED
    BY <2>6, <2>12
<1>11. ASSUME NEW n \in Refit, RefitDies(n)
       PROVE  AlertTypes' /\ FaultsAlerted'
  <2>1. /\ refit' = [refit EXCEPT ![n] = NoRefit]
        /\ dropped' = IF refit[n].pc = "insert" THEN dropped \cup FaultyOf(Current(n), refit[n].series)
                                                ELSE dropped
        /\ UNCHANGED <<stored, alerts, hourly>>
    BY <1>11 DEF RefitDies
  <2>2. NoRefit \in Refits
    BY DEF Refits
  <2>3. AlertTypes'
    BY <1>t, <2>1, <2>2 DEF AlertTypes
  <2>4. \A k \in Refit : k # n => refit'[k] = refit[k]
    BY <1>t, <2>1
  <2>5. \A k \in Refit, r \in stored : r.faulty /\ Mending(k, r) => Mending(k, r)' \/ r \in dropped'
    BY <2>1, <2>4 DEF Mending, Current, FaultyOf
  <2>6. dropped \subseteq dropped' /\ \A r : Alerted(r) => Alerted(r)'
    BY <2>1 DEF Alerted, AlertsOf
  <2>7. FaultsAlerted'
    BY <2>1, <2>5, <2>6, FaultsKept DEF Minded
  <2> QED
    BY <2>3, <2>7
<1>12. ASSUME NEW rows \in SUBSET alerts, NEW value \in BOOLEAN, Acknowledge(rows, value)
       PROVE  AlertTypes' /\ FaultsAlerted'
  BY <1>3, <1>12 DEF Acknowledge
<1>13. ASSUME NEW a \in alerts, AcknowledgeOne(a)
       PROVE  AlertTypes' /\ FaultsAlerted'
  <2>1. {a} \in SUBSET alerts /\ TRUE \in BOOLEAN
    OBVIOUS
  <2> QED
    BY <1>3, <1>13, <2>1 DEF AcknowledgeOne
<1>14. ASSUME \/ (SimNext \/ HealthNext \/ EndNext \/ Tick) /\ UNCHANGED alertVars
              \/ UNCHANGED allVars
       PROVE  UNCHANGED <<stored, alertVars>>
  <2>1. UNCHANGED alertVars
    BY <1>14 DEF allVars
  <2>2. SimNext \/ HealthNext \/ EndNext \/ Tick \/ UNCHANGED vars
    BY <1>14 DEF allVars
  <2>3. stored' = stored
    BY <2>2 DEF SimNext, HealthNext, EndNext, Tick, vars, SimStart, AskFails, AskTimesOut, Publish,
                HealthExpires, HealthCached, HealthLock, HealthWait, HealthAnswer, HealthRead,
                SimEnds, ApiRestart
  <2> QED
    BY <2>1, <2>3
<1> QED
  BY <1>1, <1>2, <1>4, <1>6, <1>7, <1>8, <1>9, <1>10, <1>11, <1>12, <1>13, <1>14 DEF AlertsNext

LEMMA AlertsInvInit == AlertsInit => AlertsInv
<1> SUFFICES ASSUME AlertsInit PROVE AlertsInv
  OBVIOUS
<1>1. StreamInv
  BY StreamInit DEF AlertsInit
<1>2. stored \subseteq Readings
  BY <1>1 DEF StreamInv, StreamTypes
<1>3. AlertTypes
  BY <1>2 DEF AlertsInit, AlertTypes, refresh_hourly, Refits
<1>4. \A r \in stored : ~r.faulty
  BY DEF AlertsInit, Init, Seeded
<1>5. FaultsAlerted
  BY <1>4 DEF FaultsAlerted
<1> QED
  BY <1>1, <1>3, <1>5 DEF AlertsInv

LEMMA AlertsInvStep == AlertsInv /\ [AlertsNext]_allVars => AlertsInv'
<1> SUFFICES ASSUME AlertsInv, [AlertsNext]_allVars
             PROVE  AlertsInv'
  OBVIOUS
<1>1. StreamInv'
  BY WholeStep, StreamInvStep DEF AlertsInv
<1>2. AlertTypes' /\ FaultsAlerted'
  BY AlertsStep DEF AlertsInv, StreamInv
<1> QED
  BY <1>1, <1>2 DEF AlertsInv

LEMMA AlertsInvHolds == AlertsSpec => []AlertsInv
  BY AlertsInvInit, AlertsInvStep, PTL DEF AlertsSpec

----------------------------------------------------------------------------
(* Theorems *)

\* Every hole in a building's stored data is a reading that was lost on the way, that a
\* killed run did not come to, or that lies before the first run of a deployment without
\* data: resume_point and the cache behind /health open none, whatever is cached, however
\* late an answer comes and however often the simulator, the API and the ingester restart.
THEOREM HolesAreExplained == AlertsSpec => []HolesExplained
<1>1. AlertsInv => HolesExplained
  BY HolesFollow DEF AlertsInv
<1> QED
  BY <1>1, AlertsInvHolds, PTL

\* No line of the ground truth is about a time that was in the table when the answer its
\* run began with was computed.
THEOREM TruthFollowsHistory == AlertsSpec => []TruthAfterHistory
<1>1. AlertsInv => TruthAfterHistory
  BY DEF AlertsInv, StreamInv, RunInv
<1> QED
  BY <1>1, AlertsInvHolds, PTL

\* Every stored faulty reading has its alert, unless a refit that knows it is between its
\* two transactions, one that did not know it deleted the alert, or one died in between;
\* for any number of refits beside each other and any acknowledgements in between.
THEOREM FaultsKeepAlerts == AlertsSpec => []FaultsAlerted
<1>1. AlertsInv => FaultsAlerted
  BY DEF AlertsInv
<1> QED
  BY <1>1, AlertsInvHolds, PTL
=============================================================================
