------------------------------ MODULE Planner -------------------------------
(***************************************************************************)
(* One call of solve (gemp/optimize/runner.py) on the candidates of a      *)
(* portfolio: dominated options are pruned, then one of four solvers runs, *)
(* and the exact one falls back on the strong heuristic when it comes back *)
(* with nothing.  CP-SAT itself is external: within its time limit it may  *)
(* prove an optimum, find some solution, or find none.  Where the code     *)
(* breaks a tie by the order of its lists, every outcome is explored.      *)
(***************************************************************************)
EXTENDS Candidates

CONSTANTS
    Scenes,     \* portfolio, catalogue and parameters: [buildings, catalog, params]
    Budgets,    \* in 1/EU EGP
    Caps,       \* max_funded_per_district
    NoCap       \* None

\* The portfolio and the two files have passed their validators; a building's id is
\* the key of its row.
ASSUME ScenesAssumption ==
    \A s \in Scenes : /\ IsFiniteSet(s.buildings) /\ IsFiniteSet(s.catalog)
                      /\ \A b, d \in s.buildings : b.id = d.id => b = d
                      /\ \A b \in s.buildings : valid_building(b)
                      /\ valid_catalog(s.catalog) /\ valid_params(s.params)

ASSUME RequestAssumption == Budgets \subseteq Int /\ Caps \ {NoCap} \subseteq Nat

SOLVERS    == {"cpsat", "greedy_upgrade", "greedy", "equal_split"}
OBJECTIVES == {"lca_carbon", "tou_carbon", "raw_kwh", "egp_saved"}

VARIABLES
    phase,      \* where solve is
    scene, request,
    all,        \* the candidate set
    options,    \* what is left of it after pruning
    todo,       \* options the density pass has not come to
    chosen,     \* per building its option, or None
    status      \* what CP-SAT said, and whether the result is the fallback's

vars  == <<phase, scene, request, all, options, todo, chosen, status>>
input == <<scene, request>>

None == [building_id |-> "none"]
Ids  == { b.id : b \in scene.buildings }
Nothing == [i \in Ids |-> None]

----------------------------------------------------------------------------
(* Objective and allocations: objective.py, models.py *)

objective_fn(c) ==
    CASE request.objective = "lca_carbon" -> c.lifetime_benefit_kgco2e
      [] request.objective = "tou_carbon" -> c.lifetime_tou_benefit_kgco2e
      [] request.objective = "raw_kwh"    -> c.annual_kwh_saving
      [] request.objective = "egp_saved"  -> c.annual_egp_saving

\* One whole kg, kWh or EGP of the objective.
ObjectiveUnit == IF request.objective \in {"lca_carbon", "tou_carbon"} THEN VU(scene.params) ELSE KU

\* value / cost, compared without dividing; costs are positive.
denser(c, d) == objective_fn(c) * d.cost_egp > objective_fn(d) * c.cost_egp

Picks(s) == { s[i] : i \in { k \in Ids : s[k] # None } }

\* A figure of the options, summed over the buildings that got one.
Over(figure(_), s) == SumFunction([i \in Ids |-> IF s[i] = None THEN 0 ELSE figure(s[i])])
Cost(s)  == Over(LAMBDA c : c.cost_egp, s)
Value(s) == Over(objective_fn, s)

Funded(s, d) == Cardinality({ i \in Ids : s[i] # None /\ s[i].district = d })

Districts == { b.district : b \in scene.buildings }
WithinCap(s) == request.cap # NoCap => \A d \in Districts : Funded(s, d) <= request.cap

\* At most one option per building, as AllocationItem's validator demands.
OptionsOf(i, from) == { c \in from : c.building_id = i }
Selections(from) ==
    { s \in [Ids -> {None} \cup from] : \A i \in Ids : s[i] = None \/ s[i].building_id = i }

----------------------------------------------------------------------------
(* prune.py *)

\* Mutant: of two options of one building the dearer one may go although it is better.
dominates_mutant(d, c) == d.building_id = c.building_id /\ d.cost_egp < c.cost_egp

dominates(d, c) ==
    /\ d.building_id = c.building_id
    /\ d.cost_egp <= c.cost_egp /\ objective_fn(d) >= objective_fn(c)
    /\ d.cost_egp < c.cost_egp \/ objective_fn(d) > objective_fn(c)

Equal(c, d) == /\ c.building_id = d.building_id
               /\ c.cost_egp = d.cost_egp /\ objective_fn(c) = objective_fn(d)

\* The frontier of every building; of options equal in both figures one is kept.
prune_dominated(cands) ==
    LET frontier == { c \in cands : \A d \in cands : ~dominates(d, c) }
        twins    == { c \in frontier : \E d \in frontier \ {c} : Equal(c, d) }
    IN  { (frontier \ twins) \cup K : K \in { K \in SUBSET twins :
            \A c \in twins : Cardinality({ d \in K : Equal(c, d) }) = 1 } }

----------------------------------------------------------------------------
(* runner.py: the entry *)

\* The context is built before solve is called; an exception in it fails the request.
Expand ==
    /\ phase = "start"
    /\ IF Raises(scene.buildings, scene.catalog, scene.params)
       THEN phase' = "failed" /\ UNCHANGED all
       ELSE /\ phase' = "prune"
            /\ all' = expand_portfolio(scene.buildings, scene.catalog, scene.params)
    /\ UNCHANGED <<input, options, todo, chosen, status>>

\* A negative budget is a ValueError.
Reject ==
    /\ phase = "prune" /\ request.budget < 0
    /\ phase' = "refused"
    /\ UNCHANGED <<input, all, options, todo, chosen, status>>

Prune ==
    /\ phase = "prune" /\ request.budget >= 0
    /\ \E kept \in prune_dominated(all) : options' = kept /\ todo' = kept
    /\ phase' = CASE request.solver = "cpsat"       -> "cpsat"
                  [] request.solver = "equal_split" -> "split"
                  [] OTHER                          -> "density"
    /\ UNCHANGED <<input, all, chosen, status>>

----------------------------------------------------------------------------
(* baselines.py *)

\* The district has room for one more building.
DistrictOpen(c) == request.cap # NoCap => Funded(chosen, c.district) < request.cap

\* Mutant: the budget is looked at without the option itself.
fits_mutant(c) ==
    /\ objective_fn(c) > 0
    /\ chosen[c.building_id] = None
    /\ Cost(chosen) <= request.budget
    /\ DistrictOpen(c)

fits(c) ==
    /\ objective_fn(c) > 0
    /\ chosen[c.building_id] = None
    /\ Cost(chosen) + c.cost_egp <= request.budget
    /\ DistrictOpen(c)

\* _density_pass: the densest option left is taken if it fits, and not looked at again.
DensityStep ==
    /\ phase = "density"
    /\ \E c \in todo :
          /\ \A d \in todo : ~denser(d, c)
          /\ todo' = todo \ {c}
          /\ chosen' = IF fits(c) THEN [chosen EXCEPT ![c.building_id] = c] ELSE chosen
    /\ UNCHANGED <<phase, input, all, options, status>>

DensityDone ==
    /\ phase = "density" /\ todo = {}
    /\ phase' = IF request.solver = "greedy" THEN "done" ELSE "upgrade"
    /\ UNCHANGED <<input, all, options, todo, chosen, status>>

gain(c)  == objective_fn(c) - IF chosen[c.building_id] = None THEN 0
                              ELSE objective_fn(chosen[c.building_id])
extra(c) == c.cost_egp - IF chosen[c.building_id] = None THEN 0
                         ELSE chosen[c.building_id].cost_egp

\* Mutant: a swap that gains nothing is a move.
Moves_mutant == { c \in options : /\ gain(c) >= 0
                                  /\ Cost(chosen) + extra(c) <= request.budget
                                  /\ chosen[c.building_id] = None => DistrictOpen(c) }

\* Swaps that gain something and can be paid; a new building needs room in its district.
Moves == { c \in options : /\ gain(c) > 0
                           /\ Cost(chosen) + extra(c) <= request.budget
                           /\ chosen[c.building_id] = None => DistrictOpen(c) }

\* gain per extra EGP; a swap that costs nothing more is better than any other.
better(c, d) ==
    IF extra(c) <= 0 THEN extra(d) > 0
    ELSE extra(d) > 0 /\ gain(c) * extra(d) > gain(d) * extra(c)

\* One turn of the loop of solve_greedy_upgrade.  Its cap of 10,000 turns is left out:
\* SolveReturns shows the loop does not need it.
Upgrade ==
    /\ phase = "upgrade"
    /\ \E c \in Moves : /\ \A d \in Moves : ~better(d, c)
                        /\ chosen' = [chosen EXCEPT ![c.building_id] = c]
    /\ UNCHANGED <<phase, input, all, options, todo, status>>

UpgradeDone ==
    /\ phase = "upgrade" /\ Moves = {}
    /\ phase' = "done"
    /\ UNCHANGED <<input, all, options, todo, chosen, status>>

\* Each building buys the best it can pay from an equal share of the budget ...
BestAffordable(i, from) ==
    LET affordable == { c \in OptionsOf(i, from) :
            /\ objective_fn(c) > 0
            /\ c.cost_egp * Cardinality(scene.buildings) <= request.budget }
    IN  { c \in affordable : \A d \in affordable : objective_fn(d) <= objective_fn(c) }

Shares(from) ==
    { s \in Selections(UNION { BestAffordable(i, from) : i \in Ids }) :
        \A i \in Ids : s[i] = None => BestAffordable(i, from) = {} }

\* ... and a capped district keeps its best.
Capped(s, kept) ==
    \A i \in Ids :
        \/ kept[i] = s[i]
        \/ /\ kept[i] = None /\ request.cap # NoCap
           /\ Funded(kept, s[i].district) = request.cap
           /\ \A c \in Picks(kept) :
                  c.district = s[i].district => objective_fn(c) >= objective_fn(s[i])

equal_split(from) ==
    UNION { { kept \in Selections(Picks(s)) : WithinCap(kept) /\ Capped(s, kept) }
            : s \in Shares(from) }

EqualSplit ==
    /\ phase = "split"
    /\ \E s \in equal_split(options) : chosen' = s
    /\ phase' = "done"
    /\ UNCHANGED <<input, all, options, todo, status>>

----------------------------------------------------------------------------
(* ilp.py, and runner.py's fallback *)

\* Python's round: halves go to the even neighbour.
rounded(n, unit) ==
    LET q == n \div unit
        r == n % unit
    IN  IF 2 * r < unit \/ (2 * r = unit /\ q % 2 = 0) THEN q ELSE q + 1

whole_cost(c) == rounded(c.cost_egp, EU)
whole_value(c) == rounded(objective_fn(c), ObjectiveUnit)

\* The integer programme.
Programme(from) ==
    { s \in Selections(from) :
        /\ Over(whole_cost, s) <= rounded(request.budget, EU)
        /\ WithinCap(s) }

Best(feasible) == Max({ Over(whole_value, s) : s \in feasible })

Optima(from) ==
    LET feasible == Programme(from)
        best     == Best(feasible)
    IN  { s \in feasible : Over(whole_value, s) = best }

\* Mutant: only a solver that gave up is replaced.
falls_back_mutant(s, said) == Picks(s) = {} /\ said = "UNKNOWN" /\ request.budget > 0

\* An empty answer, whatever its status, is replaced by greedy_upgrade's.
falls_back(s, said) == Picks(s) = {} /\ request.budget > 0

CpSat ==
    /\ phase = "cpsat"
    /\ \E said \in {"OPTIMAL", "FEASIBLE", "UNKNOWN"} :
       \E s \in CASE said = "OPTIMAL"  -> Optima(options)
                  [] said = "FEASIBLE" -> Programme(options)
                  [] said = "UNKNOWN"  -> {Nothing} :
          /\ chosen' = s
          /\ status' = [said |-> said, fallback |-> falls_back(s, said)]
          /\ phase' = IF falls_back(s, said) THEN "density" ELSE "done"
    /\ UNCHANGED <<input, all, options, todo>>

----------------------------------------------------------------------------
Init ==
    /\ phase = "start"
    /\ scene \in Scenes
    /\ request \in [solver : SOLVERS, objective : OBJECTIVES, budget : Budgets, cap : Caps]
    /\ all = {} /\ options = {} /\ todo = {}
    /\ chosen = Nothing
    /\ status = [said |-> "none", fallback |-> FALSE]

Next == \/ Reject \/ Expand \/ Prune
        \/ DensityStep \/ DensityDone \/ Upgrade \/ UpgradeDone
        \/ EqualSplit \/ CpSat

\* A call runs until it returns.
Spec == Init /\ [][Next]_vars /\ WF_vars(Next)

----------------------------------------------------------------------------
(* Properties *)

Site(c)      == CHOOSE b \in scene.buildings : b.id = c.building_id
Members(c)   == { iv \in scene.catalog : iv.id \in c.intervention_ids }
Alone(c, iv) == bundle_saving_kwh(Site(c), {iv}, scene.params)

\* Two members that each save something do so on one end use.
Overlapping(c) ==
    \E iv, jv \in Members(c) :
        /\ iv # jv /\ iv.end_use = jv.end_use /\ iv.end_use # "generation"
        /\ Alone(c, iv) > 0 /\ Alone(c, jv) > 0

\* A bundle saves at least what each member would and at most what all of them would,
\* and less than that when two act on the same end use: nothing is saved twice ("naive
\* addition overstates the benefit").  (A contract may give a roof a negative factor;
\* nothing is claimed of what such a roof is part of.)  Exact figures given, the expansion
\* of what came through the loaders fails for five reasons only: a problem cross_validate
\* reports; a rule with a condition it comes to and cannot read at some building (a field
\* that does not exist, a text that does not parse, a bound or a value that is no number);
\* a row that applies to a building whose value finds no bucket, or meets a malformed one
\* first, or whose block names no field of it; an occupancy without a row of shares; a
\* guard tighter than the ceiling.
BundlesHonest ==
    /\ phase = "prune" => \A c \in all : (\A iv \in Members(c) : Alone(c, iv) >= 0) =>
          /\ \A iv \in Members(c) : Alone(c, iv) <= c.annual_kwh_saving
          /\ LET sum == Total(LAMBDA iv : Alone(c, iv), Members(c))
             IN  c.annual_kwh_saving <= sum /\ (Overlapping(c) => c.annual_kwh_saving < sum)
    /\ phase = "failed" =>
          \/ cross_validate(scene.catalog, scene.params) # {}
          \/ \E b \in scene.buildings, iv \in scene.catalog :
                Unreadable(iv, b) \/ (applies(iv, b) /\ NoBucket(b, iv, scene.params))
          \/ \E b \in scene.buildings :
                b.occupancy_pattern \notin DOMAIN scene.params.end_use_share
          \/ scene.params.max_building_saving_frac < scene.params.cap_total_saving_frac

\* Whatever the solver and the way it ended, no district is over its cap and no more
\* than the budget is spent; the exact solver, which sees whole EGP, may exceed it by
\* half an EGP for every option and one half for the budget.
SpendingBounded ==
    phase = "done" =>
        /\ WithinCap(chosen)
        /\ 2 * Cost(chosen) <= 2 * request.budget +
              IF status.said = "none" \/ status.fallback THEN 0
              ELSE EU * (Cardinality({ i \in Ids : chosen[i] # None }) + 1)

\* "The caller asked how to spend the money": where some worthwhile option can be paid,
\* the exact solver's answer is never empty, not even when it proves that nothing is
\* worth a whole unit or comes back with a solution that funds nothing.
NeverEmptyHanded ==
    (phase = "done" /\ request.solver = "cpsat" /\ request.cap # 0
        /\ \E c \in all : objective_fn(c) > 0 /\ c.cost_egp <= request.budget)
            => Picks(chosen) # {}

\* Pruning changes neither what the exact solver can reach nor what equal split gives,
\* whichever of two equal options it keeps.
PruneSafe ==
    /\ phase = "cpsat" =>
          Best(Programme(all)) = Best(Programme(options))
    /\ phase = "split" =>
          { Value(s) : s \in equal_split(all) } = { Value(s) : s \in equal_split(options) }

\* "Each move strictly increases the objective and the candidate set is finite, so the
\* loop terminates on its own": every call returns.
SolveReturns == <>(phase \in {"done", "failed", "refused"})
============================================================================
