----------------------------- MODULE Candidates -----------------------------
(***************************************************************************)
(* What a building can be offered (gemp/domain): which interventions of    *)
(* the catalogue apply to it, which of them make a bundle, what a bundle   *)
(* saves, costs and is worth over the horizon.                             *)
(*                                                                         *)
(* The code computes in floating point; here every quantity is an exact    *)
(* integer in a unit fine enough for it: fractions and multipliers in      *)
(* 1/One, money in 1/EU EGP, energy in 1/KU kWh and carbon in 1/VU kg.     *)
(* Figures are chosen such that every division here comes out even.        *)
(* The catalogue and the portfolio are sets: no result may depend on the   *)
(* order of their rows.  Of the text of a condition or of the key of a     *)
(* bucket, `allowed` or `matches` is the set of values it holds for, and   *)
(* `reads` the set of those it can be compared with at all: none for a     *)
(* text that cannot be parsed or whose bound is no number, only numbers    *)
(* for a comparison, everything for a list of words.                       *)
(***************************************************************************)
EXTENDS Integers, Sequences, FiniteSets, FiniteSetsExt, Folds

CONSTANTS
    One,            \* fractions are multiples of 1/One
    MaxMembers,     \* the largest max_bundle_size
    LifeUnit,       \* a common multiple of the service lives
    HOURS_PER_DAY   \* the length of a load shape and of a tariff profile

ASSUME UnitsAssumption == /\ One \in Nat \ {0} /\ LifeUnit \in Nat \ {0}
                          /\ MaxMembers \in Nat \ {0, 1}
                          /\ HOURS_PER_DAY \in Nat \ {0}

smaller(a, b) == IF a < b THEN a ELSE b
Total(f(_), S) == SumFunction([x \in S |-> f(x)])
Times(f(_), S) == FoldFunction(LAMBDA x, y : x * y, 1, [x \in S |-> f(x)])
power(b, n)    == Times(LAMBDA t : b, 1 .. n)

One2 == One * One
KU   == power(One, 1 + 2 * MaxMembers)
EU   == One
VU(p) == KU * LifeUnit * power(One + p.discount_rate, p.horizon_yr - 1)

----------------------------------------------------------------------------
(* What the loaders let through: models.py, catalog.py *)

Orientation == {"N", "NE", "E", "SE", "S", "SW", "W", "NW", "FLAT"}

Positive    == Nat \ {0}
Basis       == {"fixed", "per_m2_floor", "per_m2_roof", "per_m2_glazing"}

valid_building(b) ==
    /\ {b.annual_kwh, b.floor_area_m2, b.roof_area_m2} \subseteq Positive
    /\ b.glazing_area_m2 \in Nat
    /\ b.roof_orientation \in Orientation
    /\ b.hourly_shape \in [1 .. HOURS_PER_DAY -> Positive]

\* Generation is priced as solar and nothing else is; only generation may save no share.
valid_intervention(iv) ==
    /\ {iv.cost_value, iv.embodied_value} \subseteq Nat /\ iv.service_life_yr \in Positive
    /\ iv.cost_type \in Basis \cup {"solar"} /\ iv.embodied_type \in Basis \cup {"per_kwp"}
    /\ iv.saving_frac \in 0 .. One
    /\ iv.end_use = "generation" <=> iv.cost_type = "solar"
    /\ iv.end_use # "generation" => iv.saving_frac > 0

\* A value for every field a block names, whatever its sign.
valid_adj(rules) ==
    /\ IsFiniteSet(DOMAIN rules)
    /\ \A field \in DOMAIN rules : \A i \in DOMAIN rules[field] :
          i \in Nat /\ rules[field][i].factor \in Int

\* The shares of an occupancy partition its consumption.  The factor of an orientation is
\* not looked at.
valid_params(p) ==
    /\ {p.horizon_yr, p.grid_emission_factor, p.electricity_tariff_egp_per_kwh, p.m2_per_kwp,
        p.yield_kwh_per_kwp, p.solar_egp_per_kwp} \subseteq Positive
    /\ p.solar_fixed_egp \in Nat
    /\ {p.discount_rate, p.soiling_loss} \subseteq 0 .. (One - 1)
    /\ {p.cap_total_saving_frac, p.max_building_saving_frac, p.usable_roof_frac,
        p.self_consumption_cap} \subseteq 1 .. One
    /\ p.max_bundle_size \in 1 .. MaxMembers
    /\ \A o \in DOMAIN p.orientation_factor : p.orientation_factor[o] \in Int
    /\ \A o \in DOMAIN p.end_use_share :
          LET shares == p.end_use_share[o]
          IN  /\ \A use \in DOMAIN shares : shares[use] \in 0 .. One
              /\ Total(LAMBDA use : shares[use], DOMAIN shares) = One
    /\ \A key \in DOMAIN p.adj : valid_adj(p.adj[key])
    /\ p.tou \in {<<>>} \cup [1 .. HOURS_PER_DAY -> Positive]

\* At least one row, and no id twice.
valid_catalog(catalog) ==
    /\ catalog # {} /\ \A iv \in catalog : valid_intervention(iv)
    /\ Cardinality({ iv.id : iv \in catalog }) = Cardinality(catalog)

----------------------------------------------------------------------------
(* The catalogue: catalog.py *)

\* Every condition of the row holds; an empty rule always does.
holds(cond, b) == b[cond.field] \in cond.allowed
applies(iv, b) == \A i \in DOMAIN iv.applies_if : holds(iv.applies_if[i], b)

\* A ValueError or TypeError at a condition the rule comes to: one that is behind a
\* condition that does not hold is never looked at.
Unreadable(iv, b) ==
    \E i \in DOMAIN iv.applies_if :
        LET cond == iv.applies_if[i]
        IN  /\ cond.field \notin DOMAIN b \/ b[cond.field] \notin cond.reads
            /\ \A j \in 1 .. (i - 1) : holds(iv.applies_if[j], b)

Matching(buckets, value) == { i \in DOMAIN buckets : value \in buckets[i].matches }

\* One is found, and no key before it is malformed.
Finds(buckets, value) ==
    \E i \in Matching(buckets, value) : \A j \in 1 .. i : value \in buckets[j].reads

\* The first bucket that matches.
match_bucket(buckets, value) == buckets[Min(Matching(buckets, value))].factor

\* One factor per field the block keys on; a blank key has no effect.
adj_multiplier(key, b, p) ==
    IF key = "" THEN One
    ELSE (One * Times(LAMBDA field : match_bucket(p.adj[key][field], b[field]), DOMAIN p.adj[key]))
             \div power(One, Cardinality(DOMAIN p.adj[key]))

\* The building's value finds no bucket in the row's block, or the building has no such
\* field.
NoBucket(b, iv, p) ==
    /\ iv.adj_key \in DOMAIN p.adj
    /\ \E field \in DOMAIN p.adj[iv.adj_key] :
          field \notin DOMAIN b \/ ~Finds(p.adj[iv.adj_key][field], b[field])

NoShare(b, iv, p) == \/ b.occupancy_pattern \notin DOMAIN p.end_use_share
                     \/ iv.end_use \notin DOMAIN p.end_use_share[b.occupancy_pattern]

\* A KeyError, or the error of a malformed bucket.
Unknown(b, iv, p) ==
    IF iv.end_use = "generation" THEN b.roof_orientation \notin DOMAIN p.orientation_factor
    ELSE \/ iv.adj_key # "" /\ iv.adj_key \notin DOMAIN p.adj
         \/ iv.adj_key # "" /\ NoBucket(b, iv, p)
         \/ NoShare(b, iv, p)

\* The problems the validation of the two files reports.
cross_validate(catalog, p) ==
    { iv.id : iv \in { v \in catalog :
        \/ v.adj_key # "" /\ v.adj_key \notin DOMAIN p.adj
        \/ v.end_use # "generation"
              /\ \E o \in DOMAIN p.end_use_share : v.end_use \notin DOMAIN p.end_use_share[o] } }
    \cup (Orientation \ DOMAIN p.orientation_factor)

----------------------------------------------------------------------------
(* Savings: savings.py *)

\* In 1/One kWp.
solar_kwp(b, p) == (b.roof_area_m2 * p.usable_roof_frac) \div p.m2_per_kwp

solar_generation_kwh(b, p) ==
    solar_kwp(b, p) * p.yield_kwh_per_kwp * p.orientation_factor[b.roof_orientation]
        * (One - p.soiling_loss) * (KU \div (One2 * One))

\* Capped at what the building can consume itself.
solar_saving_kwh(b, p) ==
    smaller(solar_generation_kwh(b, p), b.annual_kwh * p.self_consumption_cap * (KU \div One))

\* In 1/One2, clamped to [0, 1].
effective_saving_frac(b, iv, p) ==
    LET raw == iv.saving_frac * adj_multiplier(iv.adj_key, b, p)
    IN  IF raw < 0 THEN 0 ELSE smaller(raw, One2)

end_use_baseline_kwh(b, use, p) == b.annual_kwh * p.end_use_share[b.occupancy_pattern][use]

\* Mutant: fractions of one end use are added.
saving_of_end_use_mutant(b, use, group, p) ==
    IF use = "generation" THEN Cardinality(group) * solar_saving_kwh(b, p)
    ELSE end_use_baseline_kwh(b, use, p) * power(One2, MaxMembers - 1)
         * Total(LAMBDA iv : effective_saving_frac(b, iv, p), group)

\* On one end use what remains is multiplied; generation adds.
saving_of_end_use(b, use, group, p) ==
    IF use = "generation" THEN Cardinality(group) * solar_saving_kwh(b, p)
    ELSE end_use_baseline_kwh(b, use, p) * power(One2, MaxMembers - Cardinality(group))
         * (power(One2, Cardinality(group))
              - Times(LAMBDA iv : One2 - effective_saving_frac(b, iv, p), group))

\* The ceiling scales all end uses by one factor, so their sum becomes the ceiling.
bundle_saving_kwh(b, combo, p) ==
    LET uses == { iv.end_use : iv \in combo }
        raw(use) == saving_of_end_use(b, use, { iv \in combo : iv.end_use = use }, p)
    IN  smaller(Total(raw, uses), b.annual_kwh * p.cap_total_saving_frac * (KU \div One))

physically_possible(b, kwh, p) == kwh <= b.annual_kwh * p.max_building_saving_frac * (KU \div One)

----------------------------------------------------------------------------
(* Cost and benefit over the common horizon: lifecycle.py *)

\* One unit in year t, as a multiple of its value in the last year of the horizon.
Discounted(t, p) == power(One, t) * power(One + p.discount_rate, p.horizon_yr - 1 - t)

annuity_factor(p) == Total(LAMBDA t : Discounted(t, p), 0 .. (p.horizon_yr - 1))

\* Full cycles, then the fraction of a cycle the horizon cuts off.
discounted_embodied(once, life, p) ==
    LET full == p.horizon_yr \div life
    IN  once * (LifeUnit * Total(LAMBDA j : Discounted(j * life, p), 0 .. (full - 1))
                + IF p.horizon_yr % life = 0 THEN 0
                  ELSE (p.horizon_yr % life) * (LifeUnit \div life) * Discounted(full * life, p))

\* What a price per unit is multiplied by, in 1/EU.
dimension(b, basis, p) ==
    CASE basis = "fixed"          -> EU
      [] basis = "per_m2_floor"   -> b.floor_area_m2 * EU
      [] basis = "per_m2_roof"    -> b.roof_area_m2 * EU
      [] basis = "per_m2_glazing" -> b.glazing_area_m2 * EU
      [] basis = "per_kwp"        -> solar_kwp(b, p)

upfront_cost_egp(b, iv, p) ==
    IF iv.cost_type = "solar" THEN p.solar_fixed_egp * EU + p.solar_egp_per_kwp * solar_kwp(b, p)
    ELSE iv.cost_value * dimension(b, iv.cost_type, p)

embodied_once_kgco2e(b, iv, p) == iv.embodied_value * dimension(b, iv.embodied_type, p)

bundle_cost_egp(b, combo, p) == Total(LAMBDA iv : upfront_cost_egp(b, iv, p), combo)

embodied_kgco2e(b, combo, p) ==
    (KU \div EU) * Total(LAMBDA iv : discounted_embodied(embodied_once_kgco2e(b, iv, p),
                                                         iv.service_life_yr, p), combo)

lifetime_benefit_kgco2e(kwh, b, combo, p) ==
    kwh * annuity_factor(p) * LifeUnit * p.grid_emission_factor - embodied_kgco2e(b, combo, p)

\* Over the sum of the building's hourly shape; without a profile it is the flat factor.
effective_grid_factor(b, p) ==
    LET hours == DOMAIN b.hourly_shape
        sum   == Total(LAMBDA h : b.hourly_shape[h], hours)
    IN  IF p.tou = <<>> THEN p.grid_emission_factor
        ELSE Total(LAMBDA h : b.hourly_shape[h] * p.tou[h], hours) \div sum

lifetime_tou_benefit_kgco2e(kwh, b, combo, p) ==
    kwh * annuity_factor(p) * LifeUnit * effective_grid_factor(b, p) - embodied_kgco2e(b, combo, p)

annual_egp_saving(kwh, p) == kwh * p.electricity_tariff_egp_per_kwh

----------------------------------------------------------------------------
(* Expansion: candidates.py *)

\* No two members compete for the same slot.
compatible(combo) ==
    \A iv, jv \in combo : iv # jv /\ iv.exclusive_group # "" =>
                              iv.exclusive_group # jv.exclusive_group

applicable_interventions(b, catalog) == { iv \in catalog : applies(iv, b) }

combinations(b, catalog, p) ==
    { combo \in SUBSET applicable_interventions(b, catalog) :
          Cardinality(combo) \in 1 .. p.max_bundle_size /\ compatible(combo) }

CandidateOf(b, combo, p) ==
    LET kwh == bundle_saving_kwh(b, combo, p)
    IN  [building_id |-> b.id, district |-> b.district,
         intervention_ids |-> { iv.id : iv \in combo },
         cost_egp |-> bundle_cost_egp(b, combo, p),
         annual_kwh_saving |-> kwh,
         lifetime_benefit_kgco2e |-> lifetime_benefit_kgco2e(kwh, b, combo, p),
         lifetime_tou_benefit_kgco2e |-> lifetime_tou_benefit_kgco2e(kwh, b, combo, p),
         annual_egp_saving |-> annual_egp_saving(kwh, p)]

\* Options that save nothing or cost nothing are left out.
expand_building(b, catalog, p) ==
    { c \in { CandidateOf(b, combo, p) : combo \in combinations(b, catalog, p) } :
          c.annual_kwh_saving > 0 /\ c.cost_egp > 0 }

expand_portfolio(buildings, catalog, p) ==
    UNION { expand_building(b, catalog, p) : b \in buildings }

\* A rule that cannot be read, a KeyError or a SavingsError ends the expansion of the whole
\* portfolio.
Raises(buildings, catalog, p) ==
    \/ \E b \in buildings, iv \in catalog : Unreadable(iv, b)
    \/ \E b \in buildings : \E combo \in combinations(b, catalog, p) :
          \/ \E iv \in combo : Unknown(b, iv, p)
          \/ ~physically_possible(b, bundle_saving_kwh(b, combo, p), p)
============================================================================
