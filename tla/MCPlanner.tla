----------------------------- MODULE MCPlanner ------------------------------
(* Small portfolios for the planner. *)
EXTENDS Planner

Iv(id, use, group, key, basis, price, frac, life, ebasis, emb, cond) ==
    [id |-> id, end_use |-> use, exclusive_group |-> group, adj_key |-> key,
     cost_type |-> basis, cost_value |-> price, saving_frac |-> frac,
     service_life_yr |-> life, embodied_type |-> ebasis, embodied_value |-> emb,
     applies_if |-> cond]

led   == Iv("led", "lighting", "lamps", "", "per_m2_floor", 2, 2, 1, "fixed", 0, <<>>)
dim   == Iv("dim", "lighting", "", "hours", "fixed", 3, 2, 2, "fixed", 1, <<>>)
tube  == Iv("tube", "lighting", "lamps", "", "fixed", 4, 2, 2, "fixed", 0, <<>>)
\* Texts: a list of words reads every word, a bound that is no number reads nothing.
Facing(way) == [field |-> "orientation", allowed |-> {way}, reads |-> Orientation]
Wingspan    == [field |-> "wingspan", allowed |-> 1..9, reads |-> 1..9]
Large       == [field |-> "floor_area_m2", allowed |-> 1..9, reads |-> {}]

pane  == Iv("pane", "cooling", "", "", "per_m2_glazing", 3, 1, 2, "per_m2_glazing", 1,
            <<Facing("S")>>)
fin   == Iv("fin", "cooling", "", "", "fixed", 1, 1, 1, "fixed", 0, <<Facing("N"), Wingspan>>)
hall  == Iv("hall", "cooling", "", "", "fixed", 1, 1, 1, "fixed", 0, <<Large>>)
array == Iv("array", "generation", "", "", "solar", 0, 0, 1, "fixed", 1, <<>>)
solar == Iv("solar", "generation", "", "", "solar", 0, 0, 2, "per_kwp", 1, <<>>)
roof  == Iv("roof", "cooling", "", "", "per_m2_roof", 1, 4, 1, "per_m2_roof", 9, <<>>)

Building(id, d, kwh, floor, roofed, glazing, facing, shape) ==
    [id |-> id, district |-> d, annual_kwh |-> kwh, floor_area_m2 |-> floor,
     roof_area_m2 |-> roofed, glazing_area_m2 |-> glazing, orientation |-> facing,
     roof_orientation |-> facing, occupancy_pattern |-> "day", hourly_shape |-> shape]

b1 == Building("b1", "d1", 8, 3, 5, 1, "S", <<1, 1>>)
b2 == Building("b2", "d1", 4, 1, 3, 2, "N", <<3, 1>>)
b3 == Building("b3", "d2", 4, 2, 1, 1, "S", <<1, 3>>)
\* The same building in every figure, in the other district.
b4 == Building("b4", "d2", 4, 1, 3, 2, "N", <<3, 1>>)
\* So small that no option is worth a whole unit.
b5 == Building("b5", "d1", 1, 1, 1, 1, "S", <<1, 1>>)

Hours   == {"day", "night"}
Buckets == << [matches |-> {"day"}, reads |-> Hours, factor |-> 3],
              [matches |-> Hours, reads |-> Hours, factor |-> 1] >>

\* A bucket for every size, and a key that does not parse.
Sizes   == << [matches |-> 1..9, reads |-> 1..9, factor |-> 4],
              [matches |-> {}, reads |-> {}, factor |-> 1] >>

contract ==
    [usable_roof_frac |-> 2, m2_per_kwp |-> 1, yield_kwh_per_kwp |-> 1,
     orientation_factor |-> [o \in Orientation |-> IF o = "N" THEN 2 ELSE 4], soiling_loss |-> 1,
     self_consumption_cap |-> 2, solar_fixed_egp |-> 1, solar_egp_per_kwp |-> 1,
     max_bundle_size |-> 2, cap_total_saving_frac |-> 3, max_building_saving_frac |-> 3,
     end_use_share |-> [day |-> [lighting |-> 2, cooling |-> 2]],
     adj |-> [hours |-> [occupancy_pattern |-> Buckets, floor_area_m2 |-> Sizes]],
     horizon_yr |-> 3, discount_rate |-> 0, grid_emission_factor |-> 1,
     electricity_tariff_egp_per_kwh |-> 2, tou |-> <<1, 5>>]

MCScenes ==
    { [buildings |-> {b1, b2, b3}, catalog |-> {led, dim, tube, solar},
       params |-> contract],
      [buildings |-> {b2, b4, b5}, catalog |-> {dim, pane, solar, roof},
       params |-> [contract EXCEPT !.discount_rate = 1, !.tou = <<>>]],
      \* nothing here is worth a whole kg: the exact solver proves the empty answer
      \* (and a rule that is never read to its end)
      [buildings |-> {b5}, catalog |-> {dim, pane, fin},
       params |-> [contract EXCEPT !.horizon_yr = 1]],
      \* the guard is tighter than the ceiling
      [buildings |-> {b1, b5}, catalog |-> {roof, solar},
       params |-> [contract EXCEPT !.max_building_saving_frac = 2]],
      \* an adjustment block without a bucket for the building
      [buildings |-> {b3}, catalog |-> {dim},
       params |-> [contract EXCEPT !.adj = [hours |-> [occupancy_pattern |-> <<Buckets[1]>>,
                    orientation |-> << [matches |-> {"N"}, reads |-> Orientation,
                                           factor |-> 4] >>]]]],
      \* a bucket behind one that does not parse
      [buildings |-> {b3}, catalog |-> {dim},
       params |-> [contract EXCEPT !.adj =
                    [hours |-> [floor_area_m2 |-> <<Sizes[2], Sizes[1]>>]]]],
      \* rules that name no field of a building, or a bound that is no number
      [buildings |-> {b2, b3}, catalog |-> {dim, fin}, params |-> contract],
      [buildings |-> {b3}, catalog |-> {dim, hall}, params |-> contract],
      \* a roof with a negative factor, one with two arrays, and a block without a field
      [buildings |-> {b2, b3}, catalog |-> {dim, solar, array},
       params |-> [contract EXCEPT !.adj = [hours |-> <<>>],
                                   !.orientation_factor = [@ EXCEPT !["N"] = -4]]] }

MCBudgets == {-4, 0, 9, 18, 30, 60}
============================================================================
