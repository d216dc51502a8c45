----------------------------- MODULE ReadingLog -----------------------------
(***************************************************************************)
(* What signed storage promises, without signatures, batches, queues or    *)
(* processes: one log of readings per building that only ever grows at its *)
(* end and in time order, and an anchored length that the log always       *)
(* reaches.                                                                *)
(***************************************************************************)
EXTENDS Integers, Sequences

CONSTANTS Building, Reading

VARIABLES log,       \* log[b]: the readings of b, oldest first
          anchored   \* anchored[b]: how many of them are anchored outside

vars == <<log, anchored>>

Init ==
    /\ log = [b \in Building |-> <<>>]
    /\ anchored = [b \in Building |-> 0]

\* `new` continues `old`: it keeps every entry and adds later readings of b.
Continues(b, old, new) ==
    /\ Len(old) <= Len(new)
    /\ \A i \in 1..Len(old) : new[i] = old[i]
    /\ \A i \in Len(old)+1..Len(new) :
          /\ new[i] \in Reading /\ new[i].building_id = b
          /\ i > 1 => new[i-1].ts < new[i].ts

\* One transaction may extend several logs.
Extend ==
    /\ \A b \in Building : Continues(b, log[b], log'[b])
    /\ UNCHANGED anchored

\* Anchoring never runs ahead of the log, and never falls back.
Anchor ==
    /\ \A b \in Building : anchored[b] <= anchored'[b] /\ anchored'[b] <= Len(log[b])
    /\ UNCHANGED log

Next == Extend \/ Anchor

Spec == Init /\ [][Next]_vars
============================================================================
