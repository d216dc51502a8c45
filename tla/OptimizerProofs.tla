-------------------------- MODULE OptimizerProofs ---------------------------
(***************************************************************************)
(* Theorems about the optimizer: SolveSlots for every number of request    *)
(* threads, accounts and cores, Candidates and Planner for every portfolio, *)
(* catalogue, contract and request.                                        *)
(***************************************************************************)
EXTENDS SolveSlots, Planner, FiniteSetTheorems, WellFoundedInduction, TLAPS

----------------------------------------------------------------------------
(* The inductive invariant *)

Places == {"idle", "acquire", "refused", "solve", "store", "release", "uncount"}

SlotsTypeOK ==
    /\ slots \in Nat
    /\ inflight \in [Account -> Nat]
    /\ pc \in [Request -> Places]
    /\ who \in [Request -> Account \cup {Nobody}]
    /\ given \in Nat
    /\ made \in [Request -> Nat]

\* A request belongs to an account from the moment it is counted until the count is
\* given back.
OwnedInv == \A r \in Request : pc[r] = "idle" <=> who[r] = Nobody

\* An account is never above its limit.
LimitInv == \A a \in Account : inflight[a] <= MAX_SOLVES_PER_PRINCIPAL

\* An id that is on its way to a client is stored as well.
RunsInv == held \subseteq stored /\ \A r \in Request : made[r] \in stored \cup {0}

SlotsInv == SlotsTypeOK /\ OwnedInv /\ LimitInv /\ RunsInv /\ SlotsAccounted

----------------------------------------------------------------------------
(* Lemmas *)

\* max(1, min(4, cores // 2)), half of it, and when the half is less than the whole.
LEMMA Limits ==
    /\ MAX_CONCURRENT_SOLVES \in Nat \ {0}
    /\ MAX_SOLVES_PER_PRINCIPAL \in Nat \ {0}
    /\ MAX_SOLVES_PER_PRINCIPAL <= MAX_CONCURRENT_SOLVES
    /\ Cores >= 4 => MAX_SOLVES_PER_PRINCIPAL < MAX_CONCURRENT_SOLVES
<1>1. Cores \div 2 \in Nat /\ (Cores >= 4 => Cores \div 2 >= 2)
  BY SlotsAssumption
<1>2. MAX_CONCURRENT_SOLVES \in 1..4 /\ (Cores >= 4 => MAX_CONCURRENT_SOLVES >= 2)
  BY <1>1 DEF MAX_CONCURRENT_SOLVES
<1> QED
  BY <1>2 DEF MAX_SOLVES_PER_PRINCIPAL

\* Sets of request threads are finite.
LEMMA RequestsFinite ==
    ASSUME NEW S \in SUBSET Request
    PROVE  /\ IsFiniteSet(S) /\ Cardinality(S) \in Nat
           /\ \A r \in Request \ S : Cardinality(S \cup {r}) = Cardinality(S) + 1
           /\ \A r \in S : Cardinality(S \ {r}) = Cardinality(S) - 1
<1>1. IsFiniteSet(S)
  BY SlotsAssumption, FS_Subset
<1> QED
  BY <1>1, FS_CardinalityType, FS_AddElement, FS_RemoveElement

\* In the initial state nobody solves and nobody is counted.
LEMMA InitInv == SlotsInit => SlotsInv
<1> SUFFICES ASSUME SlotsInit PROVE SlotsInv
  OBVIOUS
<1>1. SlotsTypeOK /\ OwnedInv /\ LimitInv /\ RunsInv
  BY Limits, SlotsAssumption
     DEF SlotsInit, SlotsTypeOK, OwnedInv, LimitInv, RunsInv, Places
<1>2. Solving = {} /\ \A a \in Account : Of(a) = {}
  BY SlotsAssumption DEF SlotsInit, Solving, Of
<1> QED
  BY <1>1, <1>2, FS_EmptySet, Limits DEF SlotsInit, SlotsInv, SlotsAccounted

----------------------------------------------------------------------------
(* The steps *)

\* A step of request r that stays inside, or stays outside, the solving part and does
\* not change owners keeps the accounts.
LEMMA SameSets ==
    ASSUME SlotsInv, NEW r \in Request, NEW to \in Places,
           pc' = [pc EXCEPT ![r] = to],
           UNCHANGED <<slots, inflight, who>>,
           pc[r] \in {"solve", "store", "release"} <=> to \in {"solve", "store", "release"}
    PROVE  SlotsAccounted'
<1>1. Solving' = Solving
  BY DEF Solving, SlotsInv, SlotsTypeOK
<1>2. \A a \in Account : Of(a)' = Of(a)
  BY DEF Of
<1> QED
  BY <1>1, <1>2 DEF SlotsInv, SlotsAccounted

\* Giving a count back removes the request from its account and from no other.
LEMMA Uncounted ==
    ASSUME SlotsInv, NEW r \in Request, pc[r] \in {"refused", "uncount"},
           pc' = [pc EXCEPT ![r] = "idle"],
           who' = [who EXCEPT ![r] = Nobody],
           Lower(who[r]), UNCHANGED slots
    PROVE  /\ SlotsAccounted' /\ OwnedInv' /\ LimitInv'
           /\ inflight' \in [Account -> Nat]
<1>1. PICK a \in Account : who[r] = a
  BY DEF SlotsInv, SlotsTypeOK, OwnedInv
<1>2. Solving' = Solving
  BY DEF Solving, SlotsInv, SlotsTypeOK
<1>3. Of(a)' = Of(a) \ {r} /\ r \in Of(a)
  BY <1>1, SlotsAssumption DEF Of, SlotsInv, SlotsTypeOK
<1>4. \A b \in Account \ {a} : Of(b)' = Of(b)
  BY <1>1, SlotsAssumption DEF Of, SlotsInv, SlotsTypeOK
<1>5. /\ Cardinality(Of(a) \ {r}) = Cardinality(Of(a)) - 1
      /\ Cardinality(Of(a) \ {r}) \in Nat
  <2>1. Of(a) \in SUBSET Request /\ Of(a) \ {r} \in SUBSET Request
    BY DEF Of
  <2> QED
    BY <1>3, <2>1, RequestsFinite
<1>6. inflight[a] = Cardinality(Of(a)) /\ inflight[a] \in Nat
  BY DEF SlotsInv, SlotsTypeOK, SlotsAccounted
<1>7. inflight' = [inflight EXCEPT ![a] = inflight[a] - 1] /\ inflight[a] - 1 \in Nat
  <2>1. inflight[a] - 1 \in Nat
    BY <1>5, <1>6
  <2>2. (IF inflight[a] - 1 <= 0 THEN 0 ELSE inflight[a] - 1) = inflight[a] - 1
    BY <2>1
  <2> QED
    BY <1>1, <2>1, <2>2 DEF Lower
<1>8. inflight' \in [Account -> Nat]
  BY <1>7 DEF SlotsInv, SlotsTypeOK
<1>9. \A b \in Account : inflight'[b] = Cardinality(Of(b)')
  BY <1>3, <1>4, <1>5, <1>6, <1>7 DEF SlotsInv, SlotsTypeOK, SlotsAccounted
<1>10. SlotsAccounted'
  BY <1>2, <1>9 DEF SlotsInv, SlotsAccounted
<1>11. LimitInv'
  BY <1>6, <1>7, Limits DEF SlotsInv, SlotsTypeOK, LimitInv
<1>12. OwnedInv'
  BY DEF SlotsInv, SlotsTypeOK, OwnedInv
<1> QED
  BY <1>8, <1>10, <1>11, <1>12

\* Every step of every request keeps the invariant.
LEMMA StepInv == SlotsInv /\ [SlotsNext]_slotVars => SlotsInv'
<1> SUFFICES ASSUME SlotsInv, [SlotsNext]_slotVars PROVE SlotsInv'
  OBVIOUS
<1>t. SlotsTypeOK /\ OwnedInv /\ LimitInv /\ RunsInv /\ SlotsAccounted
  BY DEF SlotsInv
<1>1. ASSUME NEW r \in Request, NEW a \in Account, Count(r, a) PROVE SlotsInv'
  <2>1. r \notin Of(a) /\ Of(a) \in SUBSET Request
    BY <1>t, <1>1, SlotsAssumption DEF Count, Goto, Of, OwnedInv
  <2>2. Of(a)' = Of(a) \cup {r}
    BY <1>t, <1>1 DEF Count, Of, SlotsTypeOK
  <2>3. \A b \in Account \ {a} : Of(b)' = Of(b)
    BY <1>t, <1>1, SlotsAssumption DEF Count, Goto, Of, SlotsTypeOK, OwnedInv
  <2>4. Cardinality(Of(a)') = Cardinality(Of(a)) + 1
    BY <2>1, <2>2, RequestsFinite
  <2>5. \A b \in Account : inflight'[b] = Cardinality(Of(b)')
    BY <1>t, <1>1, <2>3, <2>4 DEF Count, SlotsTypeOK, SlotsAccounted
  <2>6. Solving' = Solving
    BY <1>t, <1>1 DEF Count, Goto, Solving, SlotsTypeOK
  <2>7. SlotsAccounted'
    BY <1>t, <1>1, <2>5, <2>6 DEF Count, SlotsAccounted
  <2>8. SlotsTypeOK' /\ OwnedInv' /\ RunsInv'
    BY <1>t, <1>1, SlotsAssumption
       DEF Count, Goto, SlotsTypeOK, OwnedInv, RunsInv, runs, Places
  <2>9. LimitInv'
    BY <1>t, <1>1, Limits DEF Count, SlotsTypeOK, LimitInv
  <2> QED
    BY <2>7, <2>8, <2>9 DEF SlotsInv
<1>2. ASSUME NEW r \in Request, Acquire(r) PROVE SlotsInv'
  <2>1. SlotsTypeOK' /\ OwnedInv' /\ LimitInv' /\ RunsInv'
    BY <1>t, <1>2 DEF Acquire, Goto, SlotsTypeOK, OwnedInv, LimitInv, RunsInv, runs, Places
  <2>2. SlotsAccounted'
    <3>1. CASE slots > 0
      <4>1. r \notin Solving /\ Solving' = Solving \cup {r} /\ Solving \in SUBSET Request
        BY <1>t, <1>2, <3>1 DEF Acquire, Goto, Solving, SlotsTypeOK
      <4>2. Cardinality(Solving') = Cardinality(Solving) + 1 /\ Cardinality(Solving) \in Nat
        BY <4>1, RequestsFinite
      <4>3. \A a \in Account : Of(a)' = Of(a)
        BY <1>2 DEF Acquire, Of
      <4> QED
        BY <1>t, <1>2, <3>1, <4>2, <4>3, Limits DEF Acquire, SlotsTypeOK, SlotsAccounted
    <3>2. CASE ~(slots > 0)
      BY <1>t, <1>2, <3>2, SameSets DEF Acquire, Goto, Places
    <3> QED
      BY <3>1, <3>2
  <2> QED
    BY <2>1, <2>2 DEF SlotsInv
<1>3. ASSUME NEW r \in Request, Refuse(r) PROVE SlotsInv'
  <2>1. SlotsAccounted' /\ OwnedInv' /\ LimitInv' /\ inflight' \in [Account -> Nat]
    BY <1>t, <1>3, Uncounted DEF Refuse, Goto
  <2>2. SlotsTypeOK' /\ RunsInv'
    BY <1>t, <1>3, <2>1 DEF Refuse, Goto, SlotsTypeOK, RunsInv, runs, Places
  <2> QED
    BY <2>1, <2>2 DEF SlotsInv
<1>4. ASSUME NEW r \in Request, SolveToKeep(r) \/ SolveOnly(r) \/ StoreFails(r)
      PROVE  SlotsInv'
  <2>1. SlotsTypeOK' /\ OwnedInv' /\ LimitInv' /\ RunsInv'
    BY <1>t, <1>4 DEF SolveToKeep, SolveOnly, StoreFails, Goto, SlotsTypeOK, OwnedInv,
                      LimitInv, RunsInv, runs, Places
  <2>2. SlotsAccounted'
    BY <1>t, <1>4, SameSets DEF SolveToKeep, SolveOnly, StoreFails, Goto, Places
  <2> QED
    BY <2>1, <2>2 DEF SlotsInv
<1>5. ASSUME NEW r \in Request, StoreRun(r) PROVE SlotsInv'
  <2>1. SlotsTypeOK' /\ OwnedInv' /\ LimitInv' /\ RunsInv'
    BY <1>t, <1>5 DEF StoreRun, Goto, SlotsTypeOK, OwnedInv, LimitInv, RunsInv, Places
  <2>2. SlotsAccounted'
    BY <1>t, <1>5, SameSets DEF StoreRun, Goto, Places
  <2> QED
    BY <2>1, <2>2 DEF SlotsInv
<1>6. ASSUME NEW r \in Request, Release(r) PROVE SlotsInv'
  <2>1. SlotsTypeOK' /\ OwnedInv' /\ LimitInv' /\ RunsInv'
    BY <1>t, <1>6 DEF Release, Goto, SlotsTypeOK, OwnedInv, LimitInv, RunsInv, runs, Places
  <2>2. r \in Solving /\ Solving' = Solving \ {r} /\ Solving \in SUBSET Request
    BY <1>t, <1>6 DEF Release, Goto, Solving, SlotsTypeOK
  <2>3. Cardinality(Solving') = Cardinality(Solving) - 1 /\ Cardinality(Solving) \in Nat
    BY <2>2, RequestsFinite
  <2>4. \A a \in Account : Of(a)' = Of(a)
    BY <1>6 DEF Release, Of
  <2>5. SlotsAccounted'
    BY <1>t, <1>6, <2>3, <2>4, Limits DEF Release, SlotsTypeOK, SlotsAccounted
  <2> QED
    BY <2>1, <2>5 DEF SlotsInv
<1>7. ASSUME NEW r \in Request, Uncount(r) PROVE SlotsInv'
  <2>1. SlotsAccounted' /\ OwnedInv' /\ LimitInv' /\ inflight' \in [Account -> Nat]
    BY <1>t, <1>7, Uncounted DEF Uncount, Goto
  <2>2. SlotsTypeOK' /\ RunsInv'
    BY <1>t, <1>7, <2>1 DEF Uncount, Goto, SlotsTypeOK, RunsInv, Places
  <2> QED
    BY <2>1, <2>2 DEF SlotsInv
<1>8. CASE UNCHANGED slotVars
  BY <1>t, <1>8 DEF slotVars, SlotsInv, SlotsTypeOK, OwnedInv, LimitInv, RunsInv,
                    SlotsAccounted, Solving, Of
<1> QED
  BY <1>1, <1>2, <1>3, <1>4, <1>5, <1>6, <1>7, <1>8 DEF SlotsNext

----------------------------------------------------------------------------
(* Theorems *)

\* solve_slot: whatever requests do in between, slots and counts are those of the
\* requests under way.
THEOREM SlotsStayAccounted == SlotsSpec => []SlotsAccounted
<1>1. SlotsInv => SlotsAccounted
  BY DEF SlotsInv
<1> QED
  BY <1>1, InitInv, StepInv, PTL DEF SlotsSpec

\* solve_slot: on a machine with four cores or more no account ever holds the whole
\* pool.  With fewer there is one slot, which one account may hold.
THEOREM NobodyMonopolises ==
    ASSUME Cores >= 4
    PROVE  SlotsSpec => []NoMonopoly
<1>1. SlotsInv => NoMonopoly
  <2> SUFFICES ASSUME SlotsInv, NEW a \in Account
               PROVE  Cardinality({ r \in Solving : who[r] = a }) < MAX_CONCURRENT_SOLVES
    BY DEF NoMonopoly
  <2> DEFINE S == { r \in Solving : who[r] = a }
  <2>1. S \in SUBSET Of(a) /\ Of(a) \in SUBSET Request
    BY DEF Solving, Of
  <2>2. Cardinality(S) \in Nat /\ Cardinality(S) <= Cardinality(Of(a))
    <3>1. IsFiniteSet(Of(a)) /\ IsFiniteSet(S)
      BY <2>1, RequestsFinite
    <3> QED
      BY <2>1, <3>1, FS_Subset, FS_CardinalityType
  <2>3. Cardinality(Of(a)) <= MAX_SOLVES_PER_PRINCIPAL
    BY DEF SlotsInv, SlotsAccounted, LimitInv
  <2>4. Cardinality(Of(a)) \in Nat
    BY <2>1, RequestsFinite
  <2> QED
    BY <2>2, <2>3, <2>4, Limits
<1> QED
  BY <1>1, InitInv, StepInv, PTL DEF SlotsSpec

\* run_optimization commits before it returns: an id a client holds names a stored run.
THEOREM HeldRunsStayReadable == SlotsSpec => []HeldRunsReadable
<1>1. SlotsInv => HeldRunsReadable
  BY DEF SlotsInv, RunsInv, HeldRunsReadable, get_run
<1> QED
  BY <1>1, InitInv, StepInv, PTL DEF SlotsSpec


----------------------------------------------------------------------------
(* Sums and products over finite sets.  A fold is a recursive function; that it    *)
(* exists, and that the order in which CHOOSE takes the elements does not matter,   *)
(* is shown with a smallest counterexample.                                        *)

Neutral(op)       == IF op = "+" THEN 0 ELSE 1
Combined(op, a, b) == IF op = "+" THEN a + b ELSE a * b

\* One unfolding of the recursive function behind FoldFunctionOnSet.
Unfold(op, f, g, s) ==
    IF s = {} THEN Neutral(op)
    ELSE Combined(op, f[CHOOSE x \in s : TRUE], g[s \ {CHOOSE x \in s : TRUE}])

Folds(op, f, g, S) == g = [s \in SUBSET S |-> Unfold(op, f, g, s)]

\* A set of naturals has a least element.
LEMMA LeastNatural ==
    ASSUME NEW T, T \subseteq Nat, T # {}
    PROVE  \E m \in T : \A k \in T : m <= k
<1> DEFINE R == OpToRel(<, Nat)
<1>1. \A x, y \in Nat : <<x, y>> \in R <=> x < y
  BY DEF OpToRel
<1>2. IsWellFoundedOn(R, Nat)
  BY NatLessThanWellFounded
<1> HIDE DEF R
<1>3. PICK m \in T : \A y \in T : ~ (<<y, m>> \in R)
  BY <1>2, WFMin
<1>4. ASSUME NEW k \in T PROVE m <= k
  <2>1. m \in Nat /\ k \in Nat /\ ~ (k < m)
    BY <1>1, <1>3
  <2> QED
    BY <2>1
<1> QED
  BY <1>4

\* The recursive function exists on the subsets of a finite set.
LEMMA FoldsExist ==
    ASSUME NEW op, NEW f, NEW S, IsFiniteSet(S)
    PROVE  \E g : Folds(op, f, g, S)
<1> DEFINE Good(g, n) == \A s \in SUBSET S : Cardinality(s) <= n => g[s] = Unfold(op, f, g, s)
           Bad        == { n \in Nat : ~ \E g : Good(g, n) }
<1>f. \A s \in SUBSET S : /\ IsFiniteSet(s) /\ Cardinality(s) \in Nat
                          /\ Cardinality(s) = 0 <=> s = {}
  BY FS_Subset, FS_CardinalityType, FS_EmptySet
<1>1. Bad = {}
  <2> SUFFICES ASSUME Bad # {} PROVE FALSE
    OBVIOUS
  <2> HIDE DEF Good
  <2>1. PICK m \in Bad : \A k \in Bad : m <= k
    BY LeastNatural
  <2>2. m \in Nat /\ ~ \E g : Good(g, m)
    BY <2>1
  <2>3. m # 0
    <3> DEFINE zero == [s \in SUBSET S |-> Neutral(op)]
    <3>1. Good(zero, 0)
      BY <1>f DEF Good, Unfold
    <3> QED
      BY <3>1, <2>2
  <2>4. PICK g : Good(g, m - 1)
    BY <2>1, <2>2, <2>3
  <2> DEFINE h == [s \in SUBSET S |-> Unfold(op, f, g, s)]
  <2>5. Good(h, m)
    <3> SUFFICES ASSUME NEW s \in SUBSET S, Cardinality(s) <= m PROVE h[s] = Unfold(op, f, h, s)
      BY DEF Good
    <3>1. CASE s = {}
      BY <3>1 DEF Unfold
    <3>2. CASE s # {}
      <4> DEFINE x == CHOOSE y \in s : TRUE
                 r == s \ {x}
      <4>1. x \in s
        BY <3>2
      <4>2. r \in SUBSET S /\ Cardinality(r) <= m - 1
        BY <4>1, <1>f, FS_RemoveElement, <2>2
      <4>3. h[r] = g[r]
        BY <4>2, <2>4 DEF Good
      <4> QED
        BY <3>2, <4>2, <4>3 DEF Unfold
    <3> QED
      BY <3>1, <3>2
  <2> QED
    BY <2>2, <2>5
<1>2. PICK g : Good(g, Cardinality(S))
  BY <1>1, FS_CardinalityType
<1> DEFINE h == [s \in SUBSET S |-> g[s]]
<1>3. \A s \in SUBSET S : g[s] = Unfold(op, f, g, s)
  BY <1>2, FS_Subset
<1>4. \A s \in SUBSET S : Unfold(op, f, g, s) = Unfold(op, f, h, s)
  BY DEF Unfold
<1>5. Folds(op, f, h, S)
  BY <1>3, <1>4 DEF Folds
<1> QED
  BY <1>5

\* It is the same on every set it is defined on.
LEMMA FoldsUnique ==
    ASSUME NEW op, NEW f, NEW S, IsFiniteSet(S), NEW T \in SUBSET S,
           NEW g, Folds(op, f, g, S), NEW h, Folds(op, f, h, T)
    PROVE  \A s \in SUBSET T : g[s] = h[s]
<1> DEFINE Bad == { n \in Nat : \E s \in SUBSET T : Cardinality(s) = n /\ g[s] # h[s] }
<1>f. \A s \in SUBSET T : /\ IsFiniteSet(s) /\ Cardinality(s) \in Nat
  BY FS_Subset, FS_CardinalityType
<1>1. SUFFICES ASSUME Bad # {} PROVE FALSE
  BY <1>f
<1>2. PICK m \in Bad : \A k \in Bad : m <= k
  BY <1>1, LeastNatural
<1>3. PICK s \in SUBSET T : Cardinality(s) = m /\ g[s] # h[s]
  BY <1>2
<1>4. g[s] = Unfold(op, f, g, s) /\ h[s] = Unfold(op, f, h, s)
  BY DEF Folds
<1>5. s # {}
  BY <1>3, <1>4 DEF Unfold
<1> DEFINE x == CHOOSE y \in s : TRUE
           r == s \ {x}
<1>6. x \in s
  BY <1>5
<1>7. r \in SUBSET T /\ Cardinality(r) \in Nat /\ Cardinality(r) < m
  <2> HIDE DEF x
  <2>1. IsFiniteSet(s) /\ Cardinality(s) \in Nat
    BY <1>f
  <2>2. Cardinality(r) = Cardinality(s) - 1
    BY <1>6, <2>1, FS_RemoveElement
  <2>3. r \in SUBSET T
    OBVIOUS
  <2> QED
    BY <1>3, <1>f, <2>1, <2>2, <2>3
<1>8. g[r] = h[r]
  BY <1>2, <1>7
<1> QED
  BY <1>3, <1>4, <1>5, <1>8 DEF Unfold

Sum(f, S)     == SumFunctionOnSet(f, S)
Product(f, S) == FoldFunctionOnSet(LAMBDA x, y : x * y, 1, f, S)

Folded(op, f, S) == (CHOOSE g : Folds(op, f, g, S))[S]

\* What a fold is: the neutral element for the empty set, else one element and the rest.
LEMMA FoldUnfolds ==
    ASSUME NEW op, NEW f, NEW S, IsFiniteSet(S)
    PROVE  /\ S = {} => Folded(op, f, S) = Neutral(op)
           /\ S # {} => \E x \in S :
                  Folded(op, f, S) = Combined(op, f[x], Folded(op, f, S \ {x}))
<1> DEFINE G(U) == CHOOSE g : Folds(op, f, g, U)
<1>1. \A U \in SUBSET S : Folds(op, f, G(U), U)
  BY FoldsExist, FS_Subset
<1> HIDE DEF G
<1>2. G(S)[S] = Unfold(op, f, G(S), S)
  <2>1. Folds(op, f, G(S), S)
    BY <1>1
  <2> QED
    BY <2>1 DEF Folds
<1>3. S = {} => G(S)[S] = Neutral(op)
  BY <1>2 DEF Unfold
<1>4. ASSUME S # {}
      PROVE  \E x \in S : G(S)[S] = Combined(op, f[x], G(S \ {x})[S \ {x}])
  <2> DEFINE x == CHOOSE y \in S : TRUE
  <2>1. x \in S
    BY <1>4
  <2>2. Folds(op, f, G(S), S) /\ Folds(op, f, G(S \ {x}), S \ {x})
    BY <1>1
  <2>3. G(S)[S \ {x}] = G(S \ {x})[S \ {x}]
    BY <2>2, FoldsUnique
  <2> QED
    BY <1>2, <1>4, <2>1, <2>3 DEF Unfold
<1> QED
  BY <1>3, <1>4 DEF G, Folded

LEMMA SumUnfolds ==
    ASSUME NEW f, NEW S, IsFiniteSet(S)
    PROVE  /\ S = {} => Sum(f, S) = 0
           /\ S # {} => \E x \in S : Sum(f, S) = f[x] + Sum(f, S \ {x})
<1>1. \A U : Sum(f, U) = Folded("+", f, U)
  BY DEF Folded, Sum, SumFunctionOnSet, FoldFunctionOnSet, MapThenFoldSet, Folds, Unfold, Combined, Neutral
<1> QED
  BY <1>1, FoldUnfolds DEF Combined, Neutral

LEMMA ProductUnfolds ==
    ASSUME NEW f, NEW S, IsFiniteSet(S)
    PROVE  /\ S = {} => Product(f, S) = 1
           /\ S # {} => \E x \in S : Product(f, S) = f[x] * Product(f, S \ {x})
<1>1. \A U : Product(f, U) = Folded("*", f, U)
  BY DEF Folded, Product, FoldFunctionOnSet, MapThenFoldSet, Folds, Unfold, Combined, Neutral
<1> QED
  BY <1>1, FoldUnfolds DEF Combined, Neutral

\* Induction over the subsets of a finite set, one element at a time; what is shown
\* is a set of subsets.
LEMMA SubsetInduction ==
    ASSUME NEW S, IsFiniteSet(S), NEW P, {} \in P,
           \A T \in SUBSET S : T # {} /\ (\A x \in T : T \ {x} \in P) => T \in P
    PROVE  S \in P
<1> DEFINE Bad == { n \in Nat : \E s \in SUBSET S : Cardinality(s) = n /\ s \notin P }
<1>f. \A s \in SUBSET S : /\ IsFiniteSet(s) /\ Cardinality(s) \in Nat
  BY FS_Subset, FS_CardinalityType
<1>1. SUFFICES ASSUME Bad # {} PROVE FALSE
  BY <1>f
<1>2. PICK m \in Bad : \A k \in Bad : m <= k
  BY <1>1, LeastNatural
<1>3. PICK s \in SUBSET S : Cardinality(s) = m /\ s \notin P
  BY <1>2
<1>4. PICK x \in s : s \ {x} \notin P
  BY <1>3
<1>5. Cardinality(s \ {x}) = Cardinality(s) - 1
  BY <1>f, FS_RemoveElement
<1>6. s \ {x} \in SUBSET S /\ Cardinality(s \ {x}) \in Nat /\ Cardinality(s) \in Nat
  BY <1>f
<1>7. Cardinality(s \ {x}) \in Bad
  BY <1>4, <1>6
<1> HIDE DEF Bad
<1>8. m <= Cardinality(s \ {x})
  BY <1>2, <1>7
<1>9. m = Cardinality(s)
  BY <1>3
<1> QED
  BY <1>5, <1>6, <1>8, <1>9

LEMMA SumType ==
    ASSUME NEW f, NEW S, IsFiniteSet(S), \A x \in S : f[x] \in Int
    PROVE  Sum(f, S) \in Int
<1> DEFINE P == { T \in SUBSET S : Sum(f, T) \in Int }
<1>1. {} \in P
  BY FS_EmptySet, SumUnfolds
<1>2. ASSUME NEW T \in SUBSET S, T # {}, \A x \in T : T \ {x} \in P PROVE T \in P
  <2>1. IsFiniteSet(T)
    BY FS_Subset
  <2>2. PICK x \in T : Sum(f, T) = f[x] + Sum(f, T \ {x})
    BY <1>2, <2>1, SumUnfolds
  <2>3. f[x] \in Int /\ Sum(f, T \ {x}) \in Int
    BY <1>2
  <2> QED
    BY <2>2, <2>3
<1> HIDE DEF P
<1>3. S \in P
  BY <1>1, <1>2, SubsetInduction
<1> QED
  BY <1>3 DEF P

\* Any element may be taken out first.
LEMMA SumAny ==
    ASSUME NEW f, NEW S, IsFiniteSet(S), \A x \in S : f[x] \in Int, NEW a \in S
    PROVE  Sum(f, S) = f[a] + Sum(f, S \ {a})
<1> DEFINE P == { T \in SUBSET S : \A x \in T : Sum(f, T) = f[x] + Sum(f, T \ {x}) }
<1>t. \A T \in SUBSET S : IsFiniteSet(T) /\ Sum(f, T) \in Int
  BY FS_Subset, SumType
<1>1. {} \in P
  OBVIOUS
<1>2. ASSUME NEW T \in SUBSET S, T # {}, \A x \in T : T \ {x} \in P PROVE T \in P
  <2> HIDE DEF P
  <2>f. IsFiniteSet(T)
    BY <1>t
  <2>1. PICK y \in T : Sum(f, T) = f[y] + Sum(f, T \ {y})
    BY <1>2, <2>f, SumUnfolds
  <2> USE DEF P
  <2>2. ASSUME NEW x \in T PROVE Sum(f, T) = f[x] + Sum(f, T \ {x})
    <3>1. CASE x = y
      BY <2>1, <3>1
    <3>2. CASE x # y
      <4>1. Sum(f, T \ {y}) = f[x] + Sum(f, (T \ {y}) \ {x})
        BY <1>2, <3>2
      <4>2. Sum(f, T \ {x}) = f[y] + Sum(f, (T \ {x}) \ {y})
        BY <1>2, <3>2
      <4>3. (T \ {y}) \ {x} = (T \ {x}) \ {y}
        OBVIOUS
      <4>4. f[x] \in Int /\ f[y] \in Int /\ Sum(f, (T \ {x}) \ {y}) \in Int
        BY <1>t
      <4>5. Sum(f, T) = f[y] + (f[x] + Sum(f, (T \ {x}) \ {y}))
        BY <2>1, <4>1, <4>3
      <4> QED
        BY <4>2, <4>4, <4>5
    <3> QED
      BY <3>1, <3>2
  <2> QED
    BY <2>2
<1> HIDE DEF P
<1>3. S \in P
  BY <1>1, <1>2, SubsetInduction
<1> QED
  BY <1>3 DEF P

\* Where f exceeds g by at most k, and only on F, so does its sum, k for each.
LEMMA SumExceeds ==
    ASSUME NEW f, NEW g, NEW S, IsFiniteSet(S), NEW F, NEW k \in Int,
           \A x \in S : f[x] \in Int /\ g[x] \in Int,
           \A x \in S : f[x] <= g[x] + IF x \in F THEN k ELSE 0
    PROVE  Sum(f, S) <= Sum(g, S) + k * Cardinality(S \cap F)
<1> DEFINE P == { T \in SUBSET S : Sum(f, T) <= Sum(g, T) + k * Cardinality(T \cap F) }
<1>t. \A T \in SUBSET S : /\ IsFiniteSet(T) /\ Sum(f, T) \in Int /\ Sum(g, T) \in Int
                          /\ IsFiniteSet(T \cap F) /\ Cardinality(T \cap F) \in Nat
  BY FS_Subset, FS_Intersection, FS_CardinalityType, SumType
<1>1. {} \in P
  <2>1. Sum(f, {}) = 0 /\ Sum(g, {}) = 0
    BY FS_EmptySet, SumUnfolds
  <2>2. {} \cap F = {} /\ Cardinality({}) = 0
    BY FS_EmptySet
  <2> QED
    BY <2>1, <2>2
<1>2. ASSUME NEW T \in SUBSET S, T # {}, \A x \in T : T \ {x} \in P PROVE T \in P
  <2>1. PICK y \in T : TRUE
    BY <1>2
  <2> DEFINE U == T \ {y}
  <2>2. Sum(f, T) = f[y] + Sum(f, U) /\ Sum(g, T) = g[y] + Sum(g, U)
    <3>1. IsFiniteSet(T)
      BY <1>t
    <3>2. \A x \in T : f[x] \in Int /\ g[x] \in Int
      OBVIOUS
    <3> QED
      BY <3>1, <3>2, SumAny
  <2>3. Sum(f, U) <= Sum(g, U) + k * Cardinality(U \cap F)
    BY <1>2
  <2>t. /\ Sum(f, U) \in Int /\ Sum(g, U) \in Int /\ f[y] \in Int /\ g[y] \in Int
        /\ Cardinality(U \cap F) \in Nat /\ Cardinality(T \cap F) \in Nat
    BY <1>t
  <2>4. CASE y \in F
    <3>1. (T \cap F) \ {y} = U \cap F /\ y \in T \cap F
      BY <2>4
    <3>2. Cardinality(U \cap F) = Cardinality(T \cap F) - 1
      BY <3>1, <1>t, FS_RemoveElement
    <3>3. k * Cardinality(T \cap F) = k * Cardinality(U \cap F) + k
      <4> HIDE DEF U
      <4>1. Cardinality(T \cap F) = Cardinality(U \cap F) + 1
        BY <3>2, <2>t
      <4> QED
        BY <4>1, <2>t
    <3>4. f[y] <= g[y] + k
      BY <2>4
    <3>5. Sum(f, T) <= Sum(g, T) + k * Cardinality(T \cap F)
      <4> HIDE DEF U
      <4>1. k * Cardinality(U \cap F) \in Int
        BY <2>t
      <4> QED
        BY <2>2, <2>3, <3>3, <3>4, <2>t, <4>1
    <3> QED
      BY <3>5
  <2>5. CASE y \notin F
    <3>1. T \cap F = U \cap F
      BY <2>5
    <3>2. f[y] <= g[y]
      BY <2>5, <2>t
    <3>3. Sum(f, T) <= Sum(g, T) + k * Cardinality(T \cap F)
      <4> HIDE DEF U
      <4>1. k * Cardinality(U \cap F) \in Int
        BY <2>t
      <4>2. k * Cardinality(T \cap F) = k * Cardinality(U \cap F)
        BY <3>1
      <4> QED
        BY <2>2, <2>3, <3>2, <2>t, <4>1, <4>2
    <3> QED
      BY <3>3
  <2> QED
    BY <2>4, <2>5
<1> HIDE DEF P
<1>3. S \in P
  BY <1>1, <1>2, SubsetInduction
<1> QED
  BY <1>3 DEF P


LEMMA SumScales ==
    ASSUME NEW f, NEW g, NEW S, IsFiniteSet(S), NEW k \in Int,
           \A x \in S : f[x] \in Int /\ g[x] = k * f[x]
    PROVE  Sum(g, S) = k * Sum(f, S)
<1> DEFINE P == { T \in SUBSET S : Sum(g, T) = k * Sum(f, T) }
<1>i. \A x \in S : g[x] \in Int
  OBVIOUS
<1>t. \A T \in SUBSET S : /\ IsFiniteSet(T) /\ Sum(f, T) \in Int /\ Sum(g, T) \in Int
  BY <1>i, FS_Subset, SumType
<1>1. {} \in P
  <2>1. Sum(f, {}) = 0 /\ Sum(g, {}) = 0
    BY FS_EmptySet, SumUnfolds
  <2> QED
    BY <2>1
<1>2. ASSUME NEW T \in SUBSET S, T # {}, \A x \in T : T \ {x} \in P PROVE T \in P
  <2>1. PICK y \in T : TRUE
    BY <1>2
  <2> DEFINE U == T \ {y}
  <2>2. Sum(f, T) = f[y] + Sum(f, U) /\ Sum(g, T) = g[y] + Sum(g, U)
    <3>1. IsFiniteSet(T)
      BY <1>t
    <3>2. \A x \in T : f[x] \in Int /\ g[x] \in Int
      BY <1>i
    <3> QED
      BY <3>1, <3>2, SumAny
  <2>3. Sum(g, U) = k * Sum(f, U) /\ g[y] = k * f[y]
    BY <1>2
  <2>t. Sum(f, U) \in Int /\ f[y] \in Int
    BY <1>t
  <2>4. Sum(g, T) = k * Sum(f, T)
    <3> HIDE DEF U
    <3>1. k * (f[y] + Sum(f, U)) = k * f[y] + k * Sum(f, U)
      BY <2>t
    <3> QED
      BY <2>2, <2>3, <3>1
  <2> QED
    BY <2>4
<1> HIDE DEF P
<1>3. S \in P
  BY <1>1, <1>2, SubsetInduction
<1> QED
  BY <1>3 DEF P

LEMMA SumMonotone ==
    ASSUME NEW f, NEW g, NEW S, IsFiniteSet(S),
           \A x \in S : f[x] \in Int /\ g[x] \in Int /\ f[x] <= g[x]
    PROVE  Sum(f, S) <= Sum(g, S)
<1>0. PICK none, zero : none = {} /\ zero = 0
  OBVIOUS
<1>1. \A x \in S : f[x] <= g[x] + IF x \in none THEN zero ELSE 0
  BY <1>0
<1>2. zero \in Int
  BY <1>0
<1>3. Sum(f, S) <= Sum(g, S) + zero * Cardinality(S \cap none)
  BY <1>1, <1>2, SumExceeds
<1>4. S \cap none = {} /\ Cardinality({}) = 0
  BY <1>0, FS_EmptySet
<1>5. Sum(f, S) \in Int
  BY SumType
<1>6. Sum(g, S) \in Int
  BY SumType
<1> QED
  BY <1>0, <1>3, <1>4, <1>5, <1>6

\* One summand changes.
LEMMA SumUpdates ==
    ASSUME NEW f, NEW g, NEW S, IsFiniteSet(S), NEW a \in S,
           \A x \in S : f[x] \in Int /\ g[x] \in Int,
           \A x \in S \ {a} : f[x] = g[x]
    PROVE  Sum(g, S) = Sum(f, S) + (g[a] - f[a])
<1> DEFINE U == S \ {a}
<1>1. IsFiniteSet(U) /\ U \subseteq S
  BY FS_Subset
<1>2. Sum(f, U) <= Sum(g, U) /\ Sum(g, U) <= Sum(f, U)
  BY <1>1, SumMonotone
<1>3. Sum(f, S) = f[a] + Sum(f, U) /\ Sum(g, S) = g[a] + Sum(g, U)
  BY SumAny
<1>4. Sum(f, U) \in Int /\ Sum(g, U) \in Int /\ f[a] \in Int /\ g[a] \in Int
  BY <1>1, SumType
<1> HIDE DEF U
<1> QED
  BY <1>2, <1>3, <1>4

LEMMA SumOfNothing ==
    ASSUME NEW f, NEW S, IsFiniteSet(S), \A x \in S : f[x] = 0
    PROVE  Sum(f, S) = 0
<1>1. Sum(f, S) = 0 * Sum(f, S)
  BY SumScales
<1>2. Sum(f, S) \in Int
  BY SumType
<1> QED
  BY <1>1, <1>2

\* Equal summands, equal sums.
LEMMA SumSame ==
    ASSUME NEW f, NEW g, NEW S, IsFiniteSet(S), \A x \in S : f[x] \in Int /\ g[x] = f[x]
    PROVE  Sum(g, S) = Sum(f, S)
<1>1. Sum(f, S) <= Sum(g, S) /\ Sum(g, S) <= Sum(f, S)
  BY SumMonotone
<1>2. Sum(f, S) \in Int /\ Sum(g, S) \in Int
  BY SumType
<1> QED
  BY <1>1, <1>2

LEMMA SumOfOne ==
    ASSUME NEW f, NEW a, f[a] \in Int
    PROVE  Sum(f, {a}) = f[a]
<1>1. IsFiniteSet({a}) /\ IsFiniteSet({})
  BY FS_Singleton, FS_EmptySet
<1>2. Sum(f, {a}) = f[a] + Sum(f, {a} \ {a})
  BY <1>1, SumAny
<1>3. {a} \ {a} = {}
  OBVIOUS
<1>4. Sum(f, {a} \ {a}) = 0
  BY <1>1, <1>3, SumUnfolds
<1> QED
  BY <1>2, <1>4

\* Where no summand is negative, neither is the sum, and no summand exceeds it.
LEMMA SumOfNaturals ==
    ASSUME NEW f, NEW S, IsFiniteSet(S), \A x \in S : f[x] \in Nat
    PROVE  Sum(f, S) \in Nat /\ \A x \in S : f[x] <= Sum(f, S)
<1>1. ASSUME NEW T \in SUBSET S PROVE Sum(f, T) \in Nat
  <2> DEFINE zero == [x \in T |-> 0]
  <2>1. IsFiniteSet(T)
    BY FS_Subset
  <2>2. Sum(zero, T) = 0
    BY <2>1, SumOfNothing
  <2>3. Sum(zero, T) <= Sum(f, T)
    <3>1. \A x \in T : zero[x] \in Int /\ f[x] \in Int /\ zero[x] <= f[x]
      OBVIOUS
    <3> HIDE DEF zero
    <3> QED
      BY <2>1, <3>1, SumMonotone
  <2>4. Sum(f, T) \in Int
    BY <2>1, SumType
  <2> QED
    BY <2>2, <2>3, <2>4
<1>2. ASSUME NEW x \in S PROVE f[x] <= Sum(f, S)
  <2>1. Sum(f, S) = f[x] + Sum(f, S \ {x})
    BY SumAny
  <2>2. Sum(f, S \ {x}) \in Nat /\ Sum(f, S) \in Nat
    BY <1>1
  <2> QED
    BY <2>1, <2>2
<1> QED
  BY <1>1, <1>2

LEMMA SumStrict ==
    ASSUME NEW f, NEW g, NEW S, IsFiniteSet(S), NEW a \in S, f[a] < g[a],
           \A x \in S : f[x] \in Int /\ g[x] \in Int /\ f[x] <= g[x]
    PROVE  Sum(f, S) < Sum(g, S)
<1> DEFINE U == S \ {a}
<1>1. IsFiniteSet(U)
  BY FS_Subset
<1>2. Sum(f, U) <= Sum(g, U) /\ Sum(f, U) \in Int /\ Sum(g, U) \in Int
  BY <1>1, SumMonotone, SumType
<1>3. Sum(f, S) = f[a] + Sum(f, U) /\ Sum(g, S) = g[a] + Sum(g, U)
  BY SumAny
<1>4. f[a] \in Int /\ g[a] \in Int
  OBVIOUS
<1> HIDE DEF U
<1> QED
  BY <1>2, <1>3, <1>4

LEMMA SumOfEqual ==
    ASSUME NEW f, NEW S, IsFiniteSet(S), NEW k \in Int, \A x \in S : f[x] = k
    PROVE  Sum(f, S) = Cardinality(S) * k
<1> DEFINE P == { T \in SUBSET S : Sum(f, T) = Cardinality(T) * k }
<1>t. \A T \in SUBSET S : IsFiniteSet(T) /\ Sum(f, T) \in Int /\ Cardinality(T) \in Nat
  BY FS_Subset, SumType, FS_CardinalityType
<1>1. {} \in P
  <2>1. Sum(f, {}) = 0 /\ Cardinality({}) = 0
    BY FS_EmptySet, SumUnfolds
  <2> QED
    BY <2>1
<1>2. ASSUME NEW T \in SUBSET S, T # {}, \A x \in T : T \ {x} \in P PROVE T \in P
  <2>1. PICK y \in T : TRUE
    BY <1>2
  <2> DEFINE U == T \ {y}
  <2>2. Sum(f, T) = k + Sum(f, U)
    <3>1. IsFiniteSet(T)
      BY <1>t
    <3>2. \A x \in T : f[x] = k /\ f[x] \in Int
      OBVIOUS
    <3> QED
      BY <3>1, <3>2, SumAny
  <2>3. Sum(f, U) = Cardinality(U) * k
    BY <1>2
  <2>4. Cardinality(T) = Cardinality(U) + 1 /\ Cardinality(U) \in Nat
    BY <1>t, FS_RemoveElement
  <2>5. (Cardinality(U) + 1) * k = Cardinality(U) * k + k
    <3> HIDE DEF U
    <3> QED
      BY <2>4
  <2>6. Cardinality(U) * k \in Int
    BY <2>4
  <2>7. Sum(f, T) = Cardinality(T) * k
    <3> HIDE DEF U
    <3> QED
      BY <2>2, <2>3, <2>4, <2>5, <2>6
  <2> QED
    BY <2>7
<1> HIDE DEF P
<1>3. S \in P
  BY <1>1, <1>2, SubsetInduction
<1> QED
  BY <1>3 DEF P

\* The sum over a set that falls into two parts.
LEMMA SumSplits ==
    ASSUME NEW f, NEW A, NEW B, IsFiniteSet(A), IsFiniteSet(B), A \cap B = {},
           \A x \in A \cup B : f[x] \in Int
    PROVE  Sum(f, A \cup B) = Sum(f, A) + Sum(f, B)
<1> DEFINE P == { T \in SUBSET B : Sum(f, A \cup T) = Sum(f, A) + Sum(f, T) }
<1>t. \A T \in SUBSET B : /\ IsFiniteSet(T) /\ IsFiniteSet(A \cup T)
                          /\ Sum(f, T) \in Int /\ Sum(f, A \cup T) \in Int
  BY FS_Subset, FS_Union, SumType
<1>a. Sum(f, A) \in Int
  BY SumType
<1>1. {} \in P
  <2>1. Sum(f, {}) = 0 /\ A \cup {} = A
    BY FS_EmptySet, SumUnfolds
  <2> QED
    BY <2>1, <1>a
<1>2. ASSUME NEW T \in SUBSET B, T # {}, \A x \in T : T \ {x} \in P PROVE T \in P
  <2>1. PICK y \in T : TRUE
    BY <1>2
  <2> DEFINE U == T \ {y}
  <2>2. Sum(f, T) = f[y] + Sum(f, U)
    <3>1. \A x \in T : f[x] \in Int
      OBVIOUS
    <3>2. IsFiniteSet(T)
      BY <1>t
    <3> QED
      BY <3>1, <3>2, SumAny
  <2>3. Sum(f, A \cup T) = f[y] + Sum(f, A \cup U)
    <3>0. PICK W : W = A \cup T
      OBVIOUS
    <3>1. W \ {y} = A \cup U /\ y \in W
      BY <3>0
    <3>2. IsFiniteSet(W) /\ \A x \in W : f[x] \in Int
      BY <3>0, <1>t
    <3>3. Sum(f, W) = f[y] + Sum(f, W \ {y})
      BY <3>1, <3>2, SumAny
    <3> QED
      BY <3>0, <3>1, <3>3
  <2>4. Sum(f, A \cup U) = Sum(f, A) + Sum(f, U)
    BY <1>2
  <2>5. Sum(f, U) \in Int /\ f[y] \in Int
    BY <1>t
  <2>6. Sum(f, A \cup T) = Sum(f, A) + Sum(f, T)
    <3> HIDE DEF U
    <3> QED
      BY <1>a, <2>2, <2>3, <2>4, <2>5
  <2> QED
    BY <2>6
<1> HIDE DEF P
<1>3. B \in P
  BY <1>1, <1>2, SubsetInduction
<1> QED
  BY <1>3 DEF P

\* Summing class by class is summing.
LEMMA SumByClass ==
    ASSUME NEW f, NEW S, IsFiniteSet(S), \A x \in S : f[x] \in Int,
           NEW class, NEW C, IsFiniteSet(C), \A x \in S : class[x] \in C,
           NEW part, \A c \in C : part[c] \subseteq S,
           \A c \in C, x \in S : x \in part[c] <=> class[x] = c,
           NEW h, \A c \in C : h[c] = Sum(f, part[c])
    PROVE  Sum(h, C) = Sum(f, S)
<1> DEFINE In(D) == { x \in S : class[x] \in D }
           P     == { D \in SUBSET C : Sum(h, D) = Sum(f, In(D)) }
<1>i. ASSUME NEW D PROVE IsFiniteSet(In(D)) /\ \A x \in In(D) : x \in S /\ f[x] \in Int
  <2>1. In(D) \in SUBSET S
    OBVIOUS
  <2> HIDE DEF In
  <2> QED
    BY <2>1, FS_Subset
<1>t. ASSUME NEW D \in SUBSET C
      PROVE  IsFiniteSet(D) /\ IsFiniteSet(In(D)) /\ Sum(f, In(D)) \in Int
  <2> HIDE DEF In
  <2> QED
    BY <1>i, FS_Subset, SumType
<1>h. ASSUME NEW c \in C PROVE h[c] = Sum(f, In({c})) /\ h[c] \in Int
  <2>1. In({c}) = part[c]
    OBVIOUS
  <2>2. h[c] = Sum(f, part[c])
    OBVIOUS
  <2> HIDE DEF In
  <2>3. Sum(f, In({c})) \in Int
    BY <1>i, SumType
  <2> QED
    BY <2>1, <2>2, <2>3
<1>1. {} \in P
  <2>1. Sum(h, {}) = 0 /\ Sum(f, {}) = 0 /\ In({}) = {}
    BY FS_EmptySet, SumUnfolds
  <2> QED
    BY <2>1
<1>2. ASSUME NEW D \in SUBSET C, D # {}, \A c \in D : D \ {c} \in P PROVE D \in P
  <2>1. PICK c \in D : TRUE
    BY <1>2
  <2> DEFINE E == D \ {c}
  <2>2. Sum(h, D) = h[c] + Sum(h, E)
    <3>1. IsFiniteSet(D)
      BY <1>t
    <3>2. \A d \in D : h[d] \in Int
      BY <1>h
    <3> HIDE DEF In
    <3> QED
      BY <3>1, <3>2, SumAny
  <2>3. Sum(f, In({c}) \cup In(E)) = Sum(f, In({c})) + Sum(f, In(E))
    <3>1. In({c}) \cap In(E) = {}
      OBVIOUS
    <3> HIDE DEF In, E
    <3>2. IsFiniteSet(In({c})) /\ IsFiniteSet(In(E))
      BY <1>i
    <3>3. \A x \in In({c}) \cup In(E) : f[x] \in Int
      BY <1>i
    <3>4. PICK A, B : A = In({c}) /\ B = In(E)
      OBVIOUS
    <3>5. A \cap B = {} /\ IsFiniteSet(A) /\ IsFiniteSet(B)
      BY <3>1, <3>2, <3>4
    <3>6. \A x \in A \cup B : f[x] \in Int
      BY <3>3, <3>4
    <3>7. Sum(f, A \cup B) = Sum(f, A) + Sum(f, B)
      BY <3>5, <3>6, SumSplits
    <3> QED
      BY <3>4, <3>7
  <2>4. In({c}) \cup In(E) = In(D)
    OBVIOUS
  <2>5. Sum(h, E) = Sum(f, In(E))
    BY <1>2
  <2>6. Sum(h, D) = Sum(f, In(D))
    <3>1. h[c] = Sum(f, In({c}))
      BY <1>h
    <3> HIDE DEF In, E
    <3> QED
      BY <2>2, <2>3, <2>4, <2>5, <3>1
  <2> QED
    BY <2>6
<1> HIDE DEF P
<1>3. C \in P
  BY <1>1, <1>2, SubsetInduction
<1>4. In(C) = S
  OBVIOUS
<1> QED
  BY <1>3, <1>4 DEF P

\* Max, on a finite set of integers, is what its name says.
LEMMA MaxIsMaximum ==
    ASSUME NEW S, IsFiniteSet(S), S # {}, S \subseteq Int
    PROVE  Max(S) \in S /\ \A y \in S : y <= Max(S)
<1> DEFINE P == { T \in SUBSET S : T # {} => \E m \in T : \A y \in T : y <= m }
<1>1. {} \in P
  OBVIOUS
<1>2. ASSUME NEW T \in SUBSET S, T # {}, \A x \in T : T \ {x} \in P PROVE T \in P
  <2>1. PICK x \in T : TRUE
    BY <1>2
  <2>2. CASE T \ {x} = {}
    BY <2>1, <2>2
  <2>3. CASE T \ {x} # {}
    <3>1. PICK m \in T \ {x} : \A y \in T \ {x} : y <= m
      BY <1>2, <2>3
    <3>2. x \in Int /\ m \in Int /\ \A y \in T : y \in Int
      OBVIOUS
    <3>3. CASE m <= x
      <4>1. \A y \in T : y <= x
        BY <3>1, <3>2, <3>3
      <4> QED
        BY <4>1
    <3>4. CASE x <= m
      <4>1. \A y \in T : y <= m
        BY <3>1, <3>2, <3>4
      <4> QED
        BY <4>1
    <3> QED
      BY <3>2, <3>3, <3>4
  <2> QED
    BY <2>2, <2>3
<1> HIDE DEF P
<1>3. S \in P
  BY <1>1, <1>2, SubsetInduction
<1>4. \E m \in S : \A y \in S : y <= m
  BY <1>3 DEF P
<1>5. \E m \in S : \A y \in S : m >= y
  BY <1>4
<1> QED
  BY <1>5 DEF Max

LEMMA ProductType ==
    ASSUME NEW f, NEW S, IsFiniteSet(S), \A x \in S : f[x] \in Int
    PROVE  Product(f, S) \in Int
<1> DEFINE P == { T \in SUBSET S : Product(f, T) \in Int }
<1>1. {} \in P
  BY FS_EmptySet, ProductUnfolds
<1>2. ASSUME NEW T \in SUBSET S, T # {}, \A x \in T : T \ {x} \in P PROVE T \in P
  <2>1. IsFiniteSet(T)
    BY FS_Subset
  <2>2. PICK x \in T : Product(f, T) = f[x] * Product(f, T \ {x})
    BY <1>2, <2>1, ProductUnfolds
  <2>3. f[x] \in Int /\ Product(f, T \ {x}) \in Int
    BY <1>2
  <2> QED
    BY <2>2, <2>3
<1> HIDE DEF P
<1>3. S \in P
  BY <1>1, <1>2, SubsetInduction
<1> QED
  BY <1>3 DEF P

\* Any factor may be taken out first.
LEMMA ProductAny ==
    ASSUME NEW f, NEW S, IsFiniteSet(S), \A x \in S : f[x] \in Int, NEW a \in S
    PROVE  Product(f, S) = f[a] * Product(f, S \ {a})
<1> DEFINE P == { T \in SUBSET S : \A x \in T : Product(f, T) = f[x] * Product(f, T \ {x}) }
<1>t. \A T \in SUBSET S : IsFiniteSet(T) /\ Product(f, T) \in Int
  BY FS_Subset, ProductType
<1>1. {} \in P
  OBVIOUS
<1>2. ASSUME NEW T \in SUBSET S, T # {}, \A x \in T : T \ {x} \in P PROVE T \in P
  <2> HIDE DEF P
  <2>f. IsFiniteSet(T)
    BY <1>t
  <2>1. PICK y \in T : Product(f, T) = f[y] * Product(f, T \ {y})
    BY <1>2, <2>f, ProductUnfolds
  <2> USE DEF P
  <2>2. ASSUME NEW x \in T PROVE Product(f, T) = f[x] * Product(f, T \ {x})
    <3>1. CASE x = y
      BY <2>1, <3>1
    <3>2. CASE x # y
      <4>1. Product(f, T \ {y}) = f[x] * Product(f, (T \ {y}) \ {x})
        BY <1>2, <3>2
      <4>2. Product(f, T \ {x}) = f[y] * Product(f, (T \ {x}) \ {y})
        BY <1>2, <3>2
      <4>3. (T \ {y}) \ {x} = (T \ {x}) \ {y}
        OBVIOUS
      <4>4. f[x] \in Int /\ f[y] \in Int /\ Product(f, (T \ {x}) \ {y}) \in Int
        BY <1>t
      <4>5. Product(f, T) = f[y] * (f[x] * Product(f, (T \ {x}) \ {y}))
        BY <2>1, <4>1, <4>3
      <4>6. \A u, v, w \in Int : v * (u * w) = u * (v * w)
        OBVIOUS
      <4> QED
        BY <4>2, <4>4, <4>5, <4>6
    <3> QED
      BY <3>1, <3>2
  <2> QED
    BY <2>2
<1> HIDE DEF P
<1>3. S \in P
  BY <1>1, <1>2, SubsetInduction
<1> QED
  BY <1>3 DEF P

\* Two products whose factors are below each other.
LEMMA ProductMonotone ==
    ASSUME NEW f, NEW g, NEW S, IsFiniteSet(S),
           \A x \in S : f[x] \in Nat /\ g[x] \in Nat /\ f[x] <= g[x]
    PROVE  Product(f, S) \in Nat /\ Product(f, S) <= Product(g, S)
<1> DEFINE P == { T \in SUBSET S : Product(f, T) \in Nat /\ Product(f, T) <= Product(g, T) }
<1>t. \A T \in SUBSET S : /\ IsFiniteSet(T)
                          /\ Product(f, T) \in Int /\ Product(g, T) \in Int
  BY FS_Subset, ProductType
<1>1. {} \in P
  BY FS_EmptySet, ProductUnfolds
<1>2. ASSUME NEW T \in SUBSET S, T # {}, \A x \in T : T \ {x} \in P PROVE T \in P
  <2>1. PICK y \in T : TRUE
    BY <1>2
  <2>2. PICK a, b, c, d : /\ a = f[y] /\ b = g[y]
                          /\ c = Product(f, T \ {y}) /\ d = Product(g, T \ {y})
    OBVIOUS
  <2>3. Product(f, T) = a * c /\ Product(g, T) = b * d
    <3>1. IsFiniteSet(T) /\ \A x \in T : f[x] \in Int /\ g[x] \in Int
      BY <1>t
    <3> QED
      BY <2>2, <3>1, ProductAny
  <2>4. a \in Nat /\ b \in Nat /\ c \in Nat /\ d \in Int /\ a <= b /\ c <= d
    BY <1>2, <1>t, <2>2
  <2>5. a * c \in Nat /\ a * c <= a * d /\ a * d <= b * d
    BY <2>4
  <2>6. a * c <= b * d
    <3>1. a * c \in Int /\ a * d \in Int /\ b * d \in Int
      BY <2>4
    <3> QED
      BY <2>5, <3>1
  <2> QED
    BY <2>3, <2>5, <2>6
<1> HIDE DEF P
<1>3. S \in P
  BY <1>1, <1>2, SubsetInduction
<1> QED
  BY <1>3 DEF P

----------------------------------------------------------------------------
(* Powers *)

PowersOf(b, n) == [t \in 1 .. n |-> b]

LEMMA PowerIsProduct == \A b, n : power(b, n) = Product(PowersOf(b, n), 1 .. n)
BY DEF power, Times, FoldFunction, Product, PowersOf

LEMMA PowerType ==
    ASSUME NEW b \in Int, NEW n \in Int
    PROVE  power(b, n) \in Int
<1>1. IsFiniteSet(1 .. n) /\ \A t \in 1 .. n : PowersOf(b, n)[t] \in Int
  BY FS_Interval DEF PowersOf
<1> QED
  BY <1>1, ProductType, PowerIsProduct

LEMMA PowerPositive ==
    ASSUME NEW b \in Positive, NEW n \in Int
    PROVE  power(b, n) \in Positive
<1> DEFINE one == PowersOf(1, n)
           f   == PowersOf(b, n)
<1>1. IsFiniteSet(1 .. n)
  BY FS_Interval
<1>2. \A t \in 1 .. n : one[t] \in Nat /\ f[t] \in Nat /\ one[t] <= f[t] /\ one[t] = 1
  BY DEF PowersOf, Positive
<1> HIDE DEF one, f
<1>3. Product(one, 1 .. n) <= Product(f, 1 .. n)
  BY <1>1, <1>2, ProductMonotone
<1>4. Product(one, 1 .. n) = 1
  <2> DEFINE P == { T \in SUBSET (1 .. n) : Product(one, T) = 1 }
  <2>1. {} \in P
    BY FS_EmptySet, ProductUnfolds
  <2>2. ASSUME NEW T \in SUBSET (1 .. n), T # {}, \A x \in T : T \ {x} \in P PROVE T \in P
    <3>1. IsFiniteSet(T)
      BY <1>1, FS_Subset
    <3>2. PICK x \in T : Product(one, T) = one[x] * Product(one, T \ {x})
      BY <2>2, <3>1, ProductUnfolds
    <3>3. one[x] = 1 /\ Product(one, T \ {x}) = 1
      BY <1>2, <2>2
    <3> QED
      BY <3>2, <3>3
  <2> HIDE DEF P
  <2>3. (1 .. n) \in P
    BY <1>1, <2>1, <2>2, SubsetInduction
  <2> QED
    BY <2>3 DEF P
<1>5. Product(f, 1 .. n) \in Int
  BY <1>1, <1>2, ProductType
<1> QED
  BY <1>3, <1>4, <1>5, PowerIsProduct DEF f, Positive

LEMMA PowerUnfolds ==
    ASSUME NEW b \in Int
    PROVE  /\ power(b, 0) = 1
           /\ \A n \in Nat : power(b, n + 1) = b * power(b, n)
<1>1. power(b, 0) = 1
  <2>1. 1 .. 0 = {}
    OBVIOUS
  <2>2. Product(PowersOf(b, 0), 1 .. 0) = 1
    BY <2>1, FS_EmptySet, ProductUnfolds
  <2> QED
    BY <2>2, PowerIsProduct
<1>2. ASSUME NEW n \in Nat PROVE power(b, n + 1) = b * power(b, n)
  <2>1. PICK f, g, S, T : f = PowersOf(b, n + 1) /\ g = PowersOf(b, n) /\ S = 1 .. n + 1 /\ T = 1 .. n
    OBVIOUS
  <2>2. S \ {n + 1} = T /\ n + 1 \in S
    BY <2>1
  <2>3. IsFiniteSet(S) /\ IsFiniteSet(T)
    BY <2>1, FS_Interval
  <2>4. (\A t \in S : f[t] = b) /\ (\A t \in T : g[t] = b)
    BY <2>1 DEF PowersOf
  <2>5. Product(f, S) = b * Product(f, T)
    <3>1. \A t \in S : f[t] \in Int
      BY <2>4
    <3>2. Product(f, S) = f[n + 1] * Product(f, S \ {n + 1})
      BY <2>2, <2>3, <3>1, ProductAny
    <3> QED
      BY <2>2, <2>4, <3>2
  <2>6. Product(f, T) = Product(g, T)
    <3>1. ASSUME NEW U \in SUBSET T PROVE \A t \in U : f[t] = g[t] /\ f[t] \in Int
      BY <2>2, <2>4
    <3> DEFINE P == { U \in SUBSET T : Product(f, U) = Product(g, U) }
    <3>2. {} \in P
      BY FS_EmptySet, ProductUnfolds
    <3>3. ASSUME NEW U \in SUBSET T, U # {}, \A x \in U : U \ {x} \in P PROVE U \in P
      <4>1. IsFiniteSet(U)
        BY <2>3, FS_Subset
      <4>2. PICK x \in U : Product(f, U) = f[x] * Product(f, U \ {x})
        BY <3>3, <4>1, ProductUnfolds
      <4>3. \A t \in U : g[t] \in Int
        BY <3>1
      <4>4. Product(g, U) = g[x] * Product(g, U \ {x})
        BY <4>1, <4>3, ProductAny
      <4>5. f[x] = g[x] /\ Product(f, U \ {x}) = Product(g, U \ {x})
        BY <3>1, <3>3
      <4> QED
        BY <4>2, <4>4, <4>5
    <3> HIDE DEF P
    <3>4. T \in P
      BY <2>3, <3>2, <3>3, SubsetInduction
    <3> QED
      BY <3>4 DEF P
  <2> QED
    BY <2>1, <2>5, <2>6, PowerIsProduct
<1> QED
  BY <1>1, <1>2

LEMMA PowerAdds ==
    ASSUME NEW b \in Int, NEW m \in Nat, NEW n \in Nat
    PROVE  power(b, m) * power(b, n) = power(b, m + n)
<1> DEFINE Bad == { k \in Nat : power(b, m) * power(b, k) # power(b, m + k) }
<1>1. SUFFICES ASSUME Bad # {} PROVE FALSE
  OBVIOUS
<1>2. PICK k \in Bad : \A j \in Bad : k <= j
  BY <1>1, LeastNatural
<1>t. \A j \in Nat : power(b, j) \in Int
  BY PowerType
<1>3. k # 0
  <2>1. power(b, m) * power(b, 0) = power(b, m + 0)
    <3>1. power(b, 0) = 1 /\ m + 0 = m
      BY PowerUnfolds
    <3>2. power(b, m) \in Int
      BY <1>t
    <3> QED
      BY <3>1, <3>2
  <2> QED
    BY <2>1
<1>4. k \in Nat /\ k - 1 \in Nat /\ power(b, m) * power(b, k) # power(b, m + k)
  BY <1>3
<1>5. k - 1 \notin Bad
  BY <1>2, <1>4
<1>6. PICK j \in Nat : j = k - 1 /\ k = j + 1 /\ m + k = (m + j) + 1 /\ m + j \in Nat
  BY <1>4
<1>7. power(b, m) * power(b, j) = power(b, m + j)
  BY <1>5, <1>6
<1>8. power(b, k) = b * power(b, j) /\ power(b, m + k) = b * power(b, m + j)
  BY <1>6, PowerUnfolds
<1>9. PICK u, v, w \in Int : u = power(b, m) /\ v = power(b, j) /\ w = power(b, m + j)
  BY <1>t, <1>6
<1>10. u * (b * v) = b * (u * v)
  OBVIOUS
<1> QED
  BY <1>4, <1>7, <1>8, <1>9, <1>10

----------------------------------------------------------------------------
(* What a bundle saves: savings.py *)

LEMMA UnitsArePositive ==
    /\ One \in Positive /\ One2 \in Positive /\ EU \in Positive /\ KU \in Positive
    /\ KU \div One \in Nat /\ KU \div (One2 * One) \in Nat /\ KU \div EU \in Nat
<1>1. One \in Positive /\ One \in Nat /\ MaxMembers \in Nat
  BY UnitsAssumption DEF Positive
<1>2. PICK n \in Nat : n = 1 + 2 * MaxMembers
  BY <1>1
<1>3. KU \in Positive
  BY <1>1, <1>2, PowerPositive DEF KU
<1>4. \A u \in Positive, v \in Positive : u * v \in Positive /\ u \div v \in Nat
  BY DEF Positive
<1> QED
  BY <1>1, <1>3, <1>4 DEF One2, EU

LEMMA LeastOfNaturals ==
    ASSUME NEW S, S \subseteq Nat, S # {}
    PROVE  Min(S) \in S
<1>1. \E m \in S : \A k \in S : m <= k
  BY LeastNatural
<1> QED
  BY <1>1 DEF Min

\* A row the expansion finds everything for has a whole multiplier ...
LEMMA MultiplierIsWhole ==
    ASSUME NEW b, NEW iv, NEW p, valid_params(p),
           iv.end_use # "generation", ~Unknown(b, iv, p)
    PROVE  adj_multiplier(iv.adj_key, b, p) \in Int
<1>1. CASE iv.adj_key = ""
  <2>1. adj_multiplier(iv.adj_key, b, p) = One
    BY <1>1 DEF adj_multiplier
  <2> QED
    BY <2>1, UnitsArePositive DEF Positive
<1>2. CASE iv.adj_key # ""
  <2> DEFINE rules == p.adj[iv.adj_key]
             f     == [field \in DOMAIN rules |-> match_bucket(rules[field], b[field])]
  <2>1. iv.adj_key \in DOMAIN p.adj /\ ~NoBucket(b, iv, p)
    BY <1>2 DEF Unknown
  <2>2. valid_adj(rules)
    BY <2>1 DEF valid_params
  <2>3. ASSUME NEW field \in DOMAIN rules PROVE f[field] \in Int
    <3>1. Matching(rules[field], b[field]) # {}
      BY <2>1 DEF NoBucket, Finds
    <3>2. \A i \in DOMAIN rules[field] : i \in Nat /\ rules[field][i].factor \in Int
      BY <2>2 DEF valid_adj
    <3>3. Matching(rules[field], b[field]) \subseteq DOMAIN rules[field]
      BY DEF Matching
    <3>4. Min(Matching(rules[field], b[field])) \in DOMAIN rules[field]
      BY <3>1, <3>2, <3>3, LeastOfNaturals
    <3> QED
      BY <3>2, <3>4 DEF match_bucket
  <2>4. IsFiniteSet(DOMAIN rules) /\ Cardinality(DOMAIN rules) \in Nat
    BY <2>2, FS_CardinalityType DEF valid_adj
  <2>5. Product(f, DOMAIN rules) \in Int
    <3> HIDE DEF f
    <3> QED
      BY <2>3, <2>4, ProductType
  <2>6. power(One, Cardinality(DOMAIN rules)) \in Positive
    BY <2>4, PowerPositive, UnitsArePositive
  <2>7. adj_multiplier(iv.adj_key, b, p)
          = (One * Product(f, DOMAIN rules)) \div power(One, Cardinality(DOMAIN rules))
    BY <1>2 DEF adj_multiplier, Times, FoldFunction, Product
  <2> HIDE DEF f, rules
  <2>8. \A u \in Int, v \in Positive : (One * u) \div v \in Int
    BY UnitsArePositive DEF Positive
  <2> QED
    BY <2>5, <2>6, <2>7, <2>8
<1> QED
  BY <1>1, <1>2

\* ... and saves a fraction of its end use.
LEMMA FractionInRange ==
    ASSUME NEW b, NEW iv, NEW p, valid_params(p), valid_intervention(iv),
           iv.end_use # "generation", ~Unknown(b, iv, p)
    PROVE  effective_saving_frac(b, iv, p) \in 0 .. One2
<1>1. iv.saving_frac \in Int
  BY UnitsAssumption DEF valid_intervention
<1>2. PICK raw \in Int : raw = iv.saving_frac * adj_multiplier(iv.adj_key, b, p)
  BY <1>1, MultiplierIsWhole
<1>3. One2 \in Int /\ One2 > 0
  BY UnitsArePositive DEF Positive
<1>4. effective_saving_frac(b, iv, p) = IF raw < 0 THEN 0 ELSE smaller(raw, One2)
  BY <1>2 DEF effective_saving_frac
<1> QED
  BY <1>3, <1>4 DEF smaller

LEMMA SolarIsWhole ==
    ASSUME NEW b, NEW p, valid_building(b), valid_params(p)
    PROVE  /\ solar_kwp(b, p) \in Nat
           /\ b.roof_orientation \in DOMAIN p.orientation_factor =>
                  solar_saving_kwh(b, p) \in Int
<1>1. /\ b.roof_area_m2 \in Positive /\ b.annual_kwh \in Positive
      /\ p.m2_per_kwp \in Positive /\ p.yield_kwh_per_kwp \in Positive
  BY DEF valid_building, valid_params
<1>2. One \in Int /\ p.usable_roof_frac \in 1 .. One /\ p.self_consumption_cap \in 1 .. One
      /\ p.soiling_loss \in 0 .. (One - 1)
  BY UnitsAssumption DEF valid_params
<1>3. solar_kwp(b, p) \in Nat
  BY <1>1, <1>2 DEF solar_kwp, Positive
<1>4. ASSUME b.roof_orientation \in DOMAIN p.orientation_factor
      PROVE  solar_saving_kwh(b, p) \in Int
  <2>1. p.orientation_factor[b.roof_orientation] \in Int
    BY <1>4 DEF valid_params
  <2>2. solar_generation_kwh(b, p) \in Int
    <3>1. \A k, y, o, l, u \in Int : k * y * o * (One - l) * u \in Int
      BY <1>2
    <3> QED
      BY <1>1, <1>2, <1>3, <2>1, <3>1, UnitsArePositive DEF solar_generation_kwh, Positive
  <2>3. b.annual_kwh * p.self_consumption_cap * (KU \div One) \in Int
    <3>1. KU \div One \in Int
      BY UnitsArePositive
    <3> QED
      BY <1>1, <1>2, <3>1 DEF Positive
  <2> QED
    BY <2>2, <2>3 DEF solar_saving_kwh, smaller
<1> QED
  BY <1>3, <1>4

\* What m measures take away of a whole of M parts that n of them leave p of p's whole.
LEMMA Remains ==
    ASSUME NEW M \in Positive, NEW S, IsFiniteSet(S),
           NEW f, \A x \in S : f[x] \in 0 .. M,
           NEW g, \A x \in S : g[x] = M - f[x]
    PROVE  LET p == Product(g, S)
               w == power(M, Cardinality(S))
               s == Sum(f, S)
           IN  /\ p \in Nat /\ w \in Positive /\ s \in Nat /\ p <= w
               /\ M * (w - p) <= w * s
               /\ \A x \in S : w * f[x] <= M * (w - p)
               /\ \A x, y \in S : x # y /\ f[x] > 0 /\ f[y] > 0 => M * (w - p) < w * s
<1> DEFINE p(T) == Product(g, T)
           w(T) == power(M, Cardinality(T))
           s(T) == Sum(f, T)
           P    == { T \in SUBSET S : p(T) <= w(T) /\ M * (w(T) - p(T)) <= w(T) * s(T) }
<1>m. M \in Int /\ M > 0
  BY DEF Positive
<1>t. ASSUME NEW T \in SUBSET S
      PROVE  /\ IsFiniteSet(T) /\ Cardinality(T) \in Nat
             /\ p(T) \in Nat /\ w(T) \in Int /\ w(T) > 0 /\ s(T) \in Nat
  <2>1. IsFiniteSet(T) /\ Cardinality(T) \in Nat
    BY FS_Subset, FS_CardinalityType
  <2>2. \A x \in T : f[x] \in Nat /\ g[x] \in Nat /\ g[x] <= g[x]
    BY <1>m
  <2>3. s(T) \in Nat
    BY <2>1, <2>2, SumOfNaturals
  <2>4. p(T) \in Nat
    BY <2>1, <2>2, ProductMonotone
  <2>5. w(T) \in Positive
    BY <2>1, PowerPositive
  <2> QED
    BY <2>1, <2>3, <2>4, <2>5 DEF Positive
<1>s. ASSUME NEW T \in SUBSET S, NEW y \in T
      PROVE  /\ p(T) = (M - f[y]) * p(T \ {y}) /\ w(T) = M * w(T \ {y})
             /\ s(T) = f[y] + s(T \ {y})
  <2>1. IsFiniteSet(T) /\ \A x \in T : f[x] \in Int /\ g[x] \in Int
    BY <1>m, <1>t
  <2>2. p(T) = g[y] * p(T \ {y}) /\ s(T) = f[y] + s(T \ {y})
    BY <2>1, SumAny, ProductAny
  <2>3. Cardinality(T) = Cardinality(T \ {y}) + 1 /\ Cardinality(T \ {y}) \in Nat
    BY <1>t, FS_RemoveElement
  <2>4. w(T) = M * w(T \ {y})
    BY <1>m, <2>3, PowerUnfolds
  <2> QED
    BY <2>2, <2>4
<1>1. {} \in P
  <2>1. p({}) = 1 /\ s({}) = 0 /\ w({}) = 1
    BY <1>m, FS_EmptySet, SumUnfolds, ProductUnfolds, PowerUnfolds
  <2> HIDE DEF p, w, s
  <2> QED
    BY <1>m, <2>1
<1>2. ASSUME NEW T \in SUBSET S, T # {}, \A x \in T : T \ {x} \in P PROVE T \in P
  <2>1. PICK y \in T : TRUE
    BY <1>2
  <2>2. PICK a, u, v, r : /\ a = f[y] /\ u = p(T \ {y}) /\ v = w(T \ {y}) /\ r = s(T \ {y})
    OBVIOUS
  <2>3. a \in Nat /\ a <= M /\ u \in Nat /\ v \in Int /\ v > 0 /\ r \in Nat
    BY <1>t, <2>2
  <2>4. u <= v /\ M * (v - u) <= v * r
    BY <1>2, <2>2
  <2>5. p(T) = (M - a) * u /\ w(T) = M * v /\ s(T) = a + r
    BY <1>s, <2>2
  <2>6. (M - a) * u <= M * v
    <3>1. (M - a) * u <= M * u /\ M * u <= M * v
      BY <1>m, <2>3, <2>4
    <3>2. (M - a) * u \in Int /\ M * u \in Int /\ M * v \in Int
      BY <1>m, <2>3
    <3> QED
      BY <3>1, <3>2
  <2>7. M * (M * v - (M - a) * u) <= (M * v) * (a + r)
    <3>1. M * v - (M - a) * u = M * (v - u) + a * u
      BY <1>m, <2>3
    <3>2. a * u <= a * v
      BY <2>3, <2>4
    <3>3. M * (v - u) + a * u <= v * r + a * v
      <4>1. M * (v - u) \in Int /\ a * u \in Int /\ v * r \in Int /\ a * v \in Int
        BY <1>m, <2>3
      <4> QED
        BY <2>4, <3>2, <4>1
    <3>4. PICK d, e \in Int : d = M * (v - u) + a * u /\ e = v * r + a * v
      BY <1>m, <2>3
    <3>5. M * d <= M * e
      BY <1>m, <3>3, <3>4
    <3>6. M * e = (M * v) * (a + r)
      BY <1>m, <2>3, <3>4
    <3> QED
      BY <3>1, <3>4, <3>5, <3>6
  <2> HIDE DEF p, w, s
  <2> QED
    BY <2>5, <2>6, <2>7
<1>3. ASSUME NEW T \in SUBSET S PROVE T \in P
  <2>1. IsFiniteSet(T) /\ \A U \in SUBSET T : U \in SUBSET S
    BY <1>t
  <2> HIDE DEF P
  <2>2. \A U \in SUBSET T : U # {} /\ (\A z \in U : U \ {z} \in P) => U \in P
    BY <1>2, <2>1
  <2> QED
    BY <1>1, <2>1, <2>2, SubsetInduction
<1>4. ASSUME NEW T \in SUBSET S
      PROVE  p(T) <= w(T) /\ M * (w(T) - p(T)) <= w(T) * s(T)
  BY <1>3
<1>5. ASSUME NEW x \in S PROVE w(S) * f[x] <= M * (w(S) - p(S))
  <2>1. PICK a, u, v : a = f[x] /\ u = p(S \ {x}) /\ v = w(S \ {x})
    OBVIOUS
  <2>2. a \in Nat /\ a <= M /\ u \in Nat /\ v \in Int /\ v > 0 /\ u <= v
    BY <1>t, <1>4, <2>1
  <2>3. p(S) = (M - a) * u /\ w(S) = M * v
    BY <1>s, <2>1
  <2>4. (M - a) * u <= (M - a) * v
    BY <1>m, <2>2
  <2>5. PICK d, e \in Int : d = (M - a) * u /\ e = (M - a) * v
    BY <1>m, <2>2
  <2>6. M * v - e = v * a
    BY <1>m, <2>2, <2>5
  <2>7. v * a <= M * v - d
    <3>1. v * a \in Int /\ M * v \in Int
      BY <1>m, <2>2
    <3> QED
      BY <2>4, <2>5, <2>6, <3>1
  <2>8. PICK h, k \in Int : h = v * a /\ k = M * v - d
    BY <1>m, <2>2
  <2>9. M * h <= M * k
    BY <1>m, <2>7, <2>8
  <2>10. M * h = (M * v) * a
    BY <1>m, <2>2, <2>8
  <2> HIDE DEF p, w
  <2> QED
    BY <2>1, <2>3, <2>5, <2>8, <2>9, <2>10
<1>6. ASSUME NEW x \in S, NEW y \in S, x # y, f[x] > 0, f[y] > 0
      PROVE  M * (w(S) - p(S)) < w(S) * s(S)
  <2>1. PICK a, b, u, v, r, u2, v2 : /\ a = f[x] /\ b = f[y]
            /\ u = p(S \ {x}) /\ v = w(S \ {x}) /\ r = s(S \ {x})
            /\ u2 = p((S \ {x}) \ {y}) /\ v2 = w((S \ {x}) \ {y})
    OBVIOUS
  <2>2. /\ a \in Nat /\ a > 0 /\ a <= M /\ b \in Nat /\ b > 0 /\ b <= M
        /\ u \in Nat /\ v \in Int /\ v > 0 /\ r \in Nat
        /\ u2 \in Nat /\ v2 \in Int /\ v2 > 0 /\ u2 <= v2
    BY <1>t, <1>4, <1>6, <2>1
  <2>3. p(S) = (M - a) * u /\ w(S) = M * v /\ s(S) = a + r
    BY <1>s, <2>1
  <2>4. u = (M - b) * u2 /\ v = M * v2
    BY <1>s, <1>6, <2>1
  <2>5. u < v
    <3>1. (M - b) * u2 <= (M - b) * v2
      BY <1>m, <2>2
    <3>2. (M - b) * v2 = M * v2 - b * v2 /\ b * v2 > 0
      BY <1>m, <2>2
    <3>3. (M - b) * u2 \in Int /\ (M - b) * v2 \in Int /\ M * v2 \in Int /\ b * v2 \in Int
      BY <1>m, <2>2
    <3> QED
      BY <2>4, <3>1, <3>2, <3>3
  <2>6. a * u < a * v
    BY <2>2, <2>5
  <2>7. M * (v - u) <= v * r
    BY <1>4, <2>1
  <2>8. PICK d, e \in Int : d = M * (v - u) + a * u /\ e = v * r + a * v
    BY <1>m, <2>2
  <2>9. d < e
    <3>1. M * (v - u) \in Int /\ a * u \in Int /\ v * r \in Int /\ a * v \in Int
      BY <1>m, <2>2
    <3> QED
      BY <2>6, <2>7, <2>8, <3>1
  <2>10. M * d < M * e
    BY <1>m, <2>9
  <2>11. M * v - (M - a) * u = d /\ M * e = (M * v) * (a + r)
    BY <1>m, <2>2, <2>8
  <2> HIDE DEF p, w, s
  <2> QED
    BY <2>3, <2>10, <2>11
<1>7. M * (w(S) - p(S)) <= w(S) * s(S)
  BY <1>4
<1>8. p(S) <= w(S) /\ p(S) \in Nat /\ w(S) \in Positive /\ s(S) \in Nat
  BY <1>4, <1>t DEF Positive
<1> QED
  BY <1>5, <1>6, <1>7, <1>8

\* On one end use measures together save at most what they save apart, less when two of
\* them save something, and no less than any of them.
LEMMA ReductionsCombine ==
    ASSUME NEW b, NEW p, valid_building(b), valid_params(p),
           NEW use, use # "generation",
           NEW group, IsFiniteSet(group), group # {}, Cardinality(group) <= MaxMembers,
           \A iv \in group : /\ valid_intervention(iv) /\ iv.end_use = use
                             /\ ~Unknown(b, iv, p),
           NEW one, \A iv \in group : one[iv] = saving_of_end_use(b, use, {iv}, p)
    PROVE  LET s == saving_of_end_use(b, use, group, p)
           IN  /\ s \in Nat /\ s <= Sum(one, group)
               /\ \A iv \in group : one[iv] \in Nat /\ one[iv] <= s
               /\ \A iv, jv \in group :
                      iv # jv /\ one[iv] > 0 /\ one[jv] > 0 => s < Sum(one, group)
<1> DEFINE f    == [iv \in group |-> effective_saving_frac(b, iv, p)]
           G(T) == [iv \in T |-> One2 - effective_saving_frac(b, iv, p)]
           n    == Cardinality(group)
<1>1. PICK M \in Positive : M = One2
  BY UnitsArePositive
<1>2. PICK K \in Nat : K = MaxMembers /\ K - 1 \in Nat
  BY UnitsAssumption
<1>3. n \in Nat /\ n > 0 /\ n <= K
  <2>1. n \in Nat /\ n # 0
    BY FS_CardinalityType, FS_EmptySet
  <2> QED
    BY <1>2, <2>1
<1>4. \A iv \in group : f[iv] \in 0 .. M
  BY <1>1, FractionInRange
<1>5. PICK B \in Nat : B = end_use_baseline_kwh(b, use, p)
  <2>1. PICK iv \in group : TRUE
    OBVIOUS
  <2>2. ~NoShare(b, iv, p) /\ iv.end_use = use
    BY <2>1 DEF Unknown
  <2>3. p.end_use_share[b.occupancy_pattern][use] \in 0 .. One
    BY <2>2 DEF NoShare, valid_params
  <2>4. b.annual_kwh \in Nat /\ p.end_use_share[b.occupancy_pattern][use] \in Nat
    BY <2>3, UnitsArePositive DEF valid_building, Positive
  <2> QED
    BY <2>4 DEF end_use_baseline_kwh
<1>6. PICK V, W, Q \in Int : /\ V = power(M, K - 1) /\ W = power(M, n) /\ Q = power(M, K - n)
  <2>1. M \in Int /\ K - 1 \in Int /\ n \in Int /\ K - n \in Int
    BY <1>1, <1>2, <1>3 DEF Positive
  <2>2. power(M, K - 1) \in Int /\ power(M, n) \in Int /\ power(M, K - n) \in Int
    BY <2>1, PowerType
  <2> QED
    BY <2>2
<1>7. V > 0 /\ Q > 0
  <2>1. V \in Positive /\ Q \in Positive
    BY <1>2, <1>3, <1>6, PowerPositive
  <2> QED
    BY <2>1 DEF Positive
<1>8. Q * W = M * V
  <2>1. M \in Int
    BY <1>1 DEF Positive
  <2>2. PICK j, k \in Nat : j = K - n /\ k = K - 1 /\ j + n = K /\ k + 1 = K
    BY <1>2, <1>3
  <2>3. power(M, j) * power(M, n) = power(M, j + n)
    BY <1>3, <2>1, <2>2, PowerAdds
  <2>4. power(M, k + 1) = M * power(M, k)
    BY <2>1, <2>2, PowerUnfolds
  <2> QED
    BY <1>6, <2>2, <2>3, <2>4
<1>9. PICK q, s \in Int : q = Product(G(group), group) /\ s = Sum(f, group)
  <2>1. \A iv \in group : f[iv] \in Int /\ G(group)[iv] \in Int
    BY <1>1, <1>4 DEF Positive
  <2> HIDE DEF f, G
  <2> QED
    BY <2>1, ProductType, SumType
<1>10. /\ q \in Nat /\ s \in Nat /\ q <= W /\ M * (W - q) <= W * s
       /\ \A iv \in group : W * f[iv] <= M * (W - q)
       /\ \A iv, jv \in group : iv # jv /\ f[iv] > 0 /\ f[jv] > 0 => M * (W - q) < W * s
  <2>1. \A iv \in group : G(group)[iv] = M - f[iv]
    BY <1>1
  <2> HIDE DEF f, G
  <2> QED
    BY <1>4, <1>6, <1>9, <2>1, Remains
<1>11. saving_of_end_use(b, use, group, p) = B * Q * (W - q)
  BY <1>1, <1>2, <1>5, <1>6, <1>9 DEF saving_of_end_use, Times, FoldFunction, Product
<1>12. ASSUME NEW iv \in group PROVE one[iv] = B * V * f[iv]
  <2>1. IsFiniteSet({iv}) /\ Cardinality({iv}) = 1
    BY FS_Singleton
  <2>2. PICK a \in Int : a = effective_saving_frac(b, iv, p)
    BY <1>4
  <2>m. M \in Int
    BY <1>1 DEF Positive
  <2>3. Product(G({iv}), {iv}) = M - a
    <3>1. G({iv})[iv] = M - a /\ \A x \in {iv} : G({iv})[x] \in Int
      BY <1>1, <2>m, <2>2
    <3>2. {iv} \ {iv} = {}
      OBVIOUS
    <3> HIDE DEF G
    <3>3. Product(G({iv}), {iv} \ {iv}) = 1
      BY <3>2, FS_EmptySet, ProductUnfolds
    <3>4. Product(G({iv}), {iv}) = G({iv})[iv] * Product(G({iv}), {iv} \ {iv})
      BY <2>1, <3>1, ProductAny
    <3> QED
      BY <2>m, <2>2, <3>1, <3>3, <3>4
  <2>4. power(M, 1) = M
    <3>1. power(M, 0) = 1 /\ power(M, 0 + 1) = M * power(M, 0)
      BY <2>m, PowerUnfolds
    <3> QED
      BY <2>m, <3>1
  <2>5. saving_of_end_use(b, use, {iv}, p) = B * V * (M - (M - a))
    BY <1>1, <1>2, <1>5, <1>6, <2>1, <2>3, <2>4
       DEF saving_of_end_use, Times, FoldFunction, Product
  <2>6. M - (M - a) = a
    BY <2>m, <2>2
  <2> QED
    BY <2>2, <2>5, <2>6
<1>13. Sum(one, group) = B * V * s
  <2>1. PICK k \in Int : k = B * V
    BY <1>5, <1>6
  <2>2. \A iv \in group : f[iv] \in Int /\ one[iv] = k * f[iv]
    BY <1>4, <1>12, <2>1
  <2>3. Sum(one, group) = k * Sum(f, group)
    <3> HIDE DEF f
    <3> QED
      BY <2>2, SumScales
  <2> QED
    BY <1>9, <2>1, <2>3
<1>m. M \in Int /\ M > 0
  BY <1>1 DEF Positive
\* Both sides times M, and Q * W for M * V.
<1>14. PICK d, e \in Int : d = M * (W - q) /\ e = W * s
  <2>1. M * (W - q) \in Int /\ W * s \in Int
    BY <1>m, <1>6, <1>9
  <2> QED
    BY <2>1
<1>15. PICK S, R, k \in Int : S = B * Q * (W - q) /\ R = B * V * s /\ k = B * Q
  <2>1. B * Q * (W - q) \in Int /\ B * V * s \in Int /\ B * Q \in Int
    BY <1>5, <1>6, <1>9
  <2> QED
    BY <2>1
<1>16. M * S = k * d /\ M * R = k * e
  <2>1. M * S = k * d
    BY <1>m, <1>5, <1>6, <1>9, <1>14, <1>15
  <2>2. M * R = B * (M * V) * s
    BY <1>m, <1>5, <1>6, <1>9, <1>15
  <2>3. B * (Q * W) * s = k * e
    BY <1>5, <1>6, <1>9, <1>14, <1>15
  <2> QED
    BY <1>8, <2>1, <2>2, <2>3
<1>17. k \in Nat /\ S \in Nat
  BY <1>5, <1>6, <1>7, <1>9, <1>10, <1>15
<1>18. S <= R
  <2>1. k * d <= k * e
    BY <1>10, <1>14, <1>17
  <2> QED
    BY <1>m, <1>15, <1>16, <2>1
<1>19. ASSUME NEW iv \in group PROVE one[iv] \in Nat /\ one[iv] <= S
  <2>1. PICK a \in Nat : a = f[iv]
    BY <1>4, <1>m
  <2>2. PICK o \in Nat : o = one[iv] /\ o = B * V * a
    BY <1>5, <1>6, <1>7, <1>12, <2>1
  <2>3. M * o = k * (W * a)
    <3>1. M * o = B * (M * V) * a
      BY <1>m, <1>5, <1>6, <2>1, <2>2
    <3>2. B * (Q * W) * a = k * (W * a)
      BY <1>5, <1>6, <1>15, <2>1
    <3> QED
      BY <1>8, <3>1, <3>2
  <2>4. k * (W * a) <= k * d
    <3>1. W * a \in Int /\ W * a <= d
      BY <1>6, <1>10, <1>14, <2>1
    <3> QED
      BY <1>17, <3>1
  <2>5. M * o <= M * S
    BY <1>16, <2>3, <2>4
  <2> QED
    BY <1>m, <1>15, <2>2, <2>5
<1>20. ASSUME NEW iv \in group, NEW jv \in group, iv # jv, one[iv] > 0, one[jv] > 0
       PROVE  S < R
  <2>1. B > 0 /\ f[iv] > 0 /\ f[jv] > 0
    <3>1. PICK a, c \in Nat : a = f[iv] /\ c = f[jv]
      BY <1>4, <1>m
    <3>2. B * V * a > 0 /\ B * V * c > 0
      BY <1>12, <1>20, <3>1
    <3>3. B # 0 /\ a # 0 /\ c # 0
      BY <1>5, <1>6, <3>1, <3>2
    <3> QED
      BY <1>5, <3>1, <3>3
  <2>2. d < e
    BY <1>10, <1>14, <1>20, <2>1
  <2>3. k > 0
    BY <1>5, <1>6, <1>7, <1>15, <2>1
  <2>4. k * d < k * e
    BY <1>14, <1>15, <2>2, <2>3
  <2> QED
    BY <1>m, <1>15, <1>16, <2>4
<1> QED
  BY <1>11, <1>13, <1>15, <1>17, <1>18, <1>19, <1>20

\* Generation on one roof adds.
LEMMA EndUseCombines ==
    ASSUME NEW b, NEW p, valid_building(b), valid_params(p), NEW use,
           NEW group, IsFiniteSet(group), group # {}, Cardinality(group) <= MaxMembers,
           \A iv \in group : /\ valid_intervention(iv) /\ iv.end_use = use
                             /\ ~Unknown(b, iv, p),
           NEW one, \A iv \in group : one[iv] = saving_of_end_use(b, use, {iv}, p)
    PROVE  LET s == saving_of_end_use(b, use, group, p)
           IN  /\ s \in Int /\ s <= Sum(one, group)
               /\ \A iv \in group : one[iv] \in Int
               /\ (\A iv \in group : one[iv] >= 0) => s >= 0 /\ \A iv \in group : one[iv] <= s
               /\ use # "generation" => \A iv, jv \in group :
                      iv # jv /\ one[iv] > 0 /\ one[jv] > 0 => s < Sum(one, group)
<1>1. CASE use # "generation"
  <2>1. PICK s : s = saving_of_end_use(b, use, group, p)
    OBVIOUS
  <2>2. /\ s \in Nat /\ s <= Sum(one, group)
        /\ \A iv \in group : one[iv] \in Nat /\ one[iv] <= s
        /\ \A iv, jv \in group :
               iv # jv /\ one[iv] > 0 /\ one[jv] > 0 => s < Sum(one, group)
    BY <1>1, <2>1, ReductionsCombine
  <2> QED
    BY <1>1, <2>1, <2>2
<1>2. CASE use = "generation"
  <2>1. PICK a : a = solar_saving_kwh(b, p)
    OBVIOUS
  <2>2. a \in Int
    <3>1. PICK iv \in group : TRUE
      OBVIOUS
    <3>2. b.roof_orientation \in DOMAIN p.orientation_factor
      BY <1>2, <3>1 DEF Unknown
    <3> QED
      BY <2>1, <3>2, SolarIsWhole
  <2>3. PICK n \in Nat : n = Cardinality(group) /\ n > 0
    BY FS_CardinalityType, FS_EmptySet
  <2>4. saving_of_end_use(b, use, group, p) = n * a
    BY <1>2, <2>1, <2>3 DEF saving_of_end_use
  <2>5. ASSUME NEW iv \in group PROVE one[iv] = a
    <3>1. Cardinality({iv}) = 1
      BY FS_Singleton
    <3>2. saving_of_end_use(b, use, {iv}, p) = 1 * a
      BY <1>2, <2>1, <3>1 DEF saving_of_end_use
    <3>3. one[iv] = saving_of_end_use(b, use, {iv}, p)
      OBVIOUS
    <3>4. 1 * a = a
      BY <2>2
    <3> QED
      BY <3>2, <3>3, <3>4
  <2>6. Sum(one, group) = n * a
    BY <2>2, <2>3, <2>5, SumOfEqual
  <2>7. n * a \in Int /\ (a >= 0 => n * a >= 0 /\ a <= n * a)
    BY <2>2, <2>3
  <2>8. PICK iv \in group : one[iv] = a
    BY <2>5
  <2> QED
    BY <1>2, <2>2, <2>4, <2>5, <2>6, <2>7, <2>8
<1> QED
  BY <1>1, <1>2

\* A ceiling on the whole takes no more away than a ceiling on every part.
LEMMA CeilingCombines ==
    ASSUME NEW S, IsFiniteSet(S), NEW M \in Nat, NEW t \in Int,
           NEW a, \A x \in S : a[x] \in Nat,
           NEW m, \A x \in S : m[x] = smaller(a[x], M),
           t <= Sum(a, S)
    PROVE  /\ smaller(t, M) <= Sum(m, S)
           /\ \A x, y \in S :
                  /\ x # y /\ m[x] > 0 /\ m[y] > 0
                  /\ t < Sum(a, S) /\ \A z \in S : a[z] <= t
                  => smaller(t, M) < Sum(m, S)
<1>m. \A x \in S : m[x] \in Nat /\ m[x] <= M /\ m[x] <= a[x]
  BY DEF smaller
<1>t. \A T \in SUBSET S : IsFiniteSet(T) /\ Sum(a, T) \in Nat /\ Sum(m, T) \in Nat
  BY <1>m, FS_Subset, SumOfNaturals
<1>1. smaller(t, M) <= Sum(m, S)
  <2>1. CASE \A x \in S : a[x] <= M
    <3>1. \A x \in S : m[x] = a[x] /\ a[x] \in Int
      BY <2>1 DEF smaller
    <3>2. Sum(m, S) = Sum(a, S)
      BY <3>1, SumSame
    <3> QED
      BY <1>t, <3>2 DEF smaller
  <2>2. CASE \E x \in S : ~ (a[x] <= M)
    <3>1. PICK x \in S : m[x] = M
      BY <2>2 DEF smaller
    <3>2. m[x] <= Sum(m, S)
      BY <1>m, SumOfNaturals
    <3> QED
      BY <1>t, <3>1, <3>2 DEF smaller
  <2> QED
    BY <2>1, <2>2
<1>2. ASSUME NEW x \in S, NEW y \in S, x # y, m[x] > 0, m[y] > 0,
             t < Sum(a, S), \A z \in S : a[z] <= t
      PROVE  smaller(t, M) < Sum(m, S)
  <2>1. CASE \A z \in S : a[z] <= M
    <3>1. \A z \in S : m[z] = a[z] /\ a[z] \in Int
      BY <2>1 DEF smaller
    <3>2. Sum(m, S) = Sum(a, S)
      BY <3>1, SumSame
    <3> QED
      BY <1>2, <1>t, <3>2 DEF smaller
  <2>2. CASE \E z \in S : ~ (a[z] <= M)
    <3>1. PICK z \in S : m[z] = M
      BY <2>2 DEF smaller
    <3>2. PICK w \in S \ {z} : m[w] > 0
      BY <1>2
    <3>3. Sum(m, S) = m[z] + Sum(m, S \ {z})
      BY <1>m, SumAny
    <3>4. m[w] <= Sum(m, S \ {z})
      <4>1. IsFiniteSet(S \ {z}) /\ \A v \in S \ {z} : m[v] \in Nat
        BY <1>m, <1>t
      <4> QED
        BY <4>1, SumOfNaturals
    <3>5. Sum(m, S \ {z}) \in Nat /\ m[w] \in Nat
      BY <1>m, <1>t
    <3> QED
      BY <3>1, <3>2, <3>3, <3>4, <3>5 DEF smaller
  <2> QED
    BY <2>1, <2>2
<1> QED
  BY <1>1, <1>2

\* The rows of a bundle, all of them known to the contract.
Bundle(b, combo, p) ==
    /\ valid_building(b) /\ valid_params(p)
    /\ IsFiniteSet(combo) /\ combo # {} /\ Cardinality(combo) <= MaxMembers
    /\ \A iv \in combo : valid_intervention(iv) /\ ~Unknown(b, iv, p)

Ceiling(b, p) == b.annual_kwh * p.cap_total_saving_frac * (KU \div One)

LEMMA CeilingType ==
    ASSUME NEW b, NEW p, valid_building(b), valid_params(p)
    PROVE  Ceiling(b, p) \in Nat
<1>1. b.annual_kwh \in Nat /\ p.cap_total_saving_frac \in 1 .. One /\ One \in Nat
  BY UnitsAssumption DEF valid_building, valid_params, Positive
<1>2. KU \div One \in Nat
  BY UnitsArePositive
<1>3. \A u, v, w \in Nat : u * v * w \in Nat
  OBVIOUS
<1> QED
  BY <1>1, <1>2, <1>3 DEF Ceiling

\* A single row is a bundle of its own.
LEMMA AloneIsCeiled ==
    ASSUME NEW b, NEW p, NEW iv,
           saving_of_end_use(b, iv.end_use, {iv}, p) \in Int
    PROVE  bundle_saving_kwh(b, {iv}, p)
               = smaller(saving_of_end_use(b, iv.end_use, {iv}, p), Ceiling(b, p))
<1> DEFINE raw == [use \in {iv.end_use} |->
                     saving_of_end_use(b, use, { v \in {iv} : v.end_use = use }, p)]
<1>1. { v.end_use : v \in {iv} } = {iv.end_use}
  OBVIOUS
<1>2. { v \in {iv} : v.end_use = iv.end_use } = {iv}
  OBVIOUS
<1>3. raw[iv.end_use] = saving_of_end_use(b, iv.end_use, {iv}, p)
  BY <1>2
<1>4. Sum(raw, {iv.end_use}) = saving_of_end_use(b, iv.end_use, {iv}, p)
  <2> HIDE DEF raw
  <2> QED
    BY <1>3, SumOfOne
<1>5. bundle_saving_kwh(b, {iv}, p) = smaller(Sum(raw, {iv.end_use}), Ceiling(b, p))
  BY <1>1 DEF bundle_saving_kwh, Total, SumFunction, Sum, Ceiling
<1> QED
  BY <1>4, <1>5

\* What BundlesHonest asks of one bundle; a bundle never saves more than the ceiling.
LEMMA BundleCombines ==
    ASSUME NEW b, NEW p, NEW combo, Bundle(b, combo, p),
           NEW alone, \A iv \in combo : alone[iv] = bundle_saving_kwh(b, {iv}, p)
    PROVE  LET s == bundle_saving_kwh(b, combo, p)
           IN  /\ s \in Int /\ s <= Ceiling(b, p)
               /\ \A iv \in combo : alone[iv] \in Int
               /\ (\A iv \in combo : alone[iv] >= 0) =>
                     /\ \A iv \in combo : alone[iv] <= s
                     /\ s <= Sum(alone, combo)
                     /\ (\E iv, jv \in combo :
                            /\ iv # jv /\ iv.end_use = jv.end_use /\ iv.end_use # "generation"
                            /\ alone[iv] > 0 /\ alone[jv] > 0)
                        => s < Sum(alone, combo)
<1> DEFINE uses     == { iv.end_use : iv \in combo }
           group(u) == { iv \in combo : iv.end_use = u }
           one      == [iv \in combo |-> saving_of_end_use(b, iv.end_use, {iv}, p)]
           raw      == [u \in uses |-> saving_of_end_use(b, u, group(u), p)]
           class    == [iv \in combo |-> iv.end_use]
           h        == [u \in uses |-> Sum(one, group(u))]
<1>0. PICK M \in Nat : M = Ceiling(b, p)
  BY CeilingType DEF Bundle
<1>f. IsFiniteSet(combo) /\ IsFiniteSet(uses)
  <2>1. class \in Surjection(combo, uses)
    BY DEF Surjection
  <2>2. IsFiniteSet(combo)
    BY DEF Bundle
  <2> HIDE DEF class, uses
  <2> QED
    BY <2>1, <2>2, FS_Surjection
<1>1. ASSUME NEW u \in uses
      PROVE  /\ raw[u] \in Int /\ raw[u] <= h[u] /\ h[u] = Sum(one, group(u))
             /\ \A iv \in group(u) : one[iv] \in Int
             /\ (\A iv \in group(u) : one[iv] >= 0) =>
                    raw[u] >= 0 /\ \A iv \in group(u) : one[iv] <= raw[u]
             /\ u # "generation" => \A iv, jv \in group(u) :
                    iv # jv /\ one[iv] > 0 /\ one[jv] > 0 => raw[u] < h[u]
  <2>1. IsFiniteSet(group(u)) /\ group(u) # {} /\ Cardinality(group(u)) <= MaxMembers
    <3>1. group(u) \subseteq combo /\ group(u) # {}
      OBVIOUS
    <3>2. /\ IsFiniteSet(group(u)) /\ Cardinality(group(u)) <= Cardinality(combo)
          /\ Cardinality(group(u)) \in Nat /\ Cardinality(combo) \in Nat
      BY <1>f, <3>1, FS_Subset, FS_CardinalityType
    <3>3. Cardinality(combo) <= MaxMembers /\ MaxMembers \in Nat
      BY UnitsAssumption DEF Bundle
    <3> QED
      BY <3>1, <3>2, <3>3
  <2>2. \A iv \in group(u) : valid_intervention(iv) /\ iv.end_use = u /\ ~Unknown(b, iv, p)
    BY DEF Bundle
  <2>3. \A iv \in group(u) : one[iv] = saving_of_end_use(b, u, {iv}, p)
    OBVIOUS
  <2>4. raw[u] = saving_of_end_use(b, u, group(u), p) /\ h[u] = Sum(one, group(u))
    OBVIOUS
  <2>5. valid_building(b) /\ valid_params(p)
    BY DEF Bundle
  <2> HIDE DEF group, one, raw, h
  <2>6. PICK g, o : g = group(u) /\ o = one
    OBVIOUS
  <2>7. LET s == saving_of_end_use(b, u, g, p)
        IN  /\ s \in Int /\ s <= Sum(o, g)
            /\ \A iv \in g : o[iv] \in Int
            /\ (\A iv \in g : o[iv] >= 0) => s >= 0 /\ \A iv \in g : o[iv] <= s
            /\ u # "generation" => \A iv, jv \in g :
                   iv # jv /\ o[iv] > 0 /\ o[jv] > 0 => s < Sum(o, g)
    <3>1. IsFiniteSet(g) /\ g # {} /\ Cardinality(g) <= MaxMembers
      BY <2>1, <2>6
    <3>2. \A iv \in g : valid_intervention(iv) /\ iv.end_use = u /\ ~Unknown(b, iv, p)
      BY <2>2, <2>6
    <3>3. \A iv \in g : o[iv] = saving_of_end_use(b, u, {iv}, p)
      BY <2>3, <2>6
    <3> QED
      BY <2>5, <3>1, <3>2, <3>3, EndUseCombines
  <2> QED
    BY <2>4, <2>6, <2>7
<1>2. ASSUME NEW iv \in combo
      PROVE  /\ one[iv] \in Int /\ alone[iv] \in Int /\ alone[iv] = smaller(one[iv], M)
             /\ iv.end_use \in uses /\ iv \in group(iv.end_use)
  <2>1. iv.end_use \in uses /\ iv \in group(iv.end_use)
    OBVIOUS
  <2>2. one[iv] \in Int
    BY <1>1, <2>1
  <2>3. one[iv] = saving_of_end_use(b, iv.end_use, {iv}, p)
    OBVIOUS
  <2>4. alone[iv] = smaller(one[iv], M)
    <3> HIDE DEF one
    <3> QED
      BY <1>0, <2>2, <2>3, AloneIsCeiled
  <2>5. alone[iv] \in Int
    <3> HIDE DEF one
    <3> QED
      BY <2>2, <2>4 DEF smaller
  <2> QED
    BY <2>1, <2>2, <2>4, <2>5
<1>3. PICK t \in Int : t = Sum(raw, uses)
  <2>1. \A u \in uses : raw[u] \in Int
    BY <1>1
  <2> HIDE DEF raw, uses
  <2> QED
    BY <1>f, <2>1, SumType
<1>4. bundle_saving_kwh(b, combo, p) = smaller(t, M)
  BY <1>0, <1>3 DEF bundle_saving_kwh, Total, SumFunction, Sum, Ceiling
<1>5. Sum(h, uses) = Sum(one, combo)
  <2>1. PICK part : part = [u \in uses |-> group(u)]
    OBVIOUS
  <2>2. \A u \in uses : part[u] = group(u)
    BY <2>1
  <2>3. \A u \in uses : h[u] = Sum(one, part[u])
    BY <1>1, <2>2
  <2>4. \A u \in uses : part[u] \subseteq combo
    BY <2>2
  <2>5. \A u \in uses, iv \in combo : iv \in part[u] <=> class[iv] = u
    BY <2>2
  <2>6. \A iv \in combo : class[iv] \in uses /\ one[iv] \in Int
    BY <1>2
  <2> HIDE DEF uses, one, class, h
  <2> QED
    BY <1>f, <2>3, <2>4, <2>5, <2>6, SumByClass
<1>h. \A u \in uses : h[u] \in Int
  <2>1. ASSUME NEW u \in uses PROVE Sum(one, group(u)) \in Int
    <3>1. IsFiniteSet(group(u)) /\ \A iv \in group(u) : one[iv] \in Int
      BY <1>1, <1>f, FS_Subset
    <3> HIDE DEF one, group
    <3> QED
      BY <3>1, SumType
  <2> QED
    BY <2>1
<1>6. t <= Sum(one, combo)
  <2>1. \A u \in uses : raw[u] \in Int /\ h[u] \in Int /\ raw[u] <= h[u]
    BY <1>1, <1>h
  <2> HIDE DEF raw, h, uses, one
  <2> QED
    BY <1>f, <1>3, <1>5, <2>1, SumMonotone
<1>7. ASSUME \A iv \in combo : alone[iv] >= 0
      PROVE  /\ \A iv \in combo : alone[iv] <= smaller(t, M)
             /\ smaller(t, M) <= Sum(alone, combo)
             /\ \A iv, jv \in combo :
                    /\ iv # jv /\ iv.end_use = jv.end_use /\ iv.end_use # "generation"
                    /\ alone[iv] > 0 /\ alone[jv] > 0
                    => smaller(t, M) < Sum(alone, combo)
  <2>1. \A iv \in combo : one[iv] \in Nat
    <3> HIDE DEF one
    <3> QED
      BY <1>0, <1>2, <1>7 DEF smaller
  <2>2. \A iv \in combo : one[iv] <= t
    <3>1. ASSUME NEW u \in uses PROVE raw[u] \in Nat
      <4> HIDE DEF one, raw, h, uses
      <4>1. \A iv \in group(u) : one[iv] >= 0
        BY <2>1
      <4>2. raw[u] \in Int /\ raw[u] >= 0
        BY <1>1, <4>1
      <4> QED
        BY <4>2
    <3>2. \A u \in uses : raw[u] <= t
      <4> HIDE DEF raw, uses
      <4> QED
        BY <1>f, <1>3, <3>1, SumOfNaturals
    <3>3. ASSUME NEW iv \in combo PROVE one[iv] <= t
      <4>1. PICK u \in uses : iv \in group(u)
        BY <1>2
      <4>2. \A jv \in group(u) : one[jv] >= 0
        <5> HIDE DEF one
        <5> QED
          BY <2>1
      <4>3. one[iv] <= raw[u]
        BY <1>1, <4>1, <4>2
      <4>4. one[iv] \in Int /\ raw[u] \in Int /\ raw[u] <= t
        BY <1>1, <1>2, <3>2
      <4> HIDE DEF one, raw
      <4> QED
        BY <4>3, <4>4
    <3> QED
      BY <3>3
  <2>3. \A iv \in combo : alone[iv] <= smaller(t, M)
    <3> HIDE DEF one
    <3> QED
      BY <1>0, <1>2, <2>2 DEF smaller
  <2>4. /\ smaller(t, M) <= Sum(alone, combo)
        /\ \A iv, jv \in combo :
               iv # jv /\ alone[iv] > 0 /\ alone[jv] > 0 /\ t < Sum(one, combo)
               => smaller(t, M) < Sum(alone, combo)
    <3>1. \A iv \in combo : alone[iv] = smaller(one[iv], M)
      BY <1>2
    <3> HIDE DEF one
    <3> QED
      BY <1>f, <1>6, <2>1, <2>2, <3>1, CeilingCombines
  <2>5. ASSUME NEW iv \in combo, NEW jv \in combo,
               iv # jv, iv.end_use = jv.end_use, iv.end_use # "generation",
               alone[iv] > 0, alone[jv] > 0
        PROVE  t < Sum(one, combo)
    <3>1. PICK u \in uses : u = iv.end_use /\ iv \in group(u) /\ jv \in group(u)
      BY <1>2, <2>5
    <3>2. one[iv] > 0 /\ one[jv] > 0
      <4> HIDE DEF one
      <4> QED
        BY <1>0, <1>2, <2>1, <2>5 DEF smaller
    <3>3. raw[u] < h[u]
      BY <1>1, <2>5, <3>1, <3>2
    <3>4. \A v \in uses : raw[v] \in Int /\ h[v] \in Int /\ raw[v] <= h[v]
      BY <1>1, <1>h
    <3> HIDE DEF raw, h, uses, one
    <3> QED
      BY <1>f, <1>3, <1>5, <3>3, <3>4, SumStrict
  <2> HIDE DEF one
  <2> QED
    BY <2>3, <2>4, <2>5
<1>8. smaller(t, M) \in Int /\ smaller(t, M) <= M
  BY DEF smaller
<1> HIDE DEF one, raw, h, uses, class, group
<1> QED
  BY <1>0, <1>2, <1>4, <1>7, <1>8

----------------------------------------------------------------------------
(* What a bundle costs and is worth comes out whole: lifecycle.py *)

LEMMA ContractFigures ==
    ASSUME NEW p, valid_params(p)
    PROVE  /\ p.horizon_yr \in Positive /\ p.grid_emission_factor \in Positive
           /\ p.electricity_tariff_egp_per_kwh \in Positive
           /\ p.horizon_yr \in Int /\ p.grid_emission_factor \in Int
           /\ p.electricity_tariff_egp_per_kwh \in Int
           /\ One \in Int /\ LifeUnit \in Positive /\ LifeUnit \in Int
           /\ p.discount_rate \in Nat /\ One + p.discount_rate \in Positive
<1>1. /\ p.horizon_yr \in Positive /\ p.grid_emission_factor \in Positive
      /\ p.electricity_tariff_egp_per_kwh \in Positive
  BY DEF valid_params
<1>2. One \in Nat /\ One > 0 /\ LifeUnit \in Nat /\ LifeUnit > 0
  BY UnitsAssumption
<1>3. p.discount_rate \in 0 .. (One - 1)
  BY DEF valid_params
<1>4. One + p.discount_rate \in Positive /\ p.discount_rate \in Nat
  BY <1>2, <1>3 DEF Positive
<1> QED
  BY <1>1, <1>2, <1>4 DEF Positive

LEMMA DiscountedIsWhole ==
    ASSUME NEW p, valid_params(p), NEW t \in Int
    PROVE  Discounted(t, p) \in Int
<1>1. One \in Int /\ One + p.discount_rate \in Int /\ p.horizon_yr - 1 - t \in Int
  BY ContractFigures DEF Positive
<1>2. power(One, t) \in Int /\ power(One + p.discount_rate, p.horizon_yr - 1 - t) \in Int
  BY <1>1, PowerType
<1> QED
  BY <1>2 DEF Discounted

LEMMA WorthUnit == \A p : valid_params(p) => VU(p) \in Positive
<1> SUFFICES ASSUME NEW p, valid_params(p) PROVE VU(p) \in Positive
  OBVIOUS
<1>1. One + p.discount_rate \in Positive /\ p.horizon_yr - 1 \in Int /\ LifeUnit \in Positive
  BY ContractFigures
<1>2. power(One + p.discount_rate, p.horizon_yr - 1) \in Positive
  BY <1>1, PowerPositive
<1>3. \A u, v, w \in Positive : u * v * w \in Positive
  BY DEF Positive
<1> QED
  BY <1>1, <1>2, <1>3, UnitsArePositive DEF VU

LEMMA AnnuityIsWhole == \A p : valid_params(p) => annuity_factor(p) \in Int
<1> SUFFICES ASSUME NEW p, valid_params(p) PROVE annuity_factor(p) \in Int
  OBVIOUS
<1> DEFINE S == 0 .. (p.horizon_yr - 1)
           f == [t \in S |-> Discounted(t, p)]
<1>1. IsFiniteSet(S)
  <2>1. p.horizon_yr - 1 \in Int
    BY DEF valid_params, Positive
  <2> QED
    BY <2>1, FS_Interval
<1>2. \A t \in S : f[t] \in Int
  BY DiscountedIsWhole
<1>3. annuity_factor(p) = Sum(f, S)
  BY DEF annuity_factor, Total, SumFunction, Sum
<1> HIDE DEF f, S
<1> QED
  BY <1>1, <1>2, <1>3, SumType

LEMMA EmbodiedIsWhole ==
    ASSUME NEW p, valid_params(p), NEW once \in Int, NEW life \in Positive
    PROVE  discounted_embodied(once, life, p) \in Int
<1>0. p.horizon_yr \in Int /\ life \in Int /\ life > 0 /\ LifeUnit \in Int
  BY ContractFigures DEF Positive
<1>1. PICK full \in Int : full = p.horizon_yr \div life
  BY <1>0
<1> DEFINE S == 0 .. (full - 1)
           f == [j \in S |-> Discounted(j * life, p)]
<1>2. IsFiniteSet(S)
  BY FS_Interval
<1>3. \A j \in S : f[j] \in Int
  <2>1. \A j \in S : j * life \in Int
    BY <1>0
  <2> QED
    BY <2>1, DiscountedIsWhole
<1>4. PICK total \in Int : total = Sum(f, S)
  <2> HIDE DEF f, S
  <2> QED
    BY <1>2, <1>3, SumType
<1>5. PICK rest \in Int : rest = p.horizon_yr % life
  BY <1>0
<1>6. PICK last \in Int : last = (rest * (LifeUnit \div life)) * Discounted(full * life, p)
  <2>1. full * life \in Int
    BY <1>0
  <2>2. Discounted(full * life, p) \in Int /\ LifeUnit \div life \in Int
    BY <1>0, <2>1, DiscountedIsWhole
  <2> QED
    BY <2>2
<1>7. discounted_embodied(once, life, p)
        = once * (LifeUnit * total + IF rest = 0 THEN 0 ELSE last)
  BY <1>1, <1>4, <1>5, <1>6 DEF discounted_embodied, Total, SumFunction, Sum
<1>8. LifeUnit * total + (IF rest = 0 THEN 0 ELSE last) \in Int
  BY <1>0
<1> QED
  BY <1>7, <1>8

LEMMA PricesAreWhole ==
    ASSUME NEW b, NEW p, valid_building(b), valid_params(p)
    PROVE  /\ \A basis \in Basis \cup {"per_kwp"} : dimension(b, basis, p) \in Int
           /\ \A iv : valid_intervention(iv) =>
                  upfront_cost_egp(b, iv, p) \in Int /\ embodied_once_kgco2e(b, iv, p) \in Int
<1>1. EU \in Int /\ solar_kwp(b, p) \in Int
  BY SolarIsWhole, UnitsArePositive DEF Positive
<1>2. b.floor_area_m2 \in Int /\ b.roof_area_m2 \in Int /\ b.glazing_area_m2 \in Int
  BY DEF valid_building, Positive
<1>3. \A basis \in Basis \cup {"per_kwp"} : dimension(b, basis, p) \in Int
  <2>1. \A u \in Int : u * EU \in Int
    BY <1>1
  <2> QED
    BY <1>1, <1>2, <2>1 DEF dimension, Basis
<1>4. ASSUME NEW iv, valid_intervention(iv)
      PROVE  upfront_cost_egp(b, iv, p) \in Int /\ embodied_once_kgco2e(b, iv, p) \in Int
  <2>1. iv.cost_value \in Int /\ iv.embodied_value \in Int
    BY <1>4 DEF valid_intervention
  <2>2. p.solar_fixed_egp * EU + p.solar_egp_per_kwp * solar_kwp(b, p) \in Int
    <3>1. p.solar_fixed_egp \in Int /\ p.solar_egp_per_kwp \in Int
      BY DEF valid_params, Positive
    <3> QED
      BY <1>1, <3>1
  <2>3. iv.cost_type # "solar" => iv.cost_value * dimension(b, iv.cost_type, p) \in Int
    <3> SUFFICES ASSUME iv.cost_type # "solar"
                 PROVE  iv.cost_value * dimension(b, iv.cost_type, p) \in Int
      OBVIOUS
    <3>1. dimension(b, iv.cost_type, p) \in Int
      BY <1>3, <1>4 DEF valid_intervention
    <3> QED
      BY <2>1, <3>1
  <2>4. iv.embodied_value * dimension(b, iv.embodied_type, p) \in Int
    <3>1. dimension(b, iv.embodied_type, p) \in Int
      BY <1>3, <1>4 DEF valid_intervention
    <3> QED
      BY <2>1, <3>1
  <2> QED
    BY <2>2, <2>3, <2>4 DEF upfront_cost_egp, embodied_once_kgco2e
<1> QED
  BY <1>3, <1>4

LEMMA GridFactorIsWhole ==
    ASSUME NEW b, NEW p, valid_building(b), valid_params(p)
    PROVE  effective_grid_factor(b, p) \in Int
<1> DEFINE hours == 1 .. HOURS_PER_DAY
           used  == [h \in hours |-> b.hourly_shape[h]]
           emits == [h \in hours |-> b.hourly_shape[h] * p.tou[h]]
<1>1. IsFiniteSet(hours) /\ 1 \in hours
  BY UnitsAssumption, FS_Interval
<1>2. DOMAIN b.hourly_shape = hours /\ \A h \in hours : b.hourly_shape[h] \in Positive
  BY DEF valid_building
<1>3. CASE p.tou = <<>>
  <2>1. effective_grid_factor(b, p) = p.grid_emission_factor
    BY <1>3 DEF effective_grid_factor
  <2> QED
    BY <2>1, ContractFigures
<1>4. CASE p.tou # <<>>
  <2>1. \A h \in hours : p.tou[h] \in Positive
    BY <1>4 DEF valid_params
  <2>2. \A h \in hours : used[h] \in Nat /\ used[h] > 0 /\ emits[h] \in Int
    <3>1. \A u, v \in Positive : u \in Nat /\ u > 0 /\ u * v \in Int
      BY DEF Positive
    <3> QED
      BY <1>2, <2>1, <3>1
  <2>3. effective_grid_factor(b, p) = Sum(emits, hours) \div Sum(used, hours)
    BY <1>2, <1>4 DEF effective_grid_factor, Total, SumFunction, Sum
  <2> HIDE DEF used, emits, hours
  <2>4. Sum(used, hours) \in Nat /\ Sum(used, hours) > 0 /\ Sum(emits, hours) \in Int
    <3>1. Sum(used, hours) \in Nat /\ used[1] <= Sum(used, hours) /\ used[1] > 0 /\ used[1] \in Nat
      BY <1>1, <2>2, SumOfNaturals
    <3>2. Sum(emits, hours) \in Int
      BY <1>1, <2>2, SumType
    <3> QED
      BY <3>1, <3>2
  <2> QED
    BY <2>3, <2>4
<1> QED
  BY <1>3, <1>4

\* Every figure of an option.
LEMMA OptionIsWhole ==
    ASSUME NEW b, NEW p, NEW combo, Bundle(b, combo, p)
    PROVE  LET c == CandidateOf(b, combo, p)
           IN  /\ c.cost_egp \in Int /\ c.annual_kwh_saving \in Int /\ c.annual_egp_saving \in Int
               /\ c.lifetime_benefit_kgco2e \in Int /\ c.lifetime_tou_benefit_kgco2e \in Int
<1>0. valid_building(b) /\ valid_params(p) /\ IsFiniteSet(combo)
  BY DEF Bundle
<1>1. PICK kwh \in Int : kwh = bundle_saving_kwh(b, combo, p)
  <2>1. PICK alone : \A iv \in combo : alone[iv] = bundle_saving_kwh(b, {iv}, p)
    <3>1. \A iv \in combo : [v \in combo |-> bundle_saving_kwh(b, {v}, p)][iv]
                              = bundle_saving_kwh(b, {iv}, p)
      OBVIOUS
    <3> QED
      BY <3>1
  <2>2. bundle_saving_kwh(b, combo, p) \in Int
    BY <2>1, BundleCombines
  <2> QED
    BY <2>2
<1>2. bundle_cost_egp(b, combo, p) \in Int
  <2> DEFINE f == [iv \in combo |-> upfront_cost_egp(b, iv, p)]
  <2>1. bundle_cost_egp(b, combo, p) = Sum(f, combo)
    BY DEF bundle_cost_egp, Total, SumFunction, Sum
  <2>2. \A iv \in combo : f[iv] \in Int
    BY <1>0, PricesAreWhole DEF Bundle
  <2> HIDE DEF f
  <2> QED
    BY <1>0, <2>1, <2>2, SumType
<1>3. PICK e \in Int : e = embodied_kgco2e(b, combo, p)
  <2> DEFINE f == [iv \in combo |-> discounted_embodied(embodied_once_kgco2e(b, iv, p),
                                                        iv.service_life_yr, p)]
  <2>1. embodied_kgco2e(b, combo, p) = (KU \div EU) * Sum(f, combo)
    BY DEF embodied_kgco2e, Total, SumFunction, Sum
  <2>2. ASSUME NEW iv \in combo PROVE f[iv] \in Int
    <3>1. valid_intervention(iv)
      BY DEF Bundle
    <3>2. iv.service_life_yr \in Positive /\ embodied_once_kgco2e(b, iv, p) \in Int
      BY <1>0, <3>1, PricesAreWhole DEF valid_intervention
    <3> QED
      BY <1>0, <3>2, EmbodiedIsWhole
  <2> HIDE DEF f
  <2>3. Sum(f, combo) \in Int /\ KU \div EU \in Int
    BY <1>0, <2>2, SumType, UnitsArePositive
  <2> QED
    BY <2>1, <2>3
<1>4. /\ annuity_factor(p) \in Int /\ LifeUnit \in Int /\ effective_grid_factor(b, p) \in Int
      /\ p.grid_emission_factor \in Int /\ p.electricity_tariff_egp_per_kwh \in Int
  BY <1>0, AnnuityIsWhole, GridFactorIsWhole, ContractFigures
<1>5. \A u, v, w \in Int : kwh * u * v * w - e \in Int /\ kwh * u \in Int
  OBVIOUS
<1>6. lifetime_benefit_kgco2e(kwh, b, combo, p) \in Int
  BY <1>3, <1>4, <1>5 DEF lifetime_benefit_kgco2e
<1>7. lifetime_tou_benefit_kgco2e(kwh, b, combo, p) \in Int
  BY <1>3, <1>4, <1>5 DEF lifetime_tou_benefit_kgco2e
<1>8. annual_egp_saving(kwh, p) \in Int
  BY <1>4, <1>5 DEF annual_egp_saving
<1> QED
  BY <1>1, <1>2, <1>6, <1>7, <1>8 DEF CandidateOf

----------------------------------------------------------------------------
(* The planner: what an expansion that does not fail hands to the solvers *)

Contract  == scene \in Scenes /\ request \in
                 [solver : SOLVERS, objective : OBJECTIVES, budget : Budgets, cap : Caps]
Expansion == expand_portfolio(scene.buildings, scene.catalog, scene.params)
Expands   == ~Raises(scene.buildings, scene.catalog, scene.params)

\* Everything the solvers ask of an option.
IsOption(c) ==
    /\ c # None
    /\ c.building_id \in Ids /\ c.district \in Districts
    /\ \A b \in scene.buildings : b.id = c.building_id => b.district = c.district
    /\ c.cost_egp \in Int /\ c.cost_egp > 0
    /\ objective_fn(c) \in Int

\* What is combined at a building is a bundle, unless the contract has nothing for a row.
LEMMA CombinationsAreBundles ==
    ASSUME Contract, NEW b \in scene.buildings,
           NEW combo \in combinations(b, scene.catalog, scene.params),
           \A iv \in combo : ~Unknown(b, iv, scene.params)
    PROVE  combo \subseteq scene.catalog /\ Bundle(b, combo, scene.params)
<1>1. /\ valid_building(b) /\ valid_params(scene.params) /\ IsFiniteSet(scene.catalog)
      /\ \A iv \in scene.catalog : valid_intervention(iv)
  BY ScenesAssumption DEF Contract, valid_catalog
<1>2. combo \subseteq scene.catalog /\ Cardinality(combo) \in 1 .. scene.params.max_bundle_size
  BY DEF combinations, applicable_interventions
<1>3. IsFiniteSet(combo)
  BY <1>1, <1>2, FS_Subset
<1>4. combo # {} /\ Cardinality(combo) <= MaxMembers
  <2>1. scene.params.max_bundle_size \in 1 .. MaxMembers /\ MaxMembers \in Nat
    BY <1>1, UnitsAssumption DEF valid_params
  <2>2. Cardinality(combo) # 0 /\ Cardinality(combo) \in Nat
    BY <1>2, <1>3, FS_CardinalityType
  <2> QED
    BY <1>2, <2>1, <2>2, FS_EmptySet
<1> QED
  BY <1>1, <1>2, <1>3, <1>4 DEF Bundle

\* Every option comes from a bundle.
LEMMA OptionsAreBundles ==
    ASSUME Contract, Expands, NEW c \in Expansion
    PROVE  \E b \in scene.buildings : \E combo \in SUBSET scene.catalog :
               /\ Bundle(b, combo, scene.params)
               /\ c = CandidateOf(b, combo, scene.params)
<1>1. PICK b \in scene.buildings : c \in expand_building(b, scene.catalog, scene.params)
  BY DEF Expansion, expand_portfolio
<1>2. PICK combo \in combinations(b, scene.catalog, scene.params) :
          c = CandidateOf(b, combo, scene.params)
  BY <1>1 DEF expand_building
<1>3. \A iv \in combo : ~Unknown(b, iv, scene.params)
  BY DEF Expands, Raises
<1>4. combo \subseteq scene.catalog /\ Bundle(b, combo, scene.params)
  BY <1>3, CombinationsAreBundles
<1> QED
  BY <1>2, <1>4

LEMMA FiguresAreWhole ==
    ASSUME Contract, Expands
    PROVE  \A c \in Expansion :
               /\ c.cost_egp \in Int /\ c.annual_kwh_saving \in Int /\ c.annual_egp_saving \in Int
               /\ c.lifetime_benefit_kgco2e \in Int /\ c.lifetime_tou_benefit_kgco2e \in Int
BY OptionsAreBundles, OptionIsWhole

LEMMA ExpansionYieldsOptions ==
    ASSUME Contract, Expands
    PROVE  \A c \in Expansion : IsOption(c)
<1> SUFFICES ASSUME NEW c \in Expansion PROVE IsOption(c)
  OBVIOUS
<1>1. PICK b \in scene.buildings : c \in expand_building(b, scene.catalog, scene.params)
  BY DEF Expansion, expand_portfolio
<1>2. PICK combo : c = CandidateOf(b, combo, scene.params) /\ c.cost_egp > 0
  BY <1>1 DEF expand_building
<1>3. c.building_id = b.id /\ c.district = b.district
  BY <1>2 DEF CandidateOf
<1>4. c # None
  <2>1. DOMAIN c # DOMAIN None
    <3>1. "district" \in DOMAIN c
      BY <1>2 DEF CandidateOf
    <3>2. "district" \notin DOMAIN None
      BY DEF None
    <3> QED
      BY <3>1, <3>2
  <2> QED
    BY <2>1
<1>5. \A d \in scene.buildings : d.id = b.id => d = b
  BY ScenesAssumption DEF Contract
<1>6. /\ c.cost_egp \in Int /\ c.annual_kwh_saving \in Int /\ c.annual_egp_saving \in Int
      /\ c.lifetime_benefit_kgco2e \in Int /\ c.lifetime_tou_benefit_kgco2e \in Int
  BY FiguresAreWhole
<1>7. request.objective \in OBJECTIVES
  BY DEF Contract
<1>8. objective_fn(c) \in Int
  BY <1>6, <1>7 DEF objective_fn, OBJECTIVES
<1> QED
  BY <1>2, <1>3, <1>4, <1>5, <1>6, <1>8 DEF IsOption, Ids, Districts

LEMMA IdsAreFinite == Contract => IsFiniteSet(Ids)
<1> SUFFICES ASSUME Contract PROVE IsFiniteSet(Ids)
  OBVIOUS
<1> DEFINE f == [b \in scene.buildings |-> b.id]
<1>1. f \in Surjection(scene.buildings, Ids)
  BY DEF Ids, Surjection
<1>2. IsFiniteSet(scene.buildings)
  BY ScenesAssumption DEF Contract
<1> QED
  BY <1>1, <1>2, FS_Surjection

LEMMA ExpansionIsFinite == Contract => IsFiniteSet(Expansion)
<1> SUFFICES ASSUME Contract PROVE IsFiniteSet(Expansion)
  OBVIOUS
<1>1. IsFiniteSet(scene.buildings) /\ IsFiniteSet(scene.catalog)
  BY ScenesAssumption DEF Contract
<1> DEFINE Of1(b) == expand_building(b, scene.catalog, scene.params)
           All    == { Of1(b) : b \in scene.buildings }
<1>2. ASSUME NEW b \in scene.buildings PROVE IsFiniteSet(Of1(b))
  <2> DEFINE C == combinations(b, scene.catalog, scene.params)
             f == [combo \in C |-> CandidateOf(b, combo, scene.params)]
             T == { CandidateOf(b, combo, scene.params) : combo \in C }
  <2>1. C \in SUBSET SUBSET scene.catalog
    BY DEF combinations, applicable_interventions
  <2>2. IsFiniteSet(C)
    BY <2>1, <1>1, FS_SUBSET, FS_Subset
  <2>3. f \in Surjection(C, T)
    BY DEF Surjection
  <2>4. IsFiniteSet(T)
    BY <2>2, <2>3, FS_Surjection
  <2>5. Of1(b) \in SUBSET T
    BY DEF expand_building
  <2> QED
    BY <2>4, <2>5, FS_Subset
<1>3. IsFiniteSet(All)
  <2> DEFINE f == [b \in scene.buildings |-> Of1(b)]
  <2>1. f \in Surjection(scene.buildings, All)
    BY DEF Surjection
  <2> HIDE DEF f, All
  <2> QED
    BY <2>1, <1>1, FS_Surjection
<1>4. IsFiniteSet(UNION All)
  BY <1>2, <1>3, FS_UNION
<1> QED
  BY <1>4 DEF Expansion, expand_portfolio


----------------------------------------------------------------------------
(* Allocations: what one move changes *)

Bill(ids, s)       == [i \in ids |-> IF s[i] = None THEN 0 ELSE s[i].cost_egp]
Spots(ids, s, d)   == { i \in ids : s[i] # None /\ s[i].district = d }
Spared(s, id)      == IF s[id] = None THEN 0 ELSE s[id].cost_egp
Move(s, c)         == [s EXCEPT ![c.building_id] = c]

LEMMA CostIsSum == \A s : Cost(s) = Sum(Bill(Ids, s), Ids)
BY DEF Cost, Over, Bill, Sum, SumFunction

LEMMA BillType ==
    ASSUME Contract, Expands, NEW s \in Selections(Expansion)
    PROVE  /\ \A i \in Ids : Bill(Ids, s)[i] \in Int /\ Bill(Ids, s)[i] >= 0
           /\ Cost(s) \in Int
<1>1. \A i \in Ids : Bill(Ids, s)[i] \in Int /\ Bill(Ids, s)[i] >= 0
  BY ExpansionYieldsOptions DEF Selections, Bill, IsOption
<1>2. Sum(Bill(Ids, s), Ids) \in Int
  BY <1>1, IdsAreFinite, SumType
<1> QED
  BY <1>1, <1>2, CostIsSum

LEMMA NothingIsSelection ==
    ASSUME Contract, Expands
    PROVE  /\ Nothing \in Selections(Expansion) /\ Cost(Nothing) = 0
           /\ \A d : Funded(Nothing, d) = 0 /\ Picks(Nothing) = {}
<1>1. Nothing \in Selections(Expansion)
  BY DEF Selections, Nothing
<1>2. \A i \in Ids : Bill(Ids, Nothing)[i] = 0
  BY DEF Bill, Nothing
<1>3. Cost(Nothing) = 0
  BY <1>2, CostIsSum, IdsAreFinite, SumOfNothing
<1>4. ASSUME NEW d PROVE Funded(Nothing, d) = 0 /\ Picks(Nothing) = {}
  <2>1. { i \in Ids : Nothing[i] # None /\ Nothing[i].district = d } = {}
    BY DEF Nothing
  <2> QED
    BY <2>1, FS_EmptySet DEF Funded, Picks, Nothing
<1> QED
  BY <1>1, <1>3, <1>4

\* A move stays a selection and costs the difference.
LEMMA MoveCosts ==
    ASSUME Contract, Expands, NEW from \in SUBSET Expansion,
           NEW s \in Selections(from), NEW c \in from
    PROVE  /\ Move(s, c) \in Selections(from)
           /\ Cost(Move(s, c)) = Cost(s) + (c.cost_egp - Spared(s, c.building_id))
           /\ Picks(Move(s, c)) # {}
<1> DEFINE b == c.building_id
           t == Move(s, c)
<1>1. IsOption(c)
  BY ExpansionYieldsOptions
<1>2. b \in Ids /\ c # None
  BY <1>1 DEF IsOption
<1>3. t \in Selections(from)
  BY <1>2 DEF Move, Selections
<1>4. s \in Selections(Expansion) /\ t \in Selections(Expansion)
  BY <1>3 DEF Selections
<1>5. t[b] = c /\ \A i \in Ids \ {b} : t[i] = s[i]
  BY <1>2 DEF Move, Selections
<1> HIDE DEF t
<1>6. \A i \in Ids : Bill(Ids, s)[i] \in Int /\ Bill(Ids, t)[i] \in Int
  BY <1>4, BillType
<1>7. \A i \in Ids \ {b} : Bill(Ids, s)[i] = Bill(Ids, t)[i]
  BY <1>5 DEF Bill
<1>8. Sum(Bill(Ids, t), Ids)
          = Sum(Bill(Ids, s), Ids) + (Bill(Ids, t)[b] - Bill(Ids, s)[b])
  BY <1>2, <1>6, <1>7, IdsAreFinite, SumUpdates
<1>9. Bill(Ids, t)[b] = c.cost_egp /\ Bill(Ids, s)[b] = Spared(s, b)
  BY <1>2, <1>5 DEF Bill, Spared
<1>10. c \in Picks(t)
  BY <1>2, <1>5 DEF Picks
<1>11. Cost(t) = Cost(s) + (c.cost_egp - Spared(s, b))
  BY <1>8, <1>9, CostIsSum
<1> QED
  BY <1>3, <1>10, <1>11 DEF t

\* Room for one more is needed only where the building had nothing.
LEMMA MoveKeepsCap ==
    ASSUME Contract, Expands, NEW from \in SUBSET Expansion,
           NEW s \in Selections(from), NEW c \in from, WithinCap(s),
           s[c.building_id] = None /\ request.cap # NoCap
               => Funded(s, c.district) < request.cap
    PROVE  WithinCap(Move(s, c))
<1> DEFINE b == c.building_id
           t == Move(s, c)
<1>1. IsOption(c) /\ b \in Ids /\ c # None
  BY ExpansionYieldsOptions DEF IsOption
<1>2. t[b] = c /\ \A i \in Ids \ {b} : t[i] = s[i]
  BY <1>1 DEF Move, Selections
<1> HIDE DEF t
<1> SUFFICES ASSUME request.cap # NoCap, NEW d \in Districts PROVE Funded(t, d) <= request.cap
  BY DEF WithinCap, t
<1>3. Funded(s, d) <= request.cap
  BY DEF WithinCap
<1>4. request.cap \in Nat
  BY RequestAssumption DEF Contract
<1>5. /\ Funded(s, d) = Cardinality(Spots(Ids, s, d))
      /\ Funded(t, d) = Cardinality(Spots(Ids, t, d))
  BY DEF Funded, Spots
<1>6. IsFiniteSet(Spots(Ids, s, d)) /\ Cardinality(Spots(Ids, s, d)) \in Nat
  BY IdsAreFinite, FS_Subset, FS_CardinalityType DEF Spots
<1>7. CASE s[b] = None /\ c.district = d
  <2>1. Spots(Ids, t, d) = Spots(Ids, s, d) \cup {b} /\ b \notin Spots(Ids, s, d)
    BY <1>1, <1>2, <1>7 DEF Spots
  <2>2. Cardinality(Spots(Ids, t, d)) = Cardinality(Spots(Ids, s, d)) + 1
    BY <2>1, <1>6, FS_AddElement
  <2> QED
    BY <1>4, <1>5, <1>6, <1>7, <2>2
<1>8. CASE s[b] # None \/ c.district # d
  <2>1. s[b] # None => s[b].district = c.district
    <3> SUFFICES ASSUME s[b] # None PROVE s[b].district = c.district
      OBVIOUS
    <3>1. s[b] \in Expansion /\ s[b].building_id = b
      BY <1>1 DEF Selections
    <3>2. PICK site \in scene.buildings : site.id = b
      BY <1>1 DEF Ids
    <3>3. IsOption(s[b])
      BY <3>1, ExpansionYieldsOptions
    <3> QED
      BY <1>1, <3>1, <3>2, <3>3 DEF IsOption
  <2>2. ASSUME NEW i \in Spots(Ids, t, d) PROVE i \in Spots(Ids, s, d)
    BY <1>1, <1>2, <1>8, <2>1, <2>2 DEF Spots
  <2>3. Cardinality(Spots(Ids, t, d)) <= Cardinality(Spots(Ids, s, d))
         /\ Cardinality(Spots(Ids, t, d)) \in Nat
    BY <2>2, <1>6, FS_Subset, FS_CardinalityType
  <2> QED
    BY <1>3, <1>4, <1>5, <1>6, <2>3
<1> QED
  BY <1>7, <1>8


----------------------------------------------------------------------------
(* Rounding to whole units, and what it does to a bill *)

LEMMA Division ==
    ASSUME NEW n \in Int, NEW u \in Int, u > 0
    PROVE  n = u * (n \div u) + (n % u)
OBVIOUS

LEMMA DivisionFacts ==
    ASSUME NEW n \in Int, NEW u \in Nat \ {0}
    PROVE  /\ n \div u \in Int /\ n % u \in Int
           /\ n = u * (n \div u) + (n % u)
           /\ 0 <= n % u /\ n % u < u
<1>1. n \div u \in Int
  OBVIOUS
<1>2. n % u \in 0 .. (u - 1)
  OBVIOUS
<1>3. n = u * (n \div u) + (n % u)
  BY Division
<1> QED
  BY <1>1, <1>2, <1>3

LEMMA RoundedBounds ==
    ASSUME NEW n \in Int, NEW u \in Nat \ {0}
    PROVE  /\ rounded(n, u) \in Int
           /\ 2 * n <= 2 * (u * rounded(n, u)) + u
           /\ 2 * (u * rounded(n, u)) <= 2 * n + u
<1> DEFINE q == n \div u
           r == n % u
<1>1. q \in Int /\ r \in Int /\ n = u * q + r /\ 0 <= r /\ r < u
  BY DivisionFacts
<1>2. rounded(n, u) = IF 2 * r < u \/ (2 * r = u /\ q % 2 = 0) THEN q ELSE q + 1
  BY DEF rounded
<1> HIDE DEF q, r
<1>3. u * q \in Int /\ u * (q + 1) = u * q + u
  BY <1>1
<1>4. CASE rounded(n, u) = q /\ 2 * r <= u
  BY <1>1, <1>3, <1>4
<1>5. CASE rounded(n, u) = q + 1 /\ 2 * r >= u
  <2>1. 2 * (u * rounded(n, u)) = 2 * (u * q) + 2 * u
    BY <1>3, <1>5, <1>1
  <2> QED
    BY <1>1, <1>3, <1>5, <2>1
<1> QED
  BY <1>1, <1>2, <1>4, <1>5

LEMMA RoundedMonotone ==
    ASSUME NEW m \in Int, NEW n \in Int, m <= n, NEW u \in Nat \ {0}
    PROVE  rounded(m, u) <= rounded(n, u)
<1> DEFINE p == m \div u
           q == n \div u
           r == m % u
           t == n % u
<1>1. /\ p \in Int /\ r \in Int /\ m = u * p + r /\ 0 <= r /\ r < u
      /\ q \in Int /\ t \in Int /\ n = u * q + t /\ 0 <= t /\ t < u
  BY DivisionFacts
<1>2. /\ rounded(m, u) = IF 2 * r < u \/ (2 * r = u /\ p % 2 = 0) THEN p ELSE p + 1
      /\ rounded(n, u) = IF 2 * t < u \/ (2 * t = u /\ q % 2 = 0) THEN q ELSE q + 1
  BY DEF rounded
<1> HIDE DEF p, q, r, t
<1>3. p <= q
  <2> SUFFICES ASSUME q + 1 <= p PROVE FALSE
    BY <1>1
  <2>1. u * (q + 1) <= u * p /\ u * (q + 1) = u * q + u /\ u * q \in Int /\ u * p \in Int
    BY <1>1
  <2> QED
    BY <1>1, <2>1
<1>4. CASE p = q
  <2>1. r <= t
    BY <1>1, <1>4
  <2> QED
    BY <1>1, <1>2, <1>4, <2>1
<1>5. CASE p + 1 <= q
  BY <1>1, <1>2, <1>5
<1> QED
  BY <1>1, <1>3, <1>4, <1>5

WholeBill(ids, s) == [i \in ids |-> IF s[i] = None THEN 0 ELSE whole_cost(s[i])]

\* The exact solver sees whole EGP: half of one for every option, and for the budget.
LEMMA ProgrammeSpends ==
    ASSUME Contract, Expands, request.budget >= 0,
           NEW from \in SUBSET Expansion, NEW s \in Programme(from)
    PROVE  2 * Cost(s) <= 2 * request.budget
                + EU * (Cardinality({ i \in Ids : s[i] # None }) + 1)
<1> DEFINE F == { i \in Ids : s[i] # None }
           f == [i \in Ids |-> 2 * Bill(Ids, s)[i]]
           g == [i \in Ids |-> (2 * EU) * WholeBill(Ids, s)[i]]
<1>1. s \in Selections(Expansion) /\ Over(whole_cost, s) <= rounded(request.budget, EU)
  BY DEF Programme, Selections
<1>2. EU \in Nat \ {0}
  BY UnitsAssumption DEF EU
<1>3. request.budget \in Int
  BY RequestAssumption DEF Contract
<1>4. Over(whole_cost, s) = Sum(WholeBill(Ids, s), Ids)
  BY DEF Over, WholeBill, Sum, SumFunction
<1>5. \A i \in Ids : s[i] # None => s[i].cost_egp \in Int
  BY <1>1, ExpansionYieldsOptions DEF Selections, IsOption
<1>6. ASSUME NEW i \in Ids
      PROVE  /\ Bill(Ids, s)[i] \in Int /\ WholeBill(Ids, s)[i] \in Int
             /\ 2 * Bill(Ids, s)[i] <= (2 * EU) * WholeBill(Ids, s)[i] + IF i \in F THEN EU ELSE 0
  <2>1. CASE s[i] = None
    BY <1>2, <2>1 DEF Bill, WholeBill
  <2>2. CASE s[i] # None
    <3> DEFINE n == s[i].cost_egp
    <3>1. n \in Int
      BY <1>5, <2>2
    <3>2. /\ rounded(n, EU) \in Int
          /\ 2 * n <= 2 * (EU * rounded(n, EU)) + EU
      BY <1>2, <3>1, RoundedBounds
    <3>3. Bill(Ids, s)[i] = n /\ WholeBill(Ids, s)[i] = rounded(n, EU)
      BY <2>2 DEF Bill, WholeBill, whole_cost
    <3>4. (2 * EU) * rounded(n, EU) = 2 * (EU * rounded(n, EU))
      BY <1>2, <3>2
    <3>5. i \in F
      BY <2>2
    <3> QED
      BY <3>1, <3>2, <3>3, <3>4, <3>5
  <2> QED
    BY <2>1, <2>2
<1> HIDE DEF F
<1>7. \A i \in Ids : f[i] \in Int /\ g[i] \in Int
  BY <1>2, <1>6
<1>8. \A i \in Ids : f[i] <= g[i] + IF i \in F THEN EU ELSE 0
  BY <1>6
<1> HIDE DEF f, g
<1>9. Sum(f, Ids) <= Sum(g, Ids) + EU * Cardinality(Ids \cap F)
  <2>1. EU \in Int
    BY <1>2
  <2> QED
    BY <1>7, <1>8, <2>1, IdsAreFinite, SumExceeds
<1>10. Sum(f, Ids) = 2 * Sum(Bill(Ids, s), Ids)
  BY <1>6, IdsAreFinite, SumScales DEF f
<1>11. Sum(g, Ids) = (2 * EU) * Sum(WholeBill(Ids, s), Ids)
  <2>1. 2 * EU \in Int
    BY <1>2
  <2> QED
    BY <1>6, <2>1, IdsAreFinite, SumScales DEF g
<1>12. Ids \cap F = F
  BY DEF F
<1>13. IsFiniteSet(F) /\ Cardinality(F) \in Nat
  BY IdsAreFinite, FS_Subset, FS_CardinalityType DEF F
<1> DEFINE w == Over(whole_cost, s)
           b == rounded(request.budget, EU)
<1>14. w \in Int /\ Cost(s) \in Int
  BY <1>1, <1>4, <1>6, IdsAreFinite, SumType, BillType
<1>15. b \in Int /\ 2 * (EU * b) <= 2 * request.budget + EU
  BY <1>2, <1>3, RoundedBounds
<1>16. 2 * Cost(s) <= 2 * (EU * w) + EU * Cardinality(F)
  <2>1. (2 * EU) * w = 2 * (EU * w)
    BY <1>2, <1>14
  <2> QED
    BY <1>4, <1>9, <1>10, <1>11, <1>12, <2>1, CostIsSum
<1>17. EU * w <= EU * b
  BY <1>1, <1>2, <1>14, <1>15
<1>18. EU * (Cardinality(F) + 1) = EU * Cardinality(F) + EU /\ EU * Cardinality(F) \in Int
  BY <1>2, <1>13
<1> HIDE DEF w, b
<1>19. EU * w \in Int /\ EU * b \in Int
  BY <1>2, <1>14, <1>15
<1>20. 2 * Cost(s) <= 2 * request.budget + EU * (Cardinality(F) + 1)
  BY <1>2, <1>3, <1>14, <1>15, <1>16, <1>17, <1>18, <1>19
<1> QED
  BY <1>20 DEF F


----------------------------------------------------------------------------
(* Pruning: whatever an option offers, one that is kept offers *)

\* At no higher cost, and no lower value.
AsGood(d, c) == /\ d.building_id = c.building_id
                /\ d.cost_egp <= c.cost_egp /\ objective_fn(d) >= objective_fn(c)

LEMMA PruningKeeps ==
    ASSUME Contract, Expands, NEW kept \in prune_dominated(Expansion)
    PROVE  /\ kept \subseteq Expansion
           /\ \A c \in Expansion : \E d \in kept : AsGood(d, c)
<1> DEFINE frontier == { c \in Expansion : \A d \in Expansion : ~dominates(d, c) }
           twins    == { c \in frontier : \E d \in frontier \ {c} : Equal(c, d) }
<1>1. PICK K \in SUBSET twins :
          /\ kept = (frontier \ twins) \cup K
          /\ \A c \in twins : Cardinality({ d \in K : Equal(c, d) }) = 1
  BY DEF prune_dominated
<1>2. kept \subseteq Expansion
  BY <1>1
<1>3. ASSUME NEW c \in Expansion PROVE \E d \in kept : AsGood(d, c)
  <2>1. \A d \in Expansion : d.cost_egp \in Int /\ objective_fn(d) \in Int
    BY ExpansionYieldsOptions DEF IsOption
  <2> DEFINE T      == { d \in Expansion : AsGood(d, c) }
             Worth  == [d \in T |-> objective_fn(d) - d.cost_egp]
             Worths == { Worth[d] : d \in T }
  <2>2. c \in T
    BY <2>1 DEF AsGood
  <2>3. IsFiniteSet(Worths) /\ Worths # {} /\ Worths \subseteq Int
    <3>1. IsFiniteSet(T)
      BY ExpansionIsFinite, FS_Subset
    <3>2. Worth \in Surjection(T, Worths)
      BY DEF Surjection
    <3>3. \A d \in T : Worth[d] \in Int
      BY <2>1
    <3> HIDE DEF Worth, T
    <3> QED
      BY <2>2, <3>1, <3>2, <3>3, FS_Surjection
  <2>4. PICK d \in T : \A e \in T : Worth[e] <= Worth[d]
    <3> HIDE DEF Worth, T
    <3>1. Max(Worths) \in Worths /\ \A y \in Worths : y <= Max(Worths)
      BY <2>3, MaxIsMaximum
    <3> QED
      BY <3>1
  <2>5. d \in Expansion /\ AsGood(d, c)
    OBVIOUS
  <2>6. d \in frontier
    <3> SUFFICES ASSUME NEW e \in Expansion, dominates(e, d) PROVE FALSE
      BY <2>5
    <3>1. /\ e.building_id = d.building_id
          /\ e.cost_egp <= d.cost_egp /\ objective_fn(e) >= objective_fn(d)
          /\ e.cost_egp < d.cost_egp \/ objective_fn(e) > objective_fn(d)
      BY DEF dominates
    <3>2. AsGood(e, c)
      BY <2>1, <2>5, <3>1 DEF AsGood
    <3>3. objective_fn(e) - e.cost_egp <= objective_fn(d) - d.cost_egp
      BY <2>4, <3>2
    <3> QED
      BY <2>1, <2>5, <3>1, <3>3
  <2>7. CASE d \notin twins
    BY <1>1, <2>5, <2>6, <2>7
  <2>8. CASE d \in twins
    <3>1. Cardinality({ e \in K : Equal(d, e) }) = 1
      BY <1>1, <2>8
    <3>2. { e \in K : Equal(d, e) } # {}
      <4> HIDE DEF twins, frontier
      <4> SUFFICES ASSUME { e \in K : Equal(d, e) } = {} PROVE FALSE
        OBVIOUS
      <4> QED
        BY <3>1, FS_EmptySet
    <3>3. PICK e \in K : Equal(d, e)
      BY <3>2
    <3>4. e \in kept /\ e \in Expansion
      BY <1>1, <1>2
    <3>5. AsGood(e, c)
      BY <2>1, <2>5, <3>3, <3>4 DEF AsGood, Equal
    <3> QED
      BY <3>4, <3>5
  <2> QED
    BY <2>7, <2>8
<1> QED
  BY <1>2, <1>3


----------------------------------------------------------------------------
(* The inductive invariant of a call of solve *)

Decided    == {"cpsat", "density", "upgrade", "split", "done"}
Whole       == status.said = "none" \/ status.fallback
Unsolved    == status = [said |-> "none", fallback |-> FALSE]
Worthwhile(c) == objective_fn(c) > 0 /\ c.cost_egp <= request.budget

\* Which part of the state is settled in which phase.
StageInv ==
    /\ Contract
    /\ phase \in {"start", "failed", "refused", "prune"} \cup Decided
    /\ phase = "failed" => ~Expands
    /\ phase \notin {"start", "failed"} => Expands /\ all = Expansion
    /\ phase \in {"start", "prune", "cpsat", "split"} => chosen = Nothing /\ Unsolved
    /\ phase = "split" => request.solver # "cpsat"
    /\ phase = "cpsat" => todo = options
    /\ phase \in Decided =>
          /\ options \subseteq Expansion /\ request.budget >= 0
          /\ \A c \in Expansion : \E d \in options : AsGood(d, c)
          /\ chosen \in Selections(options) /\ todo \subseteq options

\* The heuristics never exceed the budget, and only the exact solver's own answer rounds.
SpendInv ==
    /\ phase \in Decided => WithinCap(chosen)
    /\ phase \in {"density", "upgrade"} => Whole
    /\ phase \in {"density", "upgrade", "done"} /\ Whole => Cost(chosen) <= request.budget
    /\ phase = "done" /\ ~Whole =>
          2 * Cost(chosen) <= 2 * request.budget
                + EU * (Cardinality({ i \in Ids : chosen[i] # None }) + 1)

\* As long as nothing is funded, no option worth funding has been passed over.
OfferInv ==
    request.cap # 0 =>
        /\ phase = "density" /\ Picks(chosen) = {} =>
              \A c \in options : Worthwhile(c) => c \in todo
        /\ phase = "upgrade" \/ (phase = "done" /\ request.solver = "cpsat") =>
              \A c \in options : Worthwhile(c) => Picks(chosen) # {}

PlannerInv == StageInv /\ SpendInv /\ OfferInv


\* What is read of the input does not change during a call; the rest is what the next
\* values say.
LEMMA FrameFacts ==
    ASSUME UNCHANGED input,
           NEW opts, opts = options', NEW picked, picked = chosen'
    PROVE  /\ Ids' = Ids /\ Nothing' = Nothing /\ Expansion' = Expansion
           /\ Contract' <=> Contract
           /\ Expands' <=> Expands
           /\ Selections(options)' = Selections(opts)
           /\ WithinCap(chosen)' <=> WithinCap(picked)
           /\ Cost(chosen)' = Cost(picked)
           /\ Picks(chosen)' = Picks(picked)
<1>1. scene' = scene /\ request' = request
  BY DEF input
<1>2. Ids' = Ids /\ Districts' = Districts
  BY <1>1 DEF Ids, Districts
<1>3. Nothing' = Nothing
  BY <1>2 DEF Nothing
<1>4. Expansion' = Expansion
  BY <1>1 DEF Expansion
<1>5. Contract' <=> Contract
  BY <1>1 DEF Contract
<1>6. Expands' <=> Expands
  BY <1>1 DEF Expands
<1>7. Selections(options)' = Selections(opts)
  BY <1>2 DEF Selections
<1>8. WithinCap(chosen)' <=> WithinCap(picked)
  BY <1>1, <1>2 DEF WithinCap, Funded
<1>9. Cost(chosen)' = Cost(picked)
  BY <1>2 DEF Cost, Over
<1>10. Picks(chosen)' = Picks(picked)
  BY <1>2 DEF Picks
<1> QED
  BY <1>2, <1>3, <1>4, <1>5, <1>6, <1>7, <1>8, <1>9, <1>10

LEMMA FrameFigures ==
    ASSUME UNCHANGED input
    PROVE  /\ \A c : objective_fn(c)' = objective_fn(c)
           /\ \A c : Worthwhile(c)' <=> Worthwhile(c)
           /\ \A c, d : AsGood(d, c)' <=> AsGood(d, c)
<1>1. request' = request
  BY DEF input
<1>2. \A c : objective_fn(c)' = objective_fn(c)
  BY <1>1 DEF objective_fn
<1> QED
  BY <1>1, <1>2 DEF Worthwhile, AsGood


\* Equal shares: everybody pays at most the budget divided by the number of buildings.
LEMMA SplitSpends ==
    ASSUME Contract, Expands, request.budget >= 0,
           NEW from \in SUBSET Expansion, NEW s \in equal_split(from)
    PROVE  s \in Selections(from) /\ WithinCap(s) /\ Cost(s) <= request.budget
<1> DEFINE N == Cardinality(scene.buildings)
           B == request.budget
           f == [i \in Ids |-> N * Bill(Ids, s)[i]]
           z == [i \in Ids |-> 0]
<1>1. PICK share \in Shares(from) : s \in Selections(Picks(share)) /\ WithinCap(s)
  BY DEF equal_split
<1> DEFINE offers == UNION { BestAffordable(i, from) : i \in Ids }
<1>2. share \in Selections(offers)
  BY <1>1 DEF Shares
<1>3. \A c \in offers : c \in from /\ c.cost_egp * N <= B
  BY DEF BestAffordable, OptionsOf
<1> HIDE DEF offers
<1>4. Picks(share) \subseteq offers
  BY <1>2 DEF Picks, Selections
<1>5. s \in Selections(from) /\ s \in Selections(Expansion)
  BY <1>1, <1>3, <1>4 DEF Selections
<1>6. B \in Int /\ N \in Nat
  BY RequestAssumption, ScenesAssumption, FS_CardinalityType DEF Contract
<1>7. ASSUME NEW i \in Ids
      PROVE  f[i] \in Int /\ z[i] \in Int /\ f[i] <= z[i] + IF i \in Ids THEN B ELSE 0
  <2>1. Bill(Ids, s)[i] \in Int
    BY <1>5, BillType
  <2>2. CASE s[i] = None
    <3>1. Bill(Ids, s)[i] = 0
      BY <2>2 DEF Bill
    <3> QED
      BY <3>1, <1>6
  <2>3. CASE s[i] # None
    <3>1. s[i] \in offers
      BY <1>1, <1>4, <2>3 DEF Selections
    <3>2. Bill(Ids, s)[i] = s[i].cost_egp
      BY <2>3 DEF Bill
    <3>3. Bill(Ids, s)[i] * N <= B
      BY <1>3, <3>1, <3>2
    <3>4. N * Bill(Ids, s)[i] = Bill(Ids, s)[i] * N
      BY <1>6, <2>1
    <3>5. N * Bill(Ids, s)[i] \in Int
      BY <1>6, <2>1
    <3> QED
      BY <1>6, <3>3, <3>4, <3>5
  <2> QED
    BY <2>2, <2>3
<1>8. Sum(f, Ids) = N * Cost(s)
  <2>1. N \in Int /\ \A i \in Ids : Bill(Ids, s)[i] \in Int
    BY <1>5, <1>6, BillType
  <2> QED
    BY <2>1, IdsAreFinite, SumScales, CostIsSum
<1>9. Sum(z, Ids) = 0
  BY IdsAreFinite, SumOfNothing
<1>10. Sum(f, Ids) <= Sum(z, Ids) + B * Cardinality(Ids \cap Ids)
  <2> HIDE DEF f, z, B
  <2> QED
    BY <1>6, <1>7, IdsAreFinite, SumExceeds
<1>11. Cardinality(Ids) \in Nat /\ Cardinality(Ids) <= N
  <2> DEFINE g == [b \in scene.buildings |-> b.id]
  <2>1. g \in Surjection(scene.buildings, Ids)
    BY DEF Ids, Surjection
  <2>2. IsFiniteSet(scene.buildings)
    BY ScenesAssumption DEF Contract
  <2> QED
    BY <2>1, <2>2, IdsAreFinite, FS_Surjection, FS_CardinalityType
<1>12. Cost(s) \in Int
  BY <1>5, BillType
<1> HIDE DEF B, N
<1>13. N * Cost(s) <= B * N
  <2>1. Ids \cap Ids = Ids
    OBVIOUS
  <2>2. N * Cost(s) <= B * Cardinality(Ids)
    <3>1. B * Cardinality(Ids) \in Int
      BY <1>6, <1>11
    <3>2. B * Cardinality(Ids \cap Ids) = B * Cardinality(Ids)
      BY <2>1
    <3>3. Sum(f, Ids) <= 0 + B * Cardinality(Ids)
      BY <1>9, <1>10, <3>2
    <3> QED
      BY <1>8, <3>1, <3>3
  <2>3. B * Cardinality(Ids) <= B * N
    <3>1. B >= 0
      BY DEF B
    <3> QED
      BY <1>6, <1>11, <3>1
  <2>4. N * Cost(s) \in Int /\ B * Cardinality(Ids) \in Int /\ B * N \in Int
    BY <1>6, <1>11, <1>12
  <2> QED
    BY <2>2, <2>3, <2>4
<1>14. CASE N = 0
  <2>1. Ids = {}
    BY <1>11, <1>14, IdsAreFinite, FS_EmptySet
  <2>2. \A i \in Ids : Bill(Ids, s)[i] = 0
    BY <2>1
  <2>3. Cost(s) = 0
    BY <2>2, IdsAreFinite, SumOfNothing, CostIsSum
  <2> QED
    BY <1>1, <1>5, <2>3
<1>15. CASE N # 0
  <2>1. Cost(s) <= B
    <3> SUFFICES ASSUME Cost(s) >= B + 1 PROVE FALSE
      BY <1>6, <1>12
    <3>1. N * Cost(s) >= N * (B + 1)
      BY <1>6, <1>12, <1>15
    <3>2. N * (B + 1) = B * N + N
      BY <1>6
    <3> QED
      BY <1>6, <1>12, <1>13, <1>15, <3>1, <3>2
  <2> QED
    BY <1>1, <1>5, <2>1 DEF B
<1> QED
  BY <1>14, <1>15

LEMMA PlannerInitInv == Init => PlannerInv
<1> SUFFICES ASSUME Init PROVE PlannerInv
  OBVIOUS
<1> QED
  BY DEF Init, PlannerInv, StageInv, SpendInv, OfferInv, Decided, Contract, Unsolved, Whole


\* The next state's invariant, with the next values of what was decided named.
LEMMA NextInv ==
    ASSUME UNCHANGED input, Contract,
           NEW opts, opts = options', NEW picked, picked = chosen',
           phase' \in {"start", "failed", "refused", "prune"} \cup Decided,
           phase' = "failed" => ~Expands,
           phase' \notin {"start", "failed"} => Expands /\ all' = Expansion,
           phase' \in {"start", "prune", "cpsat", "split"} =>
               picked = Nothing /\ status' = [said |-> "none", fallback |-> FALSE],
           phase' = "split" => request.solver # "cpsat",
           phase' = "cpsat" => todo' = opts,
           phase' \in Decided =>
               /\ opts \subseteq Expansion /\ request.budget >= 0
               /\ \A c \in Expansion : \E d \in opts : AsGood(d, c)
               /\ picked \in Selections(opts) /\ todo' \subseteq opts
               /\ WithinCap(picked),
           phase' \in {"density", "upgrade"} => status'.said = "none" \/ status'.fallback,
           phase' \in {"density", "upgrade", "done"} /\ (status'.said = "none" \/ status'.fallback)
               => Cost(picked) <= request.budget,
           phase' = "done" /\ ~(status'.said = "none" \/ status'.fallback) =>
               2 * Cost(picked) <= 2 * request.budget
                    + EU * (Cardinality({ i \in Ids : picked[i] # None }) + 1),
           request.cap # 0 =>
               /\ phase' = "density" /\ Picks(picked) = {} =>
                      \A c \in opts : Worthwhile(c) => c \in todo'
               /\ phase' = "upgrade" \/ (phase' = "done" /\ request.solver = "cpsat") =>
                      \A c \in opts : Worthwhile(c) => Picks(picked) # {}
    PROVE  PlannerInv'
<1>1. scene' = scene /\ request' = request
  BY DEF input
<1>2. /\ Ids' = Ids /\ Nothing' = Nothing /\ Expansion' = Expansion
      /\ Contract' /\ (Expands' <=> Expands)
      /\ Selections(options)' = Selections(opts)
      /\ WithinCap(chosen)' <=> WithinCap(picked)
      /\ Cost(chosen)' = Cost(picked)
      /\ Picks(chosen)' = Picks(picked)
  BY FrameFacts
<1>3. /\ \A c : Worthwhile(c)' <=> Worthwhile(c)
      /\ \A c, d : AsGood(d, c)' <=> AsGood(d, c)
  BY FrameFigures
<1>4. Whole' <=> status'.said = "none" \/ status'.fallback
  BY DEF Whole
<1>5. Unsolved' <=> status' = [said |-> "none", fallback |-> FALSE]
  BY DEF Unsolved
<1>6. StageInv'
  <2>1. phase' \in Decided =>
            /\ options' \subseteq Expansion' /\ (request.budget)' >= 0
            /\ (\A c \in Expansion : \E d \in options : AsGood(d, c))'
            /\ (chosen \in Selections(options))' /\ (todo \subseteq options)'
    BY <1>1, <1>2, <1>3
  <2> QED
    BY <1>1, <1>2, <1>5, <2>1 DEF StageInv, Decided
<1>7. SpendInv'
  <2>1. { i \in Ids' : chosen'[i] # None } = { i \in Ids : picked[i] # None }
    BY <1>2
  <2> QED
    BY <1>1, <1>2, <1>4, <2>1 DEF SpendInv, Decided
<1>8. OfferInv'
  BY <1>1, <1>2, <1>3 DEF OfferInv
<1> QED
  BY <1>6, <1>7, <1>8 DEF PlannerInv


LEMMA RequestFacts ==
    ASSUME Contract
    PROVE  /\ request.budget \in Int /\ (request.cap # NoCap => request.cap \in Nat)
           /\ request.solver \in SOLVERS
BY RequestAssumption DEF Contract

\* A building without an option has none in the sum either.
LEMMA EmptyMeansNothing ==
    ASSUME NEW from, NEW s \in Selections(from), Picks(s) = {}
    PROVE  s = Nothing
<1>1. s \in [Ids -> {None} \cup from]
  BY DEF Selections
<1>2. \A i \in Ids : s[i] = None
  BY <1>1 DEF Picks
<1> QED
  BY <1>1, <1>2 DEF Nothing

LEMMA PlannerStepInv == PlannerInv /\ [Next]_vars => PlannerInv'
<1> SUFFICES ASSUME PlannerInv, [Next]_vars PROVE PlannerInv'
  OBVIOUS
<1> PICK opts, picked : opts = options' /\ picked = chosen'
  OBVIOUS
<1>c. Contract
  BY DEF PlannerInv, StageInv
<1>r. /\ request.budget \in Int /\ (request.cap # NoCap => request.cap \in Nat)
      /\ request.solver \in SOLVERS
  BY <1>c, RequestFacts
<1>w. phase \in Decided =>
          /\ Expands /\ all = Expansion
          /\ options \subseteq Expansion /\ request.budget >= 0
          /\ \A c \in Expansion : \E d \in options : AsGood(d, c)
          /\ chosen \in Selections(options) /\ todo \subseteq options
          /\ WithinCap(chosen)
  BY DEF PlannerInv, StageInv, SpendInv, Decided
<1>n. Expands => /\ Nothing \in Selections(Expansion) /\ Cost(Nothing) = 0
                 /\ \A d : Funded(Nothing, d) = 0 /\ Picks(Nothing) = {}
  BY <1>c, NothingIsSelection
<1>1. CASE Reject
  <2>1. phase' = "refused" /\ UNCHANGED input /\ all' = all
    BY <1>1 DEF Reject
  <2>2. Expands /\ all = Expansion
    BY <1>1 DEF Reject, PlannerInv, StageInv
  <2> QED
    BY <1>c, <2>1, <2>2, NextInv DEF Decided
<1>2. CASE Expand
  <2>1. /\ phase = "start" /\ UNCHANGED input /\ picked = chosen /\ status' = status
    BY <1>2 DEF Expand
  <2>2. picked = Nothing /\ status' = [said |-> "none", fallback |-> FALSE]
    BY <2>1 DEF PlannerInv, StageInv, Unsolved
  <2>3. \/ phase' = "failed" /\ ~Expands
        \/ phase' = "prune" /\ Expands /\ all' = Expansion
    BY <1>2 DEF Expand, Expands, Expansion
  <2> QED
    BY <1>c, <2>1, <2>2, <2>3, NextInv DEF Decided
<1>3. CASE Prune
  <2>1. /\ phase = "prune" /\ request.budget >= 0 /\ UNCHANGED input
        /\ all' = all /\ picked = chosen /\ status' = status
        /\ opts \in prune_dominated(all) /\ todo' = opts
        /\ phase' = CASE request.solver = "cpsat"       -> "cpsat"
                      [] request.solver = "equal_split" -> "split"
                      [] OTHER                          -> "density"
    BY <1>3 DEF Prune
  <2>2. /\ Expands /\ all = Expansion
        /\ picked = Nothing /\ status' = [said |-> "none", fallback |-> FALSE]
    BY <2>1 DEF PlannerInv, StageInv, Unsolved
  <2>3. /\ opts \subseteq Expansion
        /\ \A c \in Expansion : \E d \in opts : AsGood(d, c)
    BY <1>c, <2>1, <2>2, PruningKeeps
  <2>4. picked \in Selections(opts)
    BY <2>2 DEF Nothing, Selections
  <2>5. WithinCap(picked)
    BY <1>n, <1>r, <2>2 DEF WithinCap
  <2>6. Cost(picked) <= request.budget
    BY <1>n, <2>1, <2>2
  <2>7. /\ phase' \in {"cpsat", "split", "density"}
        /\ phase' = "split" => request.solver # "cpsat"
    BY <2>1
  <2> QED
    BY <1>c, <2>1, <2>2, <2>3, <2>4, <2>5, <2>6, <2>7, NextInv DEF Decided
<1>4. CASE DensityStep
  <2>1. /\ phase = "density" /\ phase' = phase /\ UNCHANGED input
        /\ all' = all /\ opts = options /\ status' = status
    BY <1>4 DEF DensityStep
  <2>2. PICK c \in todo :
            /\ todo' = todo \ {c}
            /\ picked = IF fits(c) THEN [chosen EXCEPT ![c.building_id] = c] ELSE chosen
    BY <1>4 DEF DensityStep
  <2>3. c \in options /\ c \in Expansion
    BY <1>w, <2>1 DEF Decided
  <2>4. Cost(chosen) <= request.budget /\ (status.said = "none" \/ status.fallback)
    BY <2>1 DEF PlannerInv, SpendInv, Whole
  <2>5. CASE fits(c)
    <3>1. picked = Move(chosen, c)
      BY <2>2, <2>5 DEF Move
    <3>2. /\ picked \in Selections(opts) /\ Picks(picked) # {}
          /\ Cost(picked) = Cost(chosen) + (c.cost_egp - Spared(chosen, c.building_id))
      BY <1>c, <1>w, <2>1, <2>3, <3>1, MoveCosts DEF Decided
    <3>3. WithinCap(picked)
      BY <1>c, <1>w, <2>1, <2>3, <2>5, <3>1, MoveKeepsCap DEF Decided, fits, DistrictOpen
    <3>4. Cost(picked) <= request.budget
      <4>1. Spared(chosen, c.building_id) = 0 /\ Cost(chosen) + c.cost_egp <= request.budget
        BY <2>5 DEF fits, Spared
      <4>2. c.cost_egp \in Int
        BY <1>c, <1>w, <2>1, <2>3, ExpansionYieldsOptions DEF Decided, IsOption
      <4> QED
        BY <3>2, <4>1, <4>2
    <3> QED
      BY <1>c, <1>w, <2>1, <2>2, <2>4, <3>2, <3>3, <3>4, NextInv DEF Decided
  <2>6. CASE ~fits(c)
    <3>1. picked = chosen
      BY <2>2, <2>6
    <3>2. ASSUME request.cap # 0, Picks(chosen) = {}, NEW d \in options, Worthwhile(d)
          PROVE  d \in todo'
      <4>1. d \in todo
        BY <2>1, <3>2 DEF PlannerInv, OfferInv
      <4>2. chosen = Nothing
        BY <1>w, <2>1, <3>2, EmptyMeansNothing DEF Decided
      <4>3. IsOption(d)
        BY <1>c, <1>w, <2>1, ExpansionYieldsOptions DEF Decided
      <4>4. fits(d)
        <5>1. Cost(chosen) + d.cost_egp <= request.budget
          BY <1>n, <1>w, <2>1, <3>2, <4>2, <4>3 DEF Decided, IsOption, Worthwhile
        <5>2. DistrictOpen(d)
          BY <1>n, <1>w, <1>r, <2>1, <3>2, <4>2 DEF Decided, DistrictOpen
        <5>3. chosen[d.building_id] = None
          BY <4>2, <4>3 DEF IsOption, Nothing
        <5> QED
          BY <3>2, <5>1, <5>2, <5>3 DEF fits, Worthwhile
      <4> QED
        BY <2>2, <2>6, <4>1, <4>4
    <3> QED
      BY <1>c, <1>w, <2>1, <2>2, <2>4, <3>1, <3>2, NextInv DEF Decided
  <2> QED
    BY <2>5, <2>6
<1>5. CASE DensityDone
  <2>1. /\ phase = "density" /\ todo = {} /\ UNCHANGED input
        /\ all' = all /\ opts = options /\ todo' = todo /\ picked = chosen /\ status' = status
        /\ phase' = IF request.solver = "greedy" THEN "done" ELSE "upgrade"
    BY <1>5 DEF DensityDone
  <2>2. Cost(chosen) <= request.budget /\ (status.said = "none" \/ status.fallback)
    BY <2>1 DEF PlannerInv, SpendInv, Whole
  <2>3. request.cap # 0 => \A c \in options : Worthwhile(c) => Picks(chosen) # {}
    BY <2>1 DEF PlannerInv, OfferInv
  <2>4. phase' \in {"done", "upgrade"} /\ ~(phase' = "done" /\ request.solver = "cpsat")
    BY <2>1
  <2> QED
    BY <1>c, <1>w, <2>1, <2>2, <2>3, <2>4, NextInv DEF Decided
<1>6. CASE Upgrade
  <2>1. /\ phase = "upgrade" /\ phase' = phase /\ UNCHANGED input
        /\ all' = all /\ opts = options /\ todo' = todo /\ status' = status
    BY <1>6 DEF Upgrade
  <2>2. PICK c \in Moves : picked = Move(chosen, c)
    BY <1>6 DEF Upgrade, Move
  <2>3. /\ c \in options /\ Cost(chosen) + extra(c) <= request.budget
        /\ chosen[c.building_id] = None => DistrictOpen(c)
    BY <2>2 DEF Moves
  <2>4. status.said = "none" \/ status.fallback
    BY <2>1 DEF PlannerInv, SpendInv, Whole
  <2>5. /\ picked \in Selections(opts) /\ Picks(picked) # {}
        /\ Cost(picked) = Cost(chosen) + (c.cost_egp - Spared(chosen, c.building_id))
    BY <1>c, <1>w, <2>1, <2>2, <2>3, MoveCosts DEF Decided
  <2>6. WithinCap(picked)
    BY <1>c, <1>w, <2>1, <2>2, <2>3, MoveKeepsCap DEF Decided, DistrictOpen
  <2>7. Cost(picked) <= request.budget
    BY <2>3, <2>5 DEF extra, Spared
  <2> QED
    BY <1>c, <1>w, <2>1, <2>4, <2>5, <2>6, <2>7, NextInv DEF Decided
<1>7. CASE UpgradeDone
  <2>1. /\ phase = "upgrade" /\ phase' = "done" /\ UNCHANGED input
        /\ all' = all /\ opts = options /\ todo' = todo /\ picked = chosen /\ status' = status
    BY <1>7 DEF UpgradeDone
  <2>2. Cost(chosen) <= request.budget /\ (status.said = "none" \/ status.fallback)
    BY <2>1 DEF PlannerInv, SpendInv, Whole
  <2>3. request.cap # 0 => \A c \in options : Worthwhile(c) => Picks(chosen) # {}
    BY <2>1 DEF PlannerInv, OfferInv
  <2> QED
    BY <1>c, <1>w, <2>1, <2>2, <2>3, NextInv DEF Decided
<1>8. CASE EqualSplit
  <2>1. /\ phase = "split" /\ phase' = "done" /\ UNCHANGED input
        /\ all' = all /\ opts = options /\ todo' = todo /\ status' = status
        /\ picked \in equal_split(options)
    BY <1>8 DEF EqualSplit
  <2>2. /\ picked \in Selections(opts) /\ WithinCap(picked) /\ Cost(picked) <= request.budget
    BY <1>c, <1>w, <2>1, SplitSpends DEF Decided
  <2>3. /\ status' = [said |-> "none", fallback |-> FALSE] /\ request.solver # "cpsat"
    BY <2>1 DEF PlannerInv, StageInv, Unsolved
  <2> QED
    BY <1>c, <1>w, <2>1, <2>2, <2>3, NextInv DEF Decided
<1>9. CASE CpSat
  <2>1. /\ phase = "cpsat" /\ UNCHANGED input
        /\ all' = all /\ opts = options /\ todo' = todo
    BY <1>9 DEF CpSat
  <2>2. PICK said \in {"OPTIMAL", "FEASIBLE", "UNKNOWN"} :
            /\ picked \in CASE said = "OPTIMAL"  -> Optima(options)
                            [] said = "FEASIBLE" -> Programme(options)
                            [] said = "UNKNOWN"  -> {Nothing}
            /\ status' = [said |-> said, fallback |-> falls_back(picked, said)]
            /\ phase' = IF falls_back(picked, said) THEN "density" ELSE "done"
    BY <1>9 DEF CpSat
  <2>3. todo = options
    BY <2>1 DEF PlannerInv, StageInv
  <2>4. picked \in Programme(options) \/ picked = Nothing
    BY <2>2 DEF Optima
  <2>5. /\ picked \in Selections(opts) /\ WithinCap(picked)
        /\ 2 * Cost(picked) <= 2 * request.budget
                + EU * (Cardinality({ i \in Ids : picked[i] # None }) + 1)
    <3>1. CASE picked \in Programme(options)
      BY <1>c, <1>w, <2>1, <3>1, ProgrammeSpends DEF Decided, Programme
    <3>2. CASE picked = Nothing
      <4>1. { i \in Ids : picked[i] # None } = {}
        BY <3>2 DEF Nothing
      <4>2. Cardinality({ i \in Ids : picked[i] # None }) = 0
        BY <4>1, FS_EmptySet
      <4>3. EU \in Nat
        BY UnitsAssumption DEF EU
      <4>4. picked \in Selections(opts)
        BY <3>2 DEF Nothing, Selections
      <4>5. WithinCap(picked)
        BY <1>n, <1>r, <1>w, <2>1, <3>2 DEF WithinCap, Decided
      <4>6. Cost(picked) = 0 /\ request.budget >= 0
        BY <1>n, <1>w, <2>1, <3>2 DEF Decided
      <4> QED
        BY <1>r, <4>2, <4>3, <4>4, <4>5, <4>6
    <3> QED
      BY <2>4, <3>1, <3>2
  <2>6. CASE falls_back(picked, said)
    <3>1. Picks(picked) = {}
      BY <2>6 DEF falls_back
    <3>2. Cost(picked) <= request.budget
      BY <1>n, <1>w, <2>1, <2>5, <3>1, EmptyMeansNothing DEF Decided
    <3>3. status'.fallback /\ phase' = "density" /\ todo' = opts
      BY <2>1, <2>2, <2>3, <2>6
    <3> QED
      BY <1>c, <1>w, <2>1, <2>5, <3>1, <3>2, <3>3, NextInv DEF Decided
  <2>7. CASE ~falls_back(picked, said)
    <3>1. phase' = "done" /\ status'.said # "none" /\ ~status'.fallback
      BY <2>2, <2>7
    <3>2. ASSUME NEW c \in opts, Worthwhile(c) PROVE Picks(picked) # {}
      <4>1. c.cost_egp \in Int /\ c.cost_egp > 0
        BY <1>c, <1>w, <2>1, ExpansionYieldsOptions DEF Decided, IsOption
      <4> QED
        BY <1>r, <2>7, <3>2, <4>1 DEF falls_back, Worthwhile
    <3> QED
      BY <1>c, <1>w, <2>1, <2>5, <3>1, <3>2, NextInv DEF Decided
  <2> QED
    BY <2>6, <2>7
<1>10. CASE UNCHANGED vars
  <2>1. /\ UNCHANGED input /\ phase' = phase /\ all' = all /\ opts = options
        /\ todo' = todo /\ picked = chosen /\ status' = status
    BY <1>10 DEF vars, input
  <2>2. StageInv /\ SpendInv /\ OfferInv
    BY DEF PlannerInv
  <2> QED
    BY <1>w, <2>1, <2>2, NextInv DEF StageInv, SpendInv, OfferInv, Unsolved, Whole
<1> QED
  BY <1>1, <1>2, <1>3, <1>4, <1>5, <1>6, <1>7, <1>8, <1>9, <1>10 DEF Next


\* Whichever solver runs and however CP-SAT ends, no district is over its cap and the
\* budget is kept, to half an EGP per option where the exact solver's own answer stands:
\* for any portfolio, catalogue, parameters, budget and cap.
THEOREM SpendingStaysBounded == Spec => []SpendingBounded
<1>1. PlannerInv => SpendingBounded
  <2> SUFFICES ASSUME PlannerInv, phase = "done"
               PROVE  /\ WithinCap(chosen)
                      /\ 2 * Cost(chosen) <= 2 * request.budget +
                            IF status.said = "none" \/ status.fallback THEN 0
                            ELSE EU * (Cardinality({ i \in Ids : chosen[i] # None }) + 1)
    BY DEF SpendingBounded
  <2>1. Contract /\ Expands /\ chosen \in Selections(Expansion)
    BY DEF PlannerInv, StageInv, Decided, Selections
  <2>2. request.budget \in Int /\ Cost(chosen) \in Int
    BY <2>1, RequestFacts, BillType
  <2> QED
    BY <2>2 DEF PlannerInv, SpendInv, Decided, Whole
<1> QED
  BY <1>1, PlannerInitInv, PlannerStepInv, PTL DEF Spec

\* Where some option is worth something and can be paid, a call of the exact solver
\* funds something, whatever CP-SAT comes back with: pruning keeps an option as good,
\* and the fallback cannot pass over all of them.
THEOREM NobodyLeavesEmptyHanded == Spec => []NeverEmptyHanded
<1>1. PlannerInv => NeverEmptyHanded
  <2> SUFFICES ASSUME PlannerInv, phase = "done", request.solver = "cpsat", request.cap # 0,
                      NEW c \in all, objective_fn(c) > 0, c.cost_egp <= request.budget
               PROVE  Picks(chosen) # {}
    BY DEF NeverEmptyHanded
  <2>1. /\ Contract /\ Expands /\ c \in Expansion /\ options \subseteq Expansion
        /\ \E d \in options : AsGood(d, c)
    BY DEF PlannerInv, StageInv, Decided
  <2>2. PICK d \in options : AsGood(d, c)
    BY <2>1
  <2>3. request.budget \in Int /\ IsOption(c) /\ IsOption(d)
    BY <2>1, RequestFacts, ExpansionYieldsOptions
  <2>4. Worthwhile(d)
    BY <2>2, <2>3 DEF AsGood, IsOption, Worthwhile
  <2> QED
    BY <2>4 DEF PlannerInv, OfferInv
<1> QED
  BY <1>1, PlannerInitInv, PlannerStepInv, PTL DEF Spec


----------------------------------------------------------------------------
(* Pruning changes no answer: every answer from all options has one from the kept  *)
(* ones that is worth as much                                                      *)

\* Two sets of integers, one within the other, that reach equally high.
LEMMA MaximaAgree ==
    ASSUME NEW A, A \subseteq Int, NEW B, B \subseteq A, \A x \in A : \E y \in B : x <= y
    PROVE  Max(A) = Max(B)
<1>1. ASSUME NEW x
      PROVE  (x \in A /\ \A y \in A : x >= y) <=> (x \in B /\ \A y \in B : x >= y)
  <2>1. ASSUME x \in A, \A y \in A : x >= y PROVE x \in B /\ \A y \in B : x >= y
    <3>1. PICK y \in B : x <= y
      BY <2>1
    <3>2. x = y
      BY <2>1, <3>1
    <3> QED
      BY <2>1, <3>1, <3>2
  <2>2. ASSUME x \in B, \A y \in B : x >= y PROVE x \in A /\ \A y \in A : x >= y
    <3> SUFFICES ASSUME NEW y \in A PROVE x >= y
      BY <2>2
    <3>1. PICK z \in B : y <= z
      OBVIOUS
    <3>2. x >= z /\ x \in Int /\ y \in Int /\ z \in Int
      BY <2>2
    <3> QED
      BY <3>1, <3>2
  <2> QED
    BY <2>1, <2>2
<1>2. (CHOOSE x : x \in A /\ \A y \in A : x >= y) = (CHOOSE x : x \in B /\ \A y \in B : x >= y)
  BY <1>1
<1>3. Max(A) = CHOOSE x : x \in A /\ \A y \in A : x >= y
  BY DEF Max
<1>4. Max(B) = CHOOSE x : x \in B /\ \A y \in B : x >= y
  BY DEF Max
<1> QED
  BY <1>2, <1>3, <1>4

\* Two allocations that fund the same buildings.
Alike(s, t) == \A i \in Ids : s[i] = None <=> t[i] = None

LEMMA AlikeFundsAlike ==
    ASSUME Contract, Expands, NEW s \in Selections(Expansion),
           NEW t \in Selections(Expansion), Alike(s, t)
    PROVE  /\ \A i \in Ids : s[i] # None => s[i].district = t[i].district
           /\ \A d : Funded(s, d) = Funded(t, d)
<1>1. ASSUME NEW i \in Ids, s[i] # None PROVE s[i].district = t[i].district
  <2>1. /\ s[i] \in Expansion /\ s[i].building_id = i
        /\ t[i] \in Expansion /\ t[i].building_id = i
    BY <1>1 DEF Selections, Alike
  <2>2. IsOption(s[i]) /\ IsOption(t[i])
    BY <2>1, ExpansionYieldsOptions
  <2>3. PICK b \in scene.buildings : b.id = i
    BY DEF Ids
  <2> QED
    BY <2>1, <2>2, <2>3 DEF IsOption
<1>2. ASSUME NEW d PROVE Funded(s, d) = Funded(t, d)
  <2>1. { i \in Ids : s[i] # None /\ s[i].district = d }
            = { i \in Ids : t[i] # None /\ t[i].district = d }
    BY <1>1 DEF Alike
  <2> QED
    BY <2>1 DEF Funded
<1> QED
  BY <1>1, <1>2

WholeWorth(ids, s) == [i \in ids |-> IF s[i] = None THEN 0 ELSE whole_value(s[i])]

\* Every feasible plan has one among the kept options that costs no more, in whole EGP,
\* and is worth as much, in whole units.
LEMMA PlansKeepUp ==
    ASSUME Contract, Expands, request.budget >= 0,
           NEW kept \in SUBSET Expansion, \A c \in Expansion : \E d \in kept : AsGood(d, c),
           NEW s \in Programme(Expansion)
    PROVE  \E t \in Programme(kept) : /\ Over(whole_value, s) \in Int
                                      /\ Over(whole_value, s) <= Over(whole_value, t)
<1> DEFINE t == [i \in Ids |-> IF s[i] = None THEN None
                               ELSE CHOOSE d \in kept : AsGood(d, s[i])]
<1>1. s \in Selections(Expansion) /\ Over(whole_cost, s) <= rounded(request.budget, EU)
      /\ WithinCap(s)
  BY DEF Programme
<1>2. \A i \in Ids : s[i] # None => s[i] \in Expansion /\ s[i].building_id = i
  BY <1>1 DEF Selections
<1>3. ASSUME NEW i \in Ids, s[i] # None
      PROVE  t[i] \in kept /\ t[i] # None /\ AsGood(t[i], s[i]) /\ t[i].building_id = i
  <2>1. t[i] \in kept /\ AsGood(t[i], s[i])
    BY <1>2, <1>3
  <2>2. IsOption(t[i])
    BY <2>1, ExpansionYieldsOptions
  <2> QED
    BY <1>2, <1>3, <2>1, <2>2 DEF AsGood, IsOption
<1>4. t \in Selections(kept) /\ t \in Selections(Expansion)
  BY <1>3 DEF Selections
<1>5. Alike(s, t)
  BY <1>3 DEF Alike
<1> HIDE DEF t
<1>6. WithinCap(t)
  BY <1>1, <1>4, <1>5, AlikeFundsAlike DEF WithinCap
<1>7. EU \in Nat \ {0} /\ ObjectiveUnit \in Nat \ {0}
  <2>1. KU \in Nat \ {0} /\ VU(scene.params) \in Nat \ {0}
    BY UnitsArePositive, WorthUnit, ScenesAssumption DEF Contract, Positive
  <2> QED
    BY <2>1, UnitsAssumption DEF EU, ObjectiveUnit
<1>8. ASSUME NEW i \in Ids
      PROVE  /\ WholeBill(Ids, s)[i] \in Int /\ WholeBill(Ids, t)[i] \in Int
             /\ WholeBill(Ids, t)[i] <= WholeBill(Ids, s)[i]
             /\ WholeWorth(Ids, s)[i] \in Int /\ WholeWorth(Ids, t)[i] \in Int
             /\ WholeWorth(Ids, s)[i] <= WholeWorth(Ids, t)[i]
  <2>1. CASE s[i] = None
    <3>1. t[i] = None
      BY <1>5, <2>1 DEF Alike
    <3> QED
      BY <2>1, <3>1 DEF WholeBill, WholeWorth
  <2>2. CASE s[i] # None
    <3>1. IsOption(s[i]) /\ IsOption(t[i]) /\ AsGood(t[i], s[i]) /\ t[i] # None
      BY <1>2, <1>3, <2>2, ExpansionYieldsOptions
    <3>2. /\ s[i].cost_egp \in Int /\ t[i].cost_egp \in Int /\ t[i].cost_egp <= s[i].cost_egp
          /\ objective_fn(s[i]) \in Int /\ objective_fn(t[i]) \in Int
          /\ objective_fn(s[i]) <= objective_fn(t[i])
      BY <3>1 DEF IsOption, AsGood
    <3>3. /\ whole_cost(s[i]) \in Int /\ whole_cost(t[i]) \in Int
          /\ whole_cost(t[i]) <= whole_cost(s[i])
      BY <1>7, <3>2, RoundedBounds, RoundedMonotone DEF whole_cost
    <3>4. /\ whole_value(s[i]) \in Int /\ whole_value(t[i]) \in Int
          /\ whole_value(s[i]) <= whole_value(t[i])
      BY <1>7, <3>2, RoundedBounds, RoundedMonotone DEF whole_value
    <3> QED
      BY <2>2, <3>1, <3>3, <3>4 DEF WholeBill, WholeWorth
  <2> QED
    BY <2>1, <2>2
<1>9. /\ Over(whole_cost, s) = Sum(WholeBill(Ids, s), Ids)
      /\ Over(whole_cost, t) = Sum(WholeBill(Ids, t), Ids)
      /\ Over(whole_value, s) = Sum(WholeWorth(Ids, s), Ids)
      /\ Over(whole_value, t) = Sum(WholeWorth(Ids, t), Ids)
  BY DEF Over, WholeBill, WholeWorth, Sum, SumFunction
<1>10. Over(whole_cost, t) <= Over(whole_cost, s)
  BY <1>8, <1>9, IdsAreFinite, SumMonotone
<1>11. Over(whole_value, s) <= Over(whole_value, t)
  BY <1>8, <1>9, IdsAreFinite, SumMonotone
<1>12. /\ Over(whole_cost, s) \in Int /\ Over(whole_cost, t) \in Int
  BY <1>8, <1>9, IdsAreFinite, SumType
<1>13. Over(whole_value, s) \in Int
  BY <1>8, <1>9, IdsAreFinite, SumType
<1>14. rounded(request.budget, EU) \in Int
  BY <1>7, RequestFacts, RoundedBounds
<1>15. t \in Programme(kept)
  <2>1. Over(whole_cost, t) <= rounded(request.budget, EU)
    BY <1>1, <1>10, <1>12, <1>14
  <2> QED
    BY <1>4, <1>6, <2>1 DEF Programme
<1> QED
  BY <1>11, <1>13, <1>15

LEMMA PruningKeepsTheBest ==
    ASSUME Contract, Expands, request.budget >= 0,
           NEW kept \in SUBSET Expansion, \A c \in Expansion : \E d \in kept : AsGood(d, c)
    PROVE  Best(Programme(Expansion)) = Best(Programme(kept))
<1> DEFINE A == { Over(whole_value, s) : s \in Programme(Expansion) }
           B == { Over(whole_value, s) : s \in Programme(kept) }
<1>1. Programme(kept) \subseteq Programme(Expansion)
  BY DEF Programme, Selections
<1>2. B \subseteq A
  BY <1>1
<1>3. A \subseteq Int /\ \A x \in A : \E y \in B : x <= y
  BY PlansKeepUp
<1> HIDE DEF A, B
<1>4. Max(A) = Max(B)
  BY <1>2, <1>3, MaximaAgree
<1> QED
  BY <1>4 DEF Best, A, B


\* What a building can buy best from the kept options is worth what it could buy best
\* from all of them.
LEMMA BestIsKept ==
    ASSUME Contract, Expands, request.budget >= 0,
           NEW kept \in SUBSET Expansion, \A c \in Expansion : \E d \in kept : AsGood(d, c),
           NEW i \in Ids
    PROVE  /\ BestAffordable(i, kept) \subseteq BestAffordable(i, Expansion)
           /\ \A c \in BestAffordable(i, Expansion) : \E d \in BestAffordable(i, kept) :
                  objective_fn(d) = objective_fn(c)
<1> DEFINE N == Cardinality(scene.buildings)
           B == request.budget
           Can(c, from) == /\ c \in from /\ c.building_id = i
                           /\ objective_fn(c) > 0 /\ c.cost_egp * N <= B
<1>1. N \in Nat /\ B \in Int
  BY ScenesAssumption, FS_CardinalityType, RequestFacts DEF Contract
<1>2. \A c, from : c \in BestAffordable(i, from) <=>
          Can(c, from) /\ \A d : Can(d, from) => objective_fn(d) <= objective_fn(c)
  BY DEF BestAffordable, OptionsOf
<1>3. \A c \in Expansion : /\ c.cost_egp \in Int /\ objective_fn(c) \in Int
  BY ExpansionYieldsOptions DEF IsOption
<1>4. ASSUME NEW c, Can(c, Expansion)
      PROVE  \E d \in kept : Can(d, kept) /\ objective_fn(d) >= objective_fn(c)
  <2>1. PICK d \in kept : AsGood(d, c)
    BY <1>4
  <2>2. /\ c.cost_egp \in Int /\ objective_fn(c) \in Int
        /\ d.cost_egp \in Int /\ objective_fn(d) \in Int
    BY <1>3, <1>4
  <2>3. /\ d.building_id = c.building_id
        /\ d.cost_egp <= c.cost_egp /\ objective_fn(d) >= objective_fn(c)
    BY <2>1 DEF AsGood
  <2>4. d.cost_egp * N <= B
    <3>1. c.cost_egp * N <= B
      BY <1>4
    <3> HIDE DEF N, B
    <3>2. d.cost_egp * N <= c.cost_egp * N
      BY <1>1, <2>2, <2>3
    <3>3. d.cost_egp * N \in Int /\ c.cost_egp * N \in Int
      BY <1>1, <2>2
    <3> QED
      BY <1>1, <3>1, <3>2, <3>3
  <2>5. objective_fn(d) > 0
    BY <1>4, <2>2, <2>3
  <2> QED
    BY <1>4, <2>3, <2>4, <2>5
<1>5. \A c : Can(c, kept) => Can(c, Expansion)
  OBVIOUS
<1> HIDE DEF Can
<1>6. \A c, from : Can(c, from) => c \in from
  BY DEF Can
<1>7. ASSUME NEW c \in BestAffordable(i, kept) PROVE c \in BestAffordable(i, Expansion)
  <2> SUFFICES ASSUME NEW e, Can(e, Expansion) PROVE objective_fn(e) <= objective_fn(c)
    BY <1>2, <1>5
  <2>1. PICK d \in kept : Can(d, kept) /\ objective_fn(d) >= objective_fn(e)
    BY <1>4
  <2>2. objective_fn(d) <= objective_fn(c) /\ Can(c, kept)
    BY <1>2, <2>1
  <2>3. objective_fn(c) \in Int /\ objective_fn(d) \in Int /\ objective_fn(e) \in Int
    BY <1>3, <1>6, <2>2
  <2> QED
    BY <2>1, <2>2, <2>3
<1>8. ASSUME NEW c \in BestAffordable(i, Expansion)
      PROVE  \E d \in BestAffordable(i, kept) : objective_fn(d) = objective_fn(c)
  <2>1. Can(c, Expansion) /\ \A d : Can(d, Expansion) => objective_fn(d) <= objective_fn(c)
    BY <1>2
  <2>2. PICK d \in kept : Can(d, kept) /\ objective_fn(d) >= objective_fn(c)
    BY <1>4, <2>1
  <2>3. objective_fn(d) = objective_fn(c)
    <3>1. objective_fn(d) <= objective_fn(c)
      BY <1>5, <2>1, <2>2
    <3>2. objective_fn(d) \in Int /\ objective_fn(c) \in Int
      BY <1>3, <1>6, <2>1
    <3> QED
      BY <2>2, <3>1, <3>2
  <2>4. d \in BestAffordable(i, kept)
    BY <1>2, <1>5, <2>1, <2>2, <2>3
  <2> QED
    BY <2>3, <2>4
<1> QED
  BY <1>7, <1>8

\* Each building's best among `from` has its equal among `to`, and neither has one where
\* the other has none.
Matched(from, to) ==
    \A i \in Ids :
        /\ \A c \in BestAffordable(i, from) :
               \E d \in BestAffordable(i, to) : objective_fn(d) = objective_fn(c)
        /\ BestAffordable(i, from) = {} => BestAffordable(i, to) = {}

LEMMA MatchedBothWays ==
    ASSUME Contract, Expands, request.budget >= 0,
           NEW kept \in SUBSET Expansion, \A c \in Expansion : \E d \in kept : AsGood(d, c)
    PROVE  Matched(Expansion, kept) /\ Matched(kept, Expansion)
<1>1. \A i \in Ids :
          /\ BestAffordable(i, kept) \subseteq BestAffordable(i, Expansion)
          /\ \A c \in BestAffordable(i, Expansion) : \E d \in BestAffordable(i, kept) :
                  objective_fn(d) = objective_fn(c)
  BY BestIsKept
<1> QED
  BY <1>1 DEF Matched

\* Two allocations that fund the same buildings with options worth the same.
LEMMA WorthTheSame ==
    ASSUME NEW s, NEW t, Alike(s, t),
           \A i \in Ids : s[i] # None => objective_fn(s[i]) = objective_fn(t[i])
    PROVE  Value(s) = Value(t)
<1>1. [i \in Ids |-> IF s[i] = None THEN 0 ELSE objective_fn(s[i])]
          = [i \in Ids |-> IF t[i] = None THEN 0 ELSE objective_fn(t[i])]
  BY DEF Alike
<1> QED
  BY <1>1 DEF Value, Over

LEMMA SplitsKeepUp ==
    ASSUME Contract, Expands, NEW from \in SUBSET Expansion, NEW to \in SUBSET Expansion,
           Matched(from, to), NEW kept \in equal_split(from)
    PROVE  \E other \in equal_split(to) : Value(other) = Value(kept)
<1> DEFINE offers(X) == UNION { BestAffordable(i, X) : i \in Ids }
<1>1. PICK s \in Shares(from) :
          kept \in Selections(Picks(s)) /\ WithinCap(kept) /\ Capped(s, kept)
  BY DEF equal_split
<1>2. /\ s \in Selections(offers(from))
      /\ \A i \in Ids : s[i] = None => BestAffordable(i, from) = {}
  BY <1>1 DEF Shares
<1>3. \A X : \A i \in Ids : \A c \in BestAffordable(i, X) :
          c \in X /\ c.building_id = i /\ c \in offers(X)
  BY DEF BestAffordable, OptionsOf
<1>4. \A X : \A c \in offers(X) : \E i \in Ids : c \in BestAffordable(i, X)
  OBVIOUS
<1> HIDE DEF offers
<1>5. ASSUME NEW i \in Ids, s[i] # None
      PROVE  s[i] \in BestAffordable(i, from) /\ s[i] \in Expansion /\ s[i].building_id = i
  <2>1. s[i] \in offers(from) /\ s[i].building_id = i
    BY <1>2, <1>5 DEF Selections
  <2> QED
    BY <1>3, <1>4, <2>1
<1> DEFINE Equiv(i) == CHOOSE d \in BestAffordable(i, to) : objective_fn(d) = objective_fn(s[i])
           t     == [i \in Ids |-> IF s[i] = None THEN None ELSE Equiv(i)]
           other == [i \in Ids |-> IF kept[i] = None THEN None ELSE t[i]]
<1>6. ASSUME NEW i \in Ids, s[i] # None
      PROVE  /\ t[i] \in BestAffordable(i, to) /\ objective_fn(t[i]) = objective_fn(s[i])
             /\ t[i] # None /\ t[i] \in Expansion /\ t[i].building_id = i
             /\ t[i] \in offers(to)
  <2>1. \E d \in BestAffordable(i, to) : objective_fn(d) = objective_fn(s[i])
    BY <1>5, <1>6 DEF Matched
  <2>2. t[i] \in BestAffordable(i, to) /\ objective_fn(t[i]) = objective_fn(s[i])
    BY <1>6, <2>1
  <2>3. t[i] \in Expansion /\ t[i].building_id = i /\ t[i] \in offers(to)
    BY <1>3, <2>2
  <2>4. IsOption(t[i])
    BY <2>3, ExpansionYieldsOptions
  <2> QED
    BY <2>2, <2>3, <2>4 DEF IsOption
<1>7. t \in [Ids -> {None} \cup offers(to)] /\ \A i \in Ids : s[i] = None => t[i] = None
  BY <1>6
<1> HIDE DEF t
<1>8. t \in Shares(to)
  <2>1. t \in Selections(offers(to))
    BY <1>6, <1>7 DEF Selections
  <2>2. \A i \in Ids : t[i] = None => BestAffordable(i, to) = {}
    BY <1>2, <1>6 DEF Matched
  <2> QED
    BY <2>1, <2>2 DEF Shares, offers
<1>9. ASSUME NEW i \in Ids
      PROVE  /\ kept[i] = s[i] \/ kept[i] = None
             /\ other[i] = IF kept[i] = None THEN None ELSE t[i]
  BY <1>1 DEF Capped
<1>10. other \in [Ids -> {None} \cup Picks(t)]
  BY <1>6, <1>9 DEF Picks
<1> HIDE DEF other
<1>11. other \in Selections(Picks(t))
  BY <1>6, <1>9, <1>10 DEF Selections
<1>12. /\ kept \in Selections(Expansion) /\ other \in Selections(Expansion)
       /\ s \in Selections(Expansion) /\ t \in Selections(Expansion)
  <2>1. kept \in [Ids -> {None} \cup Expansion]
    BY <1>1, <1>5, <1>9 DEF Selections
  <2>2. s \in [Ids -> {None} \cup Expansion]
    BY <1>2, <1>5 DEF Selections
  <2>3. t \in [Ids -> {None} \cup Expansion]
    BY <1>6, <1>7
  <2>4. other \in [Ids -> {None} \cup Expansion]
    BY <1>6, <1>9, <1>10
  <2> QED
    BY <1>5, <1>6, <1>7, <1>9, <2>1, <2>2, <2>3, <2>4 DEF Selections
<1>13. Alike(kept, other) /\ Alike(s, t)
  BY <1>6, <1>7, <1>9 DEF Alike
<1>14. \A d : Funded(kept, d) = Funded(other, d)
  BY <1>12, <1>13, AlikeFundsAlike
<1>15. /\ \A i \in Ids : s[i] # None => s[i].district = t[i].district
       /\ \A i \in Ids : kept[i] # None => kept[i].district = other[i].district
  BY <1>12, <1>13, AlikeFundsAlike
<1>16. WithinCap(other)
  BY <1>1, <1>14 DEF WithinCap
<1>17. Capped(t, other)
  <2> SUFFICES ASSUME NEW i \in Ids, other[i] # t[i]
               PROVE  /\ other[i] = None /\ request.cap # NoCap
                      /\ Funded(other, t[i].district) = request.cap
                      /\ \A c \in Picks(other) :
                             c.district = t[i].district => objective_fn(c) >= objective_fn(t[i])
    BY DEF Capped
  <2>1. kept[i] = None /\ other[i] = None /\ s[i] # None
    BY <1>7, <1>9
  <2>2. /\ request.cap # NoCap /\ Funded(kept, s[i].district) = request.cap
        /\ \A c \in Picks(kept) :
               c.district = s[i].district => objective_fn(c) >= objective_fn(s[i])
    BY <1>1, <2>1 DEF Capped
  <2>3. s[i].district = t[i].district /\ objective_fn(t[i]) = objective_fn(s[i])
    BY <1>6, <1>15, <2>1
  <2>4. Funded(other, t[i].district) = request.cap
    BY <1>14, <2>2, <2>3
  <2>5. ASSUME NEW c \in Picks(other), c.district = t[i].district
        PROVE  objective_fn(c) >= objective_fn(t[i])
    <3>1. PICK k \in Ids : c = other[k] /\ other[k] # None
      BY DEF Picks
    <3>2. kept[k] # None /\ kept[k] = s[k] /\ other[k] = t[k] /\ s[k] # None
      BY <1>9, <3>1
    <3>3. kept[k] \in Picks(kept) /\ kept[k].district = s[i].district
      BY <1>15, <2>3, <2>5, <3>1, <3>2 DEF Picks
    <3>4. objective_fn(kept[k]) >= objective_fn(s[i])
      BY <2>2, <3>3
    <3>5. objective_fn(t[k]) = objective_fn(s[k])
      BY <1>6, <3>2
    <3> QED
      BY <2>3, <3>1, <3>2, <3>4, <3>5
  <2> QED
    BY <2>1, <2>2, <2>4, <2>5
<1>18. other \in equal_split(to)
  BY <1>8, <1>11, <1>16, <1>17 DEF equal_split
<1>19. Value(kept) = Value(other)
  <2>1. \A i \in Ids : kept[i] # None => objective_fn(kept[i]) = objective_fn(other[i])
    BY <1>6, <1>9
  <2> QED
    BY <1>13, <2>1, WorthTheSame
<1> QED
  BY <1>18, <1>19

\* Pruning changes neither the best plan of the exact solver nor what equal split gives,
\* for any candidate set, budget and cap, whichever of two equal options it keeps.
THEOREM PruningIsSafe == Spec => []PruneSafe
<1>1. PlannerInv => PruneSafe
  <2> SUFFICES ASSUME PlannerInv, phase \in {"cpsat", "split"}
               PROVE  /\ Best(Programme(all)) = Best(Programme(options))
                      /\ { Value(s) : s \in equal_split(all) }
                              = { Value(s) : s \in equal_split(options) }
    BY DEF PruneSafe
  <2>1. /\ Contract /\ Expands /\ all = Expansion /\ request.budget >= 0
        /\ options \in SUBSET Expansion
        /\ \A c \in Expansion : \E d \in options : AsGood(d, c)
    BY DEF PlannerInv, StageInv, Decided
  <2>2. Best(Programme(all)) = Best(Programme(options))
    BY <2>1, PruningKeepsTheBest
  <2>3. Matched(Expansion, options) /\ Matched(options, Expansion)
    BY <2>1, MatchedBothWays
  <2>4. \A s \in equal_split(Expansion) : \E t \in equal_split(options) : Value(t) = Value(s)
    BY <2>1, <2>3, SplitsKeepUp
  <2>5. \A s \in equal_split(options) : \E t \in equal_split(Expansion) : Value(t) = Value(s)
    BY <2>1, <2>3, SplitsKeepUp
  <2> QED
    BY <2>1, <2>2, <2>4, <2>5
<1> QED
  BY <1>1, PlannerInitInv, PlannerStepInv, PTL DEF Spec

\* No two rows of a catalogue share their id.
LEMMA RowsHaveIds ==
    ASSUME NEW catalog, IsFiniteSet(catalog), valid_catalog(catalog)
    PROVE  \A iv, jv \in catalog : iv.id = jv.id => iv = jv
<1> DEFINE T == { iv.id : iv \in catalog }
           f == [iv \in catalog |-> iv.id]
<1>1. f \in Surjection(catalog, T)
  BY DEF Surjection
<1>2. Cardinality(T) = Cardinality(catalog)
  BY DEF valid_catalog
<1>3. f \in Injection(catalog, T)
  <2> HIDE DEF f, T
  <2> QED
    BY <1>1, <1>2, FS_Surjection
<1>4. \A iv, jv \in catalog : f[iv] = f[jv] => iv = jv
  <2> HIDE DEF f, T
  <2> QED
    BY <1>3 DEF Injection, IsInjective
<1> QED
  BY <1>4

\* A contract that comes through both validations, with rules that can be read, a bucket
\* for every building a row applies to, a row of shares for every occupancy and a guard
\* that is not below the ceiling, expands.
LEMMA OnlyDataRaises ==
    ASSUME Contract, ~Expands
    PROVE  \/ cross_validate(scene.catalog, scene.params) # {}
           \/ \E b \in scene.buildings, iv \in scene.catalog :
                 Unreadable(iv, b) \/ (applies(iv, b) /\ NoBucket(b, iv, scene.params))
           \/ \E b \in scene.buildings :
                 b.occupancy_pattern \notin DOMAIN scene.params.end_use_share
           \/ scene.params.max_building_saving_frac < scene.params.cap_total_saving_frac
<1>0. PICK p : p = scene.params
  OBVIOUS
<1>u. SUFFICES ASSUME \A b \in scene.buildings, iv \in scene.catalog : ~Unreadable(iv, b)
               PROVE  \/ cross_validate(scene.catalog, p) # {}
                      \/ \E b \in scene.buildings, iv \in scene.catalog :
                            applies(iv, b) /\ NoBucket(b, iv, p)
                      \/ \E b \in scene.buildings :
                            b.occupancy_pattern \notin DOMAIN p.end_use_share
                      \/ p.max_building_saving_frac < p.cap_total_saving_frac
  BY <1>0
<1>1. PICK b \in scene.buildings : \E combo \in combinations(b, scene.catalog, p) :
          \/ \E iv \in combo : Unknown(b, iv, p)
          \/ ~physically_possible(b, bundle_saving_kwh(b, combo, p), p)
  BY <1>0, <1>u DEF Expands, Raises
<1>2. PICK combo \in combinations(b, scene.catalog, p) :
          \/ \E iv \in combo : Unknown(b, iv, p)
          \/ ~physically_possible(b, bundle_saving_kwh(b, combo, p), p)
  BY <1>1
<1>3. valid_building(b) /\ valid_params(p)
  BY <1>0, ScenesAssumption DEF Contract
<1>4. combo \subseteq scene.catalog /\ \A iv \in combo : applies(iv, b)
  BY DEF combinations, applicable_interventions
<1>5. ASSUME NEW iv \in combo, Unknown(b, iv, p)
      PROVE  \/ cross_validate(scene.catalog, p) # {}
             \/ NoBucket(b, iv, p)
             \/ b.occupancy_pattern \notin DOMAIN p.end_use_share
  <2>1. iv \in scene.catalog
    BY <1>4
  <2>2. CASE iv.end_use = "generation"
    <3>1. b.roof_orientation \in Orientation \ DOMAIN p.orientation_factor
      BY <1>3, <1>5, <2>2 DEF Unknown, valid_building
    <3> QED
      BY <3>1 DEF cross_validate
  <2>3. CASE iv.end_use # "generation" /\ iv.adj_key # "" /\ iv.adj_key \notin DOMAIN p.adj
    <3>1. iv.id \in cross_validate(scene.catalog, p)
      BY <2>1, <2>3 DEF cross_validate
    <3> QED
      BY <3>1
  <2>4. CASE /\ iv.end_use # "generation" /\ b.occupancy_pattern \in DOMAIN p.end_use_share
             /\ iv.end_use \notin DOMAIN p.end_use_share[b.occupancy_pattern]
    <3>1. iv.id \in cross_validate(scene.catalog, p)
      BY <2>1, <2>4 DEF cross_validate
    <3> QED
      BY <3>1
  <2> QED
    BY <1>5, <2>2, <2>3, <2>4 DEF Unknown, NoShare
<1>6. ASSUME \A iv \in combo : ~Unknown(b, iv, p)
      PROVE  p.max_building_saving_frac < p.cap_total_saving_frac
  <2>1. PICK kwh : kwh = bundle_saving_kwh(b, combo, p)
    OBVIOUS
  <2>2. Bundle(b, combo, p)
    BY <1>0, <1>6, CombinationsAreBundles
  <2>3. kwh \in Int /\ kwh <= Ceiling(b, p)
    <3>1. PICK alone : alone = [iv \in combo |-> bundle_saving_kwh(b, {iv}, p)]
      OBVIOUS
    <3>2. \A iv \in combo : alone[iv] = bundle_saving_kwh(b, {iv}, p)
      BY <3>1
    <3> QED
      BY <2>1, <2>2, <3>2, BundleCombines
  <2>4. PICK n, u \in Nat : n = b.annual_kwh /\ u = KU \div One
    BY <1>3, UnitsArePositive DEF valid_building, Positive
  <2>5. PICK cap, guard \in Int :
            cap = p.cap_total_saving_frac /\ guard = p.max_building_saving_frac
    BY <1>3 DEF valid_params
  <2>6. ~ (kwh <= n * guard * u)
    BY <1>2, <1>6, <2>1, <2>4, <2>5 DEF physically_possible
  <2>7. kwh <= n * cap * u
    BY <2>3, <2>4, <2>5 DEF Ceiling
  <2>8. cap <= guard => n * cap * u <= n * guard * u
    <3>1. cap <= guard => n * cap <= n * guard
      BY <2>4, <2>5
    <3>2. PICK x, y \in Int : x = n * cap /\ y = n * guard
      BY <2>4, <2>5
    <3>3. x <= y => x * u <= y * u
      BY <2>4, <3>2
    <3> QED
      BY <3>1, <3>2, <3>3
  <2>9. n * cap * u \in Int /\ n * guard * u \in Int
    BY <2>4, <2>5
  <2> QED
    BY <2>3, <2>5, <2>6, <2>7, <2>8, <2>9
<1> QED
  BY <1>2, <1>4, <1>5, <1>6

\* For every portfolio, catalogue and contract: a bundle saves no less than any member
\* and no more than all of them, less where two act on one end use; and a contract that
\* passed the validation fails only at a rule it cannot read, where it has nothing for a
\* building, or because its guard is below its ceiling.
THEOREM BundlesStayHonest == Spec => []BundlesHonest
<1>1. PlannerInv => BundlesHonest
  <2>1. ASSUME PlannerInv, phase = "prune", NEW c \in all,
               \A iv \in Members(c) : Alone(c, iv) >= 0
        PROVE  /\ \A iv \in Members(c) : Alone(c, iv) <= c.annual_kwh_saving
               /\ LET sum == Total(LAMBDA iv : Alone(c, iv), Members(c))
                  IN  /\ c.annual_kwh_saving <= sum
                      /\ Overlapping(c) => c.annual_kwh_saving < sum
    <3>1. Contract /\ Expands /\ c \in Expansion
      BY <2>1 DEF PlannerInv, StageInv
    <3>2. PICK b \in scene.buildings, combo \in SUBSET scene.catalog :
              Bundle(b, combo, scene.params) /\ c = CandidateOf(b, combo, scene.params)
      BY <3>1, OptionsAreBundles
    <3>3. /\ c.building_id = b.id /\ c.intervention_ids = { iv.id : iv \in combo }
          /\ c.annual_kwh_saving = bundle_saving_kwh(b, combo, scene.params)
      BY <3>2 DEF CandidateOf
    <3>4. Site(c) = b
      <4>1. \A d \in scene.buildings : d.id = b.id => d = b
        BY <3>1, ScenesAssumption DEF Contract
      <4> QED
        BY <3>3, <4>1 DEF Site
    <3>5. Members(c) = combo
      <4>1. \A iv, jv \in scene.catalog : iv.id = jv.id => iv = jv
        BY <3>1, ScenesAssumption, RowsHaveIds DEF Contract
      <4> QED
        BY <3>3, <4>1 DEF Members
    <3>6. PICK alone : alone = [iv \in Members(c) |-> Alone(c, iv)]
      OBVIOUS
    <3>7. \A iv \in combo : /\ alone[iv] = bundle_saving_kwh(b, {iv}, scene.params)
                            /\ alone[iv] = Alone(c, iv) /\ alone[iv] >= 0
      BY <2>1, <3>4, <3>5, <3>6 DEF Alone
    <3>8. Total(LAMBDA iv : Alone(c, iv), Members(c)) = Sum(alone, combo)
      BY <3>5, <3>6 DEF Total, SumFunction, Sum
    <3>9. LET s == bundle_saving_kwh(b, combo, scene.params)
          IN  /\ \A iv \in combo : alone[iv] <= s
              /\ s <= Sum(alone, combo)
              /\ (\E iv, jv \in combo :
                     /\ iv # jv /\ iv.end_use = jv.end_use /\ iv.end_use # "generation"
                     /\ alone[iv] > 0 /\ alone[jv] > 0)
                 => s < Sum(alone, combo)
      BY <3>2, <3>7, BundleCombines
    <3> QED
      BY <3>3, <3>5, <3>7, <3>8, <3>9 DEF Overlapping
  <2>2. ASSUME PlannerInv, phase = "failed"
        PROVE  \/ cross_validate(scene.catalog, scene.params) # {}
               \/ \E b \in scene.buildings, iv \in scene.catalog :
                     Unreadable(iv, b) \/ (applies(iv, b) /\ NoBucket(b, iv, scene.params))
               \/ \E b \in scene.buildings :
                     b.occupancy_pattern \notin DOMAIN scene.params.end_use_share
               \/ scene.params.max_building_saving_frac < scene.params.cap_total_saving_frac
    BY <2>2, OnlyDataRaises DEF PlannerInv, StageInv
  <2> QED
    BY <2>1, <2>2 DEF BundlesHonest
<1> QED
  BY <1>1, PlannerInitInv, PlannerStepInv, PTL DEF Spec
=============================================================================
