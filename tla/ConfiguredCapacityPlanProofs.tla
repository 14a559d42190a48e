-------------------- MODULE ConfiguredCapacityPlanProofs --------------------
(***************************************************************************)
(* planConfiguredCapacity for every number of slots, dimensions, profiles  *)
(* and ceilings: the loop computes the closed form that the scheduler's    *)
(* model uses, refuses only when nothing could make room, and cuts no more *)
(* than it must.                                                           *)
(***************************************************************************)
EXTENDS ConfiguredCapacityPlan, SumTheorems

-----------------------------------------------------------------------------
(* The arithmetic of one reduction. *)

\* A product of natural numbers grows with its factors.
LEMMA ProductGrows ==
    ASSUME NEW k \in Nat, NEW m \in Int, NEW n \in Int, m <= n
    PROVE  k * m \in Int /\ k * n \in Int /\ k * m <= k * n
<1>1. k * (n - m) >= 0 /\ k * (n - m) = k * n - k * m
  OBVIOUS
<1> QED BY <1>1

\* The quotient rounded up is the least number of units that covers the deficit.
LEMMA CeilDivCovers ==
    ASSUME NEW n \in Int, n > 0, NEW k \in Nat \ {0}
    PROVE  /\ CeilDiv(n, k) \in Nat \ {0}
           /\ k * CeilDiv(n, k) >= n
           /\ k * (CeilDiv(n, k) - 1) < n
<1> DEFINE m == n + k - 1
           q == m \div k
           r == m % k
<1>1. m \in Nat /\ q \in Int /\ r \in 0 .. (k - 1) /\ m = k * q + r
  OBVIOUS
<1>2. q >= 1
  <2>1. m >= k
    OBVIOUS
  <2> HIDE DEF m, q, r
  <2>2. k * q >= 1
    BY <1>1, <2>1
  <2>3. q <= 0 => k * q <= k * 0
    BY <1>1, ProductGrows
  <2> QED BY <1>1, <2>2, <2>3
<1>3. k * (q - 1) = k * q - k
  BY <1>1
<1>4. CeilDiv(n, k) = q
  BY DEF CeilDiv
<1> HIDE DEF q, r
<1> QED BY <1>1, <1>2, <1>3, <1>4

Deficit(c) == [d \in Dimensions |-> c[d] - Limit[d]]
LeastUnits(c, p) == ReductionUnitsNeeded(Deficit(c), Resources[p])
Less(c, p, n) == [d \in Dimensions |-> c[d] - Resources[p][d] * n]

\* reductionUnitsNeeded is the least number of instances of a shape to be given up.
LEMMA UnitsNeeded ==
    ASSUME NEW c \in [Dimensions -> Int], NEW p \in Profiles
    PROVE  /\ LeastUnits(c, p) \in Nat
           /\ FitsConfiguredCapacity(c) <=> LeastUnits(c, p) = 0
           /\ FitsConfiguredCapacity(Less(c, p, LeastUnits(c, p)))
           /\ \A m \in Nat : m < LeastUnits(c, p) => ~FitsConfiguredCapacity(Less(c, p, m))
<1> DEFINE short == {e \in Dimensions : Deficit(c)[e] > 0}
           units == [d \in short |-> CeilDiv(Deficit(c)[d], Resources[p][d])]
           needs == {0} \cup {units[d] : d \in short}
           n == LeastUnits(c, p)
<1>1. \A d \in Dimensions : /\ Resources[p][d] \in Nat \ {0} /\ Limit[d] \in Nat /\ c[d] \in Int
                            /\ Deficit(c)[d] = c[d] - Limit[d]
  BY PolicyAssumption DEF Deficit
<1>2. \A d \in short : /\ units[d] \in Nat \ {0}
                       /\ Resources[p][d] * units[d] >= Deficit(c)[d]
                       /\ Resources[p][d] * (units[d] - 1) < Deficit(c)[d]
  BY <1>1, CeilDivCovers
<1>3. needs \in SUBSET Int /\ IsFiniteSet(needs) /\ needs # {}
  <2>1. IsFiniteSet(short)
    BY PolicyAssumption, FS_Subset
  <2>2. IsFiniteSet({units[d] : d \in short})
    <3> HIDE DEF units, short
    <3> QED BY <2>1, ImageIsFinite
  <2>3. needs = {units[d] : d \in short} \cup {0}
    OBVIOUS
  <2>4. IsFiniteSet(needs)
    <3> HIDE DEF needs, units, short
    <3> QED BY <2>2, <2>3, FS_AddElement
  <2>5. \A d \in short : units[d] \in Int
    <3> HIDE DEF units, short
    <3> QED BY <1>2
  <2> HIDE DEF units, short
  <2> QED BY <2>4, <2>5
<1>4. n = Max(needs)
  <2>1. {CeilDiv(Deficit(c)[d], Resources[p][d]) : d \in short} = {units[d] : d \in short}
    OBVIOUS
  <2> QED BY <2>1 DEF LeastUnits, ReductionUnitsNeeded
<1>5. n \in needs /\ \A y \in needs : n >= y
  <2> HIDE DEF needs, n
  <2> QED BY <1>3, <1>4, MaxIsGreatest
<1> HIDE DEF n, units
<1>6. n \in Nat /\ \A d \in short : n >= units[d]
  BY <1>2, <1>5
<1>7. FitsConfiguredCapacity(c) <=> short = {}
  BY <1>1 DEF FitsConfiguredCapacity
<1>8. short = {} <=> n = 0
  BY <1>2, <1>5, <1>6
<1>9. FitsConfiguredCapacity(Less(c, p, n))
  <2>1. ASSUME NEW d \in Dimensions PROVE c[d] - Resources[p][d] * n <= Limit[d]
    <3> DEFINE k == Resources[p][d]
    <3>1. k \in Nat /\ k * n \in Int /\ c[d] \in Int /\ Limit[d] \in Int
      BY <1>1, <1>6, ProductGrows
    <3>2. CASE d \in short
      <4>1. k * units[d] <= k * n
        BY <1>2, <1>6, <3>1, <3>2, ProductGrows
      <4>2. k * units[d] >= c[d] - Limit[d] /\ k * units[d] \in Int
        BY <1>1, <1>2, <1>6, <3>1, <3>2, ProductGrows
      <4> HIDE DEF k
      <4> QED BY <3>1, <4>1, <4>2 DEF k
    <3>3. CASE d \notin short
      <4>1. c[d] <= Limit[d] /\ k * 0 <= k * n /\ k * 0 = 0
        BY <1>1, <1>6, <3>1, <3>3, ProductGrows
      <4> HIDE DEF k
      <4> QED BY <3>1, <4>1 DEF k
    <3> QED BY <3>2, <3>3
  <2> QED BY <2>1 DEF FitsConfiguredCapacity, Less
<1>10. ASSUME NEW m \in Nat, m < n PROVE ~FitsConfiguredCapacity(Less(c, p, m))
  <2>1. PICK d \in short : n = units[d]
    BY <1>5, <1>6, <1>10
  <2> DEFINE k == Resources[p][d]
  <2>2. /\ k \in Nat /\ k * m \in Int /\ k * (n - 1) \in Int /\ k * m <= k * (n - 1)
    BY <1>1, <1>6, <1>10, ProductGrows
  <2>3. k * (n - 1) < c[d] - Limit[d] /\ c[d] \in Int /\ Limit[d] \in Int
    BY <1>1, <1>2, <2>1
  <2> HIDE DEF k
  <2>4. ~(c[d] - k * m <= Limit[d])
    BY <2>2, <2>3
  <2> QED BY <2>4 DEF FitsConfiguredCapacity, Less, k
<1> QED BY <1>6, <1>7, <1>8, <1>9, <1>10 DEF n

-----------------------------------------------------------------------------
(* The order of the donors. *)

Before(s, t) == DonorBefore(releasedBefore, s, t)

LEMMA DonorsAreOrdered ==
    ASSUME releasedBefore \in ReleaseOrders, NEW s \in Slots, NEW t \in Slots
    PROVE  /\ ~Before(s, s)
           /\ Before(s, t) => ~Before(t, s)
           /\ s # t => Before(s, t) \/ Before(t, s)
<1>1. SlotRank[s] \in Nat /\ SlotRank[t] \in Nat /\ (SlotRank[s] = SlotRank[t] => s = t)
  BY PolicyAssumption
<1>2. CASE releasedBefore = {}
  BY <1>1, <1>2 DEF Before, DonorBefore
<1>3. CASE releasedBefore # {}
  <2>1. PICK rank \in [Slots -> 1 .. Cardinality(Slots)] :
          /\ \A u, v \in Slots : rank[u] = rank[v] => u = v
          /\ releasedBefore = {p \in Slots \X Slots : rank[p[1]] < rank[p[2]]}
    BY <1>3 DEF ReleaseOrders
  <2>2. Cardinality(Slots) \in Nat
    BY PolicyAssumption, FS_CardinalityType
  <2>3. rank[s] \in Nat /\ rank[t] \in Nat /\ (rank[s] = rank[t] => s = t)
    BY <2>1, <2>2
  <2>4. /\ <<s, t>> \in releasedBefore <=> rank[s] < rank[t]
        /\ <<t, s>> \in releasedBefore <=> rank[t] < rank[s]
        /\ <<s, s>> \notin releasedBefore
    BY <2>1, <2>3
  <2> QED BY <1>1, <2>3, <2>4 DEF Before, DonorBefore
<1> QED BY <1>2, <1>3

-----------------------------------------------------------------------------
(* The closed form, in terms of what each donor gives. *)

Input ==
    /\ slots \in [Slots -> Rows]
    /\ releasedBefore \in ReleaseOrders
    /\ target \in Slots
    /\ profile \in Profiles
    /\ instances \in 1 .. MaxInstances

AllDonors == Donors(slots, target)
Start == ConfiguredWith(slots, target, profile, instances)
Given(s) == Reduction(slots, releasedBefore, target, profile, instances, s)
Whole(s) == slots[s].applied - 1

\* What the donors of S give in dimension d, when each gives its share of amount.
Cut(amount, S, d) ==
    SumFunctionOnSet([s \in S |-> Resources[slots[s].profile][d] * amount[s]], S)
Remaining(amount, S) == [d \in Dimensions |-> Start[d] - Cut(amount, S, d)]

Gifts == [s \in AllDonors |-> Given(s)]
Wholes == [s \in AllDonors |-> Whole(s)]
Earlier(s) == {t \in AllDonors : Before(t, s)}

LEMMA RowsType ==
    ASSUME Input, NEW s \in Slots
    PROVE  /\ slots[s].profile \in Profiles \cup {None}
           /\ slots[s].applied \in 1 .. MaxInstances /\ slots[s].applied \in Nat \ {0}
<1>1. slots[s] \in Rows
  BY DEF Input
<1>2. MaxInstances \in 1 .. MaxInstances /\ 1 .. MaxInstances \subseteq Nat \ {0}
  BY PlanAssumption DEF Input
<1>3. slots[s].profile \in Profiles \cup {None} /\ slots[s].applied \in (1 .. MaxInstances) \cup {MaxInstances}
  BY <1>1 DEF Rows
<1> QED BY <1>2, <1>3

LEMMA DonorType ==
    ASSUME Input, NEW s \in AllDonors
    PROVE  /\ s \in Slots /\ s # target /\ slots[s].profile \in Profiles
           /\ slots[s].applied \in 1 .. MaxInstances /\ Whole(s) \in Nat \ {0}
           /\ \A d \in Dimensions : Resources[slots[s].profile][d] \in Nat \ {0}
<1>1. /\ s \in Slots /\ s # target /\ slots[s].profile # None /\ slots[s].applied > 1
  BY DEF AllDonors, Donors
<1>2. /\ slots[s].profile \in Profiles
      /\ slots[s].applied \in 1 .. MaxInstances /\ slots[s].applied \in Nat
  BY <1>1, RowsType
<1> QED BY <1>1, <1>2, PolicyAssumption DEF Whole

LEMMA DonorsAreFinite ==
    ASSUME NEW S \in SUBSET AllDonors
    PROVE  IsFiniteSet(S)
BY PolicyAssumption, FS_Subset DEF AllDonors, Donors

LEMMA CutType ==
    ASSUME Input, NEW S \in SUBSET AllDonors, NEW amount, \A s \in S : amount[s] \in Int, NEW d \in Dimensions
    PROVE  Cut(amount, S, d) \in Int
<1> DEFINE f == [s \in S |-> Resources[slots[s].profile][d] * amount[s]]
<1>1. \A s \in S : f[s] \in Int
  BY DonorType
<1> HIDE DEF f
<1>2. SumFunctionOnSet(f, S) \in Int
  BY <1>1, DonorsAreFinite, SumType
<1> QED BY <1>2 DEF Cut, f

LEMMA StartType ==
    ASSUME Input
    PROVE  Start \in [Dimensions -> Int]
<1> DEFINE others == Shaped(slots) \ {target}
           f(d) == [s \in others |-> Resources[slots[s].profile][d] * slots[s].applied]
<1>1. IsFiniteSet(others)
  BY PolicyAssumption, FS_Subset DEF Shaped
<1>2. ASSUME NEW d \in Dimensions
      PROVE  SumFunctionOnSet(f(d), others) + Resources[profile][d] * instances \in Int
  <2>1. \A s \in others : f(d)[s] \in Int
    <3>1. ASSUME NEW s \in others PROVE slots[s].profile \in Profiles /\ slots[s].applied \in Nat
      BY RowsType DEF Shaped
    <3> QED BY <3>1, PolicyAssumption
  <2> HIDE DEF f
  <2>2. SumFunctionOnSet(f(d), others) \in Int
    BY <1>1, <2>1, SumType
  <2>3. Resources[profile][d] * instances \in Int
    BY PlanAssumption, PolicyAssumption DEF Input
  <2> QED BY <2>2, <2>3
<1>3. Start = [d \in Dimensions |-> SumFunctionOnSet(f(d), others) + Resources[profile][d] * instances]
  BY DEF Start, ConfiguredWith, Consumption, AddResources, MultiplyResources
<1> HIDE DEF f
<1> QED BY <1>2, <1>3

LEMMA RemainingType ==
    ASSUME Input, NEW S \in SUBSET AllDonors, NEW amount, \A s \in S : amount[s] \in Int
    PROVE  Remaining(amount, S) \in [Dimensions -> Int]
BY StartType, CutType DEF Remaining

\* One more donor gives.
LEMMA RemainingWith ==
    ASSUME Input, NEW S \in SUBSET AllDonors, NEW s \in AllDonors, s \notin S,
           NEW amount, \A t \in S \cup {s} : amount[t] \in Int
    PROVE  Remaining(amount, S \cup {s}) = Less(Remaining(amount, S), slots[s].profile, amount[s])
<1> DEFINE T == S \cup {s}
<1>1. ASSUME NEW d \in Dimensions
      PROVE  Cut(amount, T, d) = Resources[slots[s].profile][d] * amount[s] + Cut(amount, S, d)
  <2> DEFINE f == [t \in T |-> Resources[slots[t].profile][d] * amount[t]]
             g == [t \in S |-> Resources[slots[t].profile][d] * amount[t]]
  <2>1. \A t \in T : f[t] \in Int
    BY DonorType
  <2>2. IsFiniteSet(S) /\ \A t \in S : f[t] = g[t]
    BY DonorsAreFinite
  <2>3. f[s] = Resources[slots[s].profile][d] * amount[s]
    OBVIOUS
  <2> HIDE DEF f, g
  <2>4. SumFunctionOnSet(f, T) = f[s] + SumFunctionOnSet(f, S)
    BY <2>1, <2>2, SumWith
  <2>5. SumFunctionOnSet(f, S) = SumFunctionOnSet(g, S)
    BY <2>2, SumSame
  <2> QED BY <2>3, <2>4, <2>5 DEF Cut, f, g
<1>2. ASSUME NEW d \in Dimensions
      PROVE  Start[d] - Cut(amount, T, d)
               = (Start[d] - Cut(amount, S, d)) - Resources[slots[s].profile][d] * amount[s]
  <2>1. /\ Start[d] \in Int /\ Cut(amount, S, d) \in Int
        /\ Resources[slots[s].profile][d] * amount[s] \in Int
    BY StartType, CutType, DonorType
  <2> HIDE DEF T
  <2> QED BY <1>1, <2>1
<1> QED BY <1>2 DEF Remaining, Less

LEMMA RemainingSame ==
    ASSUME NEW S \in SUBSET AllDonors, NEW a, NEW b, \A s \in S : a[s] = b[s]
    PROVE  Remaining(a, S) = Remaining(b, S)
<1>1. ASSUME NEW d \in Dimensions PROVE Cut(a, S, d) = Cut(b, S, d)
  <2>1. [s \in S |-> Resources[slots[s].profile][d] * a[s]]
          = [s \in S |-> Resources[slots[s].profile][d] * b[s]]
    OBVIOUS
  <2> QED BY <2>1 DEF Cut
<1> QED BY <1>1 DEF Remaining

\* A donor sees what is left when those before it have given all they can.
LEMMA SeenIsRemaining ==
    ASSUME Input, NEW s \in AllDonors
    PROVE  SeenByDonor(slots, releasedBefore, target, profile, instances, s) = Remaining(Wholes, Earlier(s))
<1> DEFINE S == Earlier(s)
<1>1. ASSUME NEW d \in Dimensions
      PROVE  [t \in S |-> Resources[slots[t].profile][d] * (slots[t].applied - 1)]
               = [t \in S |-> Resources[slots[t].profile][d] * Wholes[t]]
  BY DEF Earlier, Wholes, Whole
<1> QED BY <1>1 DEF SeenByDonor, Earlier, Before, AllDonors, Consumption, Remaining, Cut, SubtractResources, Start

\* What it gives is the least that is needed, as far as it has it.
LEMMA GivenIsLeast ==
    ASSUME Input, NEW s \in AllDonors
    PROVE  LET seen == Remaining(Wholes, Earlier(s))
               needed == LeastUnits(seen, slots[s].profile)
           IN  /\ seen \in [Dimensions -> Int] /\ needed \in Nat
               /\ Given(s) \in Nat /\ Given(s) <= needed /\ Given(s) <= Whole(s)
               /\ Given(s) \in {needed, Whole(s)}
<1> DEFINE seen == Remaining(Wholes, Earlier(s))
           needed == LeastUnits(seen, slots[s].profile)
<1>1. Earlier(s) \in SUBSET AllDonors /\ \A t \in Earlier(s) : Wholes[t] \in Int
  BY DonorType DEF Earlier, Wholes
<1>2. seen \in [Dimensions -> Int] /\ needed \in Nat
  BY <1>1, RemainingType, DonorType, UnitsNeeded
<1>3. Given(s) = Min({needed, Whole(s)})
  <2>1. [d \in Dimensions |-> seen[d] - Limit[d]] = Deficit(seen)
    BY DEF Deficit
  <2> QED BY <2>1, SeenIsRemaining DEF Given, Reduction, LeastUnits, Whole
<1>4. Whole(s) \in Nat
  BY DonorType
<1> HIDE DEF seen, needed
<1> DEFINE least == Min({needed, Whole(s)})
<1>6. least \in {needed, Whole(s)} /\ least <= needed /\ least <= Whole(s)
  BY <1>2, <1>4, MinOfTwo
<1>7. Given(s) = least
  BY <1>3
<1> HIDE DEF least
<1>5. /\ Given(s) \in Nat /\ Given(s) <= needed /\ Given(s) <= Whole(s)
      /\ Given(s) \in {needed, Whole(s)}
  BY <1>2, <1>4, <1>6, <1>7
<1> QED BY <1>2, <1>5 DEF seen, needed

-----------------------------------------------------------------------------
(* The invariant of the loop. *)

Visited == AllDonors \ donors

\* The donors are visited in order, each one that is not the last gave all it
\* could, and what is configured and planned is what they gave.
Loop ==
    /\ Input
    /\ donors \in SUBSET AllDonors
    /\ \A v \in Visited, u \in donors : Before(v, u)
    /\ \A v \in Visited : Given(v) \in 1 .. Whole(v)
    /\ \A v \in Visited : (\E u \in Visited : Before(v, u)) => Given(v) = Whole(v)
    /\ configured = Remaining(Gifts, Visited)
    /\ ~FitsConfiguredCapacity(configured) => \A v \in Visited : Given(v) = Whole(v)
    /\ reductions = {[slot |-> v, target |-> slots[v].applied - Given(v)] : v \in Visited}
    /\ pc \in {"loop", "done"}
    /\ pc = "done" => FitsConfiguredCapacity(configured) \/ donors = {}

\* Nothing is cut before the first donor is visited.
LEMMA NothingGiven ==
    ASSUME Input, NEW amount
    PROVE  Remaining(amount, {}) = Start
<1>1. ASSUME NEW d \in Dimensions PROVE Start[d] - Cut(amount, {}, d) = Start[d]
  <2>1. Cut(amount, {}, d) = 0 /\ Start[d] \in Int
    BY SumOfNothing, StartType DEF Cut
  <2> QED BY <2>1
<1>2. Start = [d \in Dimensions |-> Start[d]]
  BY StartType
<1> QED BY <1>1, <1>2 DEF Remaining

LEMMA LoopStarts == Init => Loop
<1> SUFFICES ASSUME Init PROVE Loop
  OBVIOUS
<1>1. Input
  BY DEF Init, Input
<1>2. donors = AllDonors /\ Visited = {}
  BY DEF Init, AllDonors, Visited
<1>3. configured = Remaining(Gifts, Visited)
  BY <1>1, <1>2, NothingGiven DEF Init, Start
<1> QED BY <1>1, <1>2, <1>3 DEF Init, Loop

\* Where the loop is, the donors before the next are those it has visited.
LEMMA EarlierAreVisited ==
    ASSUME Loop, NEW s \in AllDonors, \A t \in donors \ {s} : Before(s, t),
           \A v \in Visited \ {s} : Before(v, s)
    PROVE  Earlier(s) = Visited \ {s}
<1>1. \A t \in AllDonors : t \in Slots
  BY DonorType DEF Loop
<1>2. ASSUME NEW t \in AllDonors PROVE t \in Earlier(s) <=> t \in Visited \ {s}
  <2>1. ~Before(s, s) /\ (Before(s, t) => ~Before(t, s))
    BY <1>1, DonorsAreOrdered DEF Loop, Input
  <2>2. t \in Visited \/ t \in donors
    BY DEF Visited
  <2> QED BY <2>1, <2>2 DEF Earlier, Visited, Loop
<1> QED BY <1>2 DEF Earlier, Visited

\* The loop does not change what it is given.
LEMMA InputIsFixed ==
    ASSUME UNCHANGED input
    PROVE  /\ Input' = Input /\ AllDonors' = AllDonors
           /\ \A s : Given(s)' = Given(s) /\ Whole(s)' = Whole(s)
           /\ \A s, t : Before(s, t)' = Before(s, t)
           /\ \A V : Visited' = V => Remaining(Gifts, Visited)' = Remaining(Gifts, V)
<1>1. Input' = Input /\ AllDonors' = AllDonors /\ Start' = Start
  BY DEF input, Input, AllDonors, Donors, Start, ConfiguredWith, AddResources, MultiplyResources,
         Consumption, Shaped, ReleaseOrders, Rows
<1>2. \A s : Given(s)' = Given(s) /\ Whole(s)' = Whole(s)
  BY DEF input, Given, Reduction, SeenByDonor, ConfiguredWith, Consumption, Donors, Whole
<1>3. \A s, t : Before(s, t)' = Before(s, t)
  BY DEF input, Before
<1>4. Gifts' = Gifts
  BY <1>1, <1>2 DEF Gifts
<1>5. ASSUME NEW V, Visited' = V PROVE Remaining(Gifts, Visited)' = Remaining(Gifts, V)
  BY <1>1, <1>4, <1>5 DEF input, Remaining, Cut
<1> QED BY <1>1, <1>2, <1>3, <1>5

\* While the total does not fit, everything visited is given whole.
LEMMA VisitKeepsLoop ==
    ASSUME Loop, Visit
    PROVE  Loop'
<1>1. PICK s \in donors :
        /\ \A other \in donors \ {s} : Before(s, other)
        /\ LET resources == Resources[slots[s].profile]
               needed == ReductionUnitsNeeded([d \in Dimensions |-> configured[d] - Limit[d]], resources)
               reduction == Min({slots[s].applied - 1, needed})
           IN  /\ configured' = SubtractResources(configured, MultiplyResources(resources, reduction))
               /\ reductions' = reductions \cup {[slot |-> s, target |-> slots[s].applied - reduction]}
        /\ donors' = donors \ {s}
  BY DEF Visit, Before
<1> DEFINE V == Visited
           p == slots[s].profile
           needed == LeastUnits(configured, p)
<1>2. /\ pc = "loop" /\ ~FitsConfiguredCapacity(configured)
      /\ slots' = slots /\ releasedBefore' = releasedBefore /\ target' = target
      /\ profile' = profile /\ instances' = instances /\ pc' = pc
  BY DEF Visit, input
<1>3. s \in AllDonors /\ s \notin V /\ V \in SUBSET AllDonors /\ Input
  BY DEF Loop, Visited
<1>4. \A v \in V : Given(v) = Whole(v)
  BY <1>2 DEF Loop
<1>5. configured = Remaining(Wholes, V)
  <2>1. \A v \in V : Gifts[v] = Wholes[v]
    BY <1>3, <1>4 DEF Gifts, Wholes
  <2> QED BY <1>3, <2>1, RemainingSame DEF Loop
<1>6. Earlier(s) = V
  <2>1. V = Visited \ {s}
    BY <1>3
  <2>2. \A v \in Visited \ {s} : Before(v, s)
    BY DEF Loop
  <2> QED BY <1>1, <1>3, <2>1, <2>2, EarlierAreVisited
<1>7. /\ configured \in [Dimensions -> Int] /\ needed \in Nat /\ p \in Profiles
      /\ Given(s) \in Nat /\ Given(s) <= needed /\ Given(s) <= Whole(s) /\ Given(s) \in {needed, Whole(s)}
      /\ Whole(s) \in Nat \ {0}
  BY <1>3, <1>5, <1>6, GivenIsLeast, DonorType
<1>8. needed # 0
  BY <1>2, <1>7, UnitsNeeded
<1>9. Given(s) \in 1 .. Whole(s)
  BY <1>7, <1>8
<1>10. Given(s) = Min({slots[s].applied - 1, ReductionUnitsNeeded([d \in Dimensions |-> configured[d] - Limit[d]], Resources[p])})
  <2>1. Given(s) = Min({needed, Whole(s)})
    BY <1>5, <1>6, <1>3, SeenIsRemaining DEF Given, Reduction, LeastUnits, Whole, Deficit
  <2>2. {needed, Whole(s)} = {Whole(s), needed}
    OBVIOUS
  <2>3. needed = ReductionUnitsNeeded([d \in Dimensions |-> configured[d] - Limit[d]], Resources[p])
    BY DEF LeastUnits, Deficit
  <2> HIDE DEF needed
  <2> QED BY <2>1, <2>2, <2>3 DEF Whole
<1>11. /\ configured' = SubtractResources(configured, MultiplyResources(Resources[p], Given(s)))
       /\ reductions' = reductions \cup {[slot |-> s, target |-> slots[s].applied - Given(s)]}
  BY <1>1, <1>10
<1>12. configured' = Less(configured, p, Given(s))
  <2>1. SubtractResources(configured, MultiplyResources(Resources[p], Given(s)))
          = Less(configured, p, Given(s))
    BY DEF SubtractResources, MultiplyResources, Less
  <2> QED BY <1>11, <2>1
<1>13. Visited' = V \cup {s}
  BY <1>1, <1>2, <1>3 DEF Visited, AllDonors, Loop
<1>14. configured' = Remaining(Gifts, V \cup {s})
  <2>1. \A v \in V \cup {s} : Gifts[v] = Given(v) /\ Given(v) \in Int
    BY <1>3, <1>4, <1>7, DonorType DEF Gifts
  <2>2. configured = Remaining(Gifts, V)
    BY DEF Loop
  <2> QED BY <1>3, <1>12, <2>1, <2>2, RemainingWith
<1>15. ~FitsConfiguredCapacity(configured') => Given(s) = Whole(s)
  BY <1>7, <1>12, UnitsNeeded
<1>16. \A v \in V, u \in donors : Before(v, u)
  BY DEF Loop
<1>17. \A u \in V \cup {s} : ~Before(s, u)
  <2>1. ASSUME NEW u \in V \cup {s} PROVE ~Before(s, u)
    <3>1. s \in Slots /\ u \in Slots /\ releasedBefore \in ReleaseOrders
      BY <1>3, DonorType DEF Input
    <3> QED BY <1>16, <3>1, DonorsAreOrdered
  <2> QED BY <2>1
<1>18. reductions' = {[slot |-> v, target |-> slots[v].applied - Given(v)] : v \in V \cup {s}}
  BY <1>11 DEF Loop
<1>19. Input' /\ AllDonors' = AllDonors /\ Remaining(Gifts, Visited)' = Remaining(Gifts, V \cup {s})
  BY <1>2, <1>3, <1>13, InputIsFixed DEF input
<1>20. \A u, v \in AllDonors : /\ Given(v)' = Given(v) /\ Whole(v)' = Whole(v)
                              /\ Before(u, v)' = Before(u, v)
  BY <1>2, InputIsFixed DEF input
<1> HIDE DEF V
<1>21. donors' \in SUBSET AllDonors /\ \A v \in V \cup {s}, u \in donors' : u \in AllDonors /\ v \in AllDonors /\ Before(v, u)
  BY <1>1, <1>3, <1>16 DEF Loop
<1>22. \A v \in V \cup {s} : Given(v) \in 1 .. Whole(v)
  BY <1>9 DEF Loop, V
<1>23. \A v \in V \cup {s} : (\E u \in V \cup {s} : Before(v, u)) => Given(v) = Whole(v)
  BY <1>4, <1>17
<1>24. ~FitsConfiguredCapacity(configured') => \A v \in V \cup {s} : Given(v) = Whole(v)
  BY <1>4, <1>15
<1>25. (reductions = {[slot |-> v, target |-> slots[v].applied - Given(v)] : v \in Visited})'
  BY <1>2, <1>3, <1>13, <1>18, <1>20
<1>26. FitsConfiguredCapacity(configured)' <=> FitsConfiguredCapacity(configured')
  BY DEF FitsConfiguredCapacity
<1> QED BY <1>2, <1>3, <1>13, <1>14, <1>19, <1>20, <1>21, <1>22, <1>23, <1>24, <1>25, <1>26 DEF Loop

LEMMA LoopContinues == Loop /\ [Next]_vars => Loop'
<1> SUFFICES ASSUME Loop, [Next]_vars PROVE Loop'
  OBVIOUS
<1>1. CASE Visit
  BY <1>1, VisitKeepsLoop
<1>2. ASSUME UNCHANGED <<input, configured, donors, reductions>>,
             pc' \in {"loop", "done"}, pc' = "done" => FitsConfiguredCapacity(configured) \/ donors = {}
      PROVE  Loop'
  <2>1. Visited' = Visited
    BY <1>2, InputIsFixed DEF Visited
  <2>2. /\ Input' /\ AllDonors' = AllDonors /\ Remaining(Gifts, Visited)' = Remaining(Gifts, Visited)
        /\ \A u, v : Given(v)' = Given(v) /\ Whole(v)' = Whole(v) /\ Before(u, v)' = Before(u, v)
    BY <1>2, <2>1, InputIsFixed DEF Loop
  <2>3. /\ configured' = configured /\ donors' = donors /\ reductions' = reductions /\ slots' = slots
        /\ FitsConfiguredCapacity(configured)' = FitsConfiguredCapacity(configured)
    BY <1>2 DEF input, FitsConfiguredCapacity
  <2>4. /\ \A v \in Visited, u \in donors : Before(v, u)
        /\ \A v \in Visited : Given(v) \in 1 .. Whole(v)
        /\ \A v \in Visited : (\E u \in Visited : Before(v, u)) => Given(v) = Whole(v)
    BY DEF Loop
  <2>5. (/\ \A v \in Visited, u \in donors : Before(v, u)
         /\ \A v \in Visited : Given(v) \in 1 .. Whole(v)
         /\ \A v \in Visited : (\E u \in Visited : Before(v, u)) => Given(v) = Whole(v))'
    BY <2>1, <2>2, <2>3, <2>4
  <2> QED BY <1>2, <2>1, <2>2, <2>3, <2>5 DEF Loop
<1>3. CASE Finish
  BY <1>2, <1>3 DEF Finish
<1>4. CASE UNCHANGED vars
  BY <1>2, <1>4 DEF vars, Loop
<1> QED BY <1>1, <1>3, <1>4 DEF Next

-----------------------------------------------------------------------------
(* The theorems. *)

\* The invariant of planConfiguredCapacity's loop.
THEOREM LoopIsInOrder == Spec => []Loop
BY LoopStarts, LoopContinues, PTL DEF Spec

LEMMA VisitedType ==
    ASSUME Loop
    PROVE  /\ Visited \in SUBSET AllDonors
           /\ \A v \in Visited : /\ v \in Slots /\ v \in AllDonors /\ slots[v].profile \in Profiles
                                  /\ Given(v) \in Nat \ {0} /\ Given(v) <= Whole(v) /\ Whole(v) \in Nat
                                  /\ Gifts[v] = Given(v) /\ Wholes[v] = Whole(v)
<1> SUFFICES ASSUME NEW v \in Visited
             PROVE  /\ v \in Slots /\ v \in AllDonors /\ slots[v].profile \in Profiles
                    /\ Given(v) \in Nat \ {0} /\ Given(v) <= Whole(v) /\ Whole(v) \in Nat
                    /\ Gifts[v] = Given(v) /\ Wholes[v] = Whole(v)
  BY DEF Visited
<1>1. v \in AllDonors /\ Given(v) \in 1 .. Whole(v)
  BY DEF Loop, Visited
<1>2. v \in Slots /\ Whole(v) \in Nat /\ slots[v].profile \in Profiles
  BY <1>1, DonorType DEF Loop
<1> QED BY <1>1, <1>2 DEF Gifts, Wholes

\* The running total and the reductions of the loop hold what their types say.
THEOREM PlanKeepsTypes == Spec => []TypeOK
<1>1. Loop => TypeOK
  <2> SUFFICES ASSUME Loop PROVE TypeOK
    OBVIOUS
  <2>1. configured \in [Dimensions -> Int]
    BY VisitedType, RemainingType DEF Loop
  <2>2. donors \subseteq Slots \ {target}
    BY DonorType DEF Loop
  <2>3. ASSUME NEW v \in Visited PROVE slots[v].applied - Given(v) \in 1 .. MaxInstances
    <3>1. /\ Given(v) \in Nat \ {0} /\ Given(v) <= slots[v].applied - 1
          /\ slots[v].applied \in 1 .. MaxInstances
      BY VisitedType, DonorType DEF Whole, Loop
    <3> QED BY <3>1, PlanAssumption
  <2>4. reductions \subseteq [slot : Slots, target : 1 .. MaxInstances]
    BY <2>3, VisitedType DEF Loop
  <2> QED BY <2>1, <2>2, <2>4 DEF TypeOK, Loop, Input
<1> QED BY <1>1, LoopIsInOrder, PTL

\* planConfiguredCapacity gives up only when no choice of idle ceilings could make
\* room: cutting every donor to one instance would not fit either.
THEOREM RefusalsAreComplete == Spec => []RefusalIsComplete
<1>1. Loop => RefusalIsComplete
  <2> SUFFICES ASSUME Loop, pc = "done", ~FitsConfiguredCapacity(configured)
               PROVE  ~FitsConfiguredCapacity(
                         SubtractResources(
                             ConfiguredWith(slots, target, profile, instances),
                             Consumption(Donors(slots, target), LAMBDA s : slots[s].profile,
                                         LAMBDA s : slots[s].applied - 1)))
    BY DEF RefusalIsComplete
  <2>1. Visited = AllDonors /\ \A v \in AllDonors : Given(v) = Whole(v)
    BY DEF Loop, Visited
  <2>2. configured = Remaining(Wholes, AllDonors)
    <3>1. \A v \in AllDonors : Gifts[v] = Wholes[v]
      BY <2>1 DEF Gifts, Wholes
    <3> QED BY <2>1, <3>1, RemainingSame DEF Loop
  <2>3. ASSUME NEW d \in Dimensions
        PROVE  [s \in AllDonors |-> Resources[slots[s].profile][d] * (slots[s].applied - 1)]
                 = [s \in AllDonors |-> Resources[slots[s].profile][d] * Wholes[s]]
    BY DEF Wholes, Whole
  <2>4. configured = SubtractResources(
                         ConfiguredWith(slots, target, profile, instances),
                         Consumption(Donors(slots, target), LAMBDA s : slots[s].profile,
                                     LAMBDA s : slots[s].applied - 1))
    BY <2>2, <2>3 DEF SubtractResources, Consumption, Remaining, Cut, AllDonors, Start
  <2> QED BY <2>4
<1> QED BY <1>1, LoopIsInOrder, PTL

\* A plan takes nothing it does not need: giving one instance back to the donor that
\* was cut last would exceed the account limit again.
THEOREM LastCutsAreNeeded == Spec => []LastCutIsNeeded
<1>1. Loop => LastCutIsNeeded
  <2> SUFFICES ASSUME Loop, pc = "done", FitsConfiguredCapacity(configured), NEW r \in reductions,
                      \A other \in reductions \ {r} : DonorBefore(releasedBefore, other.slot, r.slot)
               PROVE  ~FitsConfiguredCapacity(AddResources(configured, Resources[slots[r.slot].profile]))
    BY DEF LastCutIsNeeded
  <2>1. PICK s \in Visited : r = [slot |-> s, target |-> slots[s].applied - Given(s)]
    BY DEF Loop
  <2> DEFINE V == Visited \ {s}
             p == slots[s].profile
             seen == Remaining(Wholes, V)
             needed == LeastUnits(seen, p)
  <2>2. ASSUME NEW v \in V PROVE Before(v, s) /\ Given(v) = Whole(v)
    <3> DEFINE other == [slot |-> v, target |-> slots[v].applied - Given(v)]
    <3>1. other \in reductions \ {r} /\ other.slot = v
      BY <2>1 DEF Loop
    <3>2. Before(v, s)
      BY <2>1, <3>1 DEF Before
    <3> QED BY <3>2 DEF Loop
  <2>3. s \in AllDonors /\ V \in SUBSET AllDonors /\ Visited = V \cup {s} /\ Input
    BY DEF Visited, Loop
  <2>4. Earlier(s) = V
    <3>1. ASSUME NEW t \in AllDonors PROVE t \in Earlier(s) <=> t \in V
      <4>1. t \in Slots /\ s \in Slots
        BY <2>3, DonorType
      <4>2. t \in donors => Before(s, t)
        BY DEF Loop
      <4>3. ~Before(s, s) /\ (Before(s, t) => ~Before(t, s))
        BY <2>3, <4>1, DonorsAreOrdered DEF Input
      <4>4. t \in V \/ t = s \/ t \in donors
        BY DEF Visited
      <4>5. t \in V => Before(t, s)
        BY <2>2
      <4> QED BY <4>2, <4>3, <4>4, <4>5 DEF Earlier
    <3> QED BY <2>3, <3>1 DEF Earlier
  <2>5. /\ seen \in [Dimensions -> Int] /\ needed \in Nat /\ p \in Profiles
        /\ Given(s) \in Nat \ {0} /\ Given(s) <= needed
    BY <2>3, <2>4, GivenIsLeast, VisitedType
  <2>6. configured = Less(seen, p, Given(s))
    <3>1. \A v \in V \cup {s} : Gifts[v] = Given(v) /\ Given(v) \in Int
      BY <2>3, VisitedType
    <3>2. \A v \in V : Gifts[v] = Wholes[v]
      BY <2>2, VisitedType
    <3>3. Remaining(Gifts, V) = seen
      BY <2>3, <3>2, RemainingSame
    <3>4. Remaining(Gifts, V \cup {s}) = Less(Remaining(Gifts, V), p, Gifts[s])
      BY <2>3, <3>1, RemainingWith
    <3> QED BY <2>3, <3>1, <3>3, <3>4 DEF Loop
  <2> DEFINE g == Given(s)
  <2> HIDE DEF seen, needed, p, g
  <2>7. ~FitsConfiguredCapacity(Less(seen, p, g - 1))
    BY <2>5, UnitsNeeded DEF needed, g
  <2>8. AddResources(configured, Resources[p]) = Less(seen, p, g - 1)
    <3>1. ASSUME NEW d \in Dimensions
          PROVE  (seen[d] - Resources[p][d] * g) + Resources[p][d] = seen[d] - Resources[p][d] * (g - 1)
      <4>1. seen[d] \in Int /\ Resources[p][d] \in Nat /\ g \in Nat
        BY <2>5, PolicyAssumption DEF g
      <4> QED BY <4>1
    <3>2. configured = Less(seen, p, g)
      BY <2>6 DEF g
    <3> QED BY <3>1, <3>2 DEF AddResources, Less
  <2> QED BY <2>1, <2>7, <2>8 DEF p
<1> QED BY <1>1, LoopIsInOrder, PTL

-----------------------------------------------------------------------------
(* The closed form. *)

\* More donors that give more leave less.
LEMMA CutOfMore ==
    ASSUME Input, NEW T \in SUBSET AllDonors, NEW S \in SUBSET T, NEW a, NEW b,
           \A s \in S : a[s] \in Nat /\ a[s] <= b[s],
           \A s \in T : b[s] \in Nat, NEW d \in Dimensions
    PROVE  /\ Cut(a, S, d) \in Int /\ Cut(b, T, d) \in Int
           /\ Cut(a, S, d) <= Cut(b, T, d)
<1> DEFINE f == [s \in S |-> Resources[slots[s].profile][d] * a[s]]
           g == [s \in T |-> Resources[slots[s].profile][d] * b[s]]
<1>1. \A s \in T : Resources[slots[s].profile][d] \in Nat
  BY DonorType
<1>2. \A s \in S : f[s] \in Int /\ g[s] \in Int /\ f[s] <= g[s]
  BY <1>1, ProductGrows
<1>3. \A s \in T : g[s] \in Nat
  BY <1>1
<1>4. IsFiniteSet(S) /\ IsFiniteSet(T)
  BY DonorsAreFinite, FS_Subset
<1>5. \A s \in S : a[s] \in Int
  OBVIOUS
<1>6. \A s \in T : b[s] \in Int
  OBVIOUS
<1>7. Cut(a, S, d) = SumFunctionOnSet(f, S) /\ Cut(b, T, d) = SumFunctionOnSet(g, T)
  BY DEF Cut
<1>8. Cut(a, S, d) \in Int /\ Cut(b, T, d) \in Int
  BY <1>5, <1>6, CutType
<1> HIDE DEF f, g
<1>9. SumFunctionOnSet(f, S) <= SumFunctionOnSet(g, S)
  BY <1>2, <1>4, SumMonotone
<1>10. SumFunctionOnSet(g, S) \in Nat /\ SumFunctionOnSet(g, S) <= SumFunctionOnSet(g, T)
  BY <1>3, <1>4, SumOfPart
<1> QED BY <1>7, <1>8, <1>9, <1>10

\* The donors that the loop does not reach have nothing to give.
LEMMA UnvisitedGiveNothing ==
    ASSUME Loop, FitsConfiguredCapacity(configured), NEW u \in donors
    PROVE  Given(u) = 0
<1> DEFINE T == Earlier(u)
           seen == Remaining(Wholes, T)
<1>1. Input /\ u \in AllDonors /\ T \in SUBSET AllDonors /\ Visited \in SUBSET T
  BY VisitedType DEF Loop, Earlier
<1>2. \A s \in T : Wholes[s] \in Nat
  BY <1>1, DonorType DEF Wholes
<1>3. \A s \in Visited : Gifts[s] \in Nat /\ Gifts[s] <= Wholes[s]
  BY VisitedType
<1>4. ASSUME NEW d \in Dimensions PROVE seen[d] <= Limit[d]
  <2> DEFINE given == Cut(Gifts, Visited, d)
             whole == Cut(Wholes, T, d)
  <2>1. /\ given \in Int /\ whole \in Int /\ given <= whole
    BY <1>1, <1>2, <1>3, CutOfMore
  <2>2. configured[d] = Start[d] - given /\ seen[d] = Start[d] - whole
    BY DEF Loop, Remaining
  <2>3. configured[d] <= Limit[d] /\ Limit[d] \in Nat /\ Start[d] \in Int
    BY <1>1, StartType, PolicyAssumption DEF FitsConfiguredCapacity
  <2> HIDE DEF given, whole, seen
  <2> QED BY <2>1, <2>2, <2>3
<1>5. FitsConfiguredCapacity(seen)
  BY <1>4 DEF FitsConfiguredCapacity
<1> DEFINE needed == LeastUnits(seen, slots[u].profile)
<1>6. /\ seen \in [Dimensions -> Int] /\ needed \in Nat
      /\ Given(u) \in Nat /\ Given(u) <= needed
  BY <1>1, GivenIsLeast
<1>7. needed = 0
  <2> HIDE DEF seen
  <2>1. slots[u].profile \in Profiles
    BY <1>1, DonorType
  <2> QED BY <1>5, <1>6, <2>1, UnitsNeeded
<1> HIDE DEF needed
<1> QED BY <1>6, <1>7

Giving == {s \in AllDonors : Given(s) # 0}
CutTo(s) == [slot |-> s, target |-> slots[s].applied - Given(s)]

\* The planned reductions are one per donor that gives something.
LEMMA PlanIsWhatIsGiven ==
    ASSUME Input
    PROVE  PlannedReductions(slots, releasedBefore, target, profile, instances) = {CutTo(s) : s \in Giving}
<1> DEFINE Plan == PlannedReductions(slots, releasedBefore, target, profile, instances)
           Targets(s) == {m \in 1 .. (slots[s].applied - 1) : m = slots[s].applied - Given(s)}
<1>1. Plan = UNION {{[slot |-> s, target |-> n] : n \in Targets(s)} : s \in AllDonors}
  BY DEF PlannedReductions, AllDonors, Given
<1>2. ASSUME NEW s \in AllDonors
      PROVE  Targets(s) = IF s \in Giving THEN {slots[s].applied - Given(s)} ELSE {}
  <2>1. Given(s) \in Nat /\ Given(s) <= slots[s].applied - 1 /\ slots[s].applied \in Nat
    BY GivenIsLeast, DonorType, RowsType DEF Whole
  <2> QED BY <2>1 DEF Giving
<1> HIDE DEF Plan, Targets
<1>3. ASSUME NEW r PROVE r \in Plan <=> r \in {CutTo(s) : s \in Giving}
  BY <1>1, <1>2 DEF CutTo, Giving
<1> QED BY <1>3 DEF Plan

\* What the planned reductions give back is what the donors give.
LEMMA PlanGivesBack ==
    ASSUME Input
    PROVE  SubtractResources(
               Start,
               Consumption({CutTo(s) : s \in Giving}, LAMBDA r : slots[r.slot].profile,
                           LAMBDA r : slots[r.slot].applied - r.target))
             = Remaining(Gifts, Giving)
<1> DEFINE cuts == {CutTo(s) : s \in Giving}
           h == [s \in Giving |-> CutTo(s)]
           f(d) == [r \in cuts |-> Resources[slots[r.slot].profile][d] * (slots[r.slot].applied - r.target)]
           g(d) == [s \in Giving |-> f(d)[h[s]]]
<1>1. Giving \in SUBSET AllDonors /\ IsFiniteSet(Giving) /\ cuts = {h[s] : s \in Giving}
  BY DonorsAreFinite DEF Giving
<1>2. \A s, t \in Giving : h[s] = h[t] => s = t
  BY DEF CutTo
<1>3. ASSUME NEW s \in Giving
      PROVE  /\ slots[s].applied - (slots[s].applied - Given(s)) = Gifts[s] /\ Gifts[s] \in Nat
             /\ CutTo(s) \in cuts /\ h[s] = CutTo(s)
  <2>1. s \in AllDonors
    BY <1>1
  <2>2. Given(s) \in Nat /\ slots[s].applied \in Nat
    BY <2>1, GivenIsLeast, DonorType, RowsType
  <2> QED BY <2>1, <2>2 DEF Gifts
<1>4. ASSUME NEW d \in Dimensions, NEW s \in Giving
      PROVE  f(d)[h[s]] = Resources[slots[s].profile][d] * Gifts[s] /\ f(d)[h[s]] \in Int
  <2>1. f(d)[h[s]] = Resources[slots[s].profile][d] * (slots[s].applied - (slots[s].applied - Given(s)))
    BY <1>3 DEF CutTo
  <2>2. Resources[slots[s].profile][d] \in Nat
    BY <1>1, DonorType
  <2> QED BY <1>3, <2>1, <2>2
<1> HIDE DEF f, h, cuts
<1>5. ASSUME NEW d \in Dimensions PROVE SumFunctionOnSet(f(d), cuts) = Cut(Gifts, Giving, d)
  <2>1. \A s \in Giving : f(d)[h[s]] \in Int
    BY <1>4
  <2>2. SumFunctionOnSet(f(d), {h[s] : s \in Giving}) = SumFunctionOnSet([s \in Giving |-> f(d)[h[s]]], Giving)
    BY <1>1, <1>2, <2>1, SumReindexed
  <2>3. [s \in Giving |-> f(d)[h[s]]] = [s \in Giving |-> Resources[slots[s].profile][d] * Gifts[s]]
    BY <1>4
  <2> QED BY <1>1, <2>2, <2>3 DEF Cut
<1>6. \A d \in Dimensions :
          f(d) = [r \in cuts |-> Resources[slots[r.slot].profile][d] * (slots[r.slot].applied - r.target)]
  BY DEF f
<1>7. Consumption(cuts, LAMBDA r : slots[r.slot].profile, LAMBDA r : slots[r.slot].applied - r.target)
        = [d \in Dimensions |-> SumFunctionOnSet(f(d), cuts)]
  BY <1>6 DEF Consumption
<1> QED BY <1>5, <1>7 DEF SubtractResources, Remaining, cuts

\* The closed form used by the scheduler's model returns what the loop returns: the
\* same reductions, and a plan exactly when the loop's total fits.
THEOREM LoopComputesPlan == Spec => []LoopComputesClosedForm
<1>1. Loop => LoopComputesClosedForm
  <2> SUFFICES ASSUME Loop, pc = "done"
               PROVE  /\ PlanExists(slots, releasedBefore, target, profile, instances)
                            <=> FitsConfiguredCapacity(configured)
                      /\ FitsConfiguredCapacity(configured) =>
                            reductions = PlannedReductions(slots, releasedBefore, target, profile, instances)
    BY DEF LoopComputesClosedForm
  <2>1. Giving = Visited
    <3>1. \A s \in Visited : s \in Giving
      BY VisitedType DEF Giving
    <3>2. \A s \in AllDonors : s \in donors => Given(s) = 0
      BY UnvisitedGiveNothing DEF Loop
    <3> QED BY <3>1, <3>2 DEF Giving, Visited
  <2>2. PlannedReductions(slots, releasedBefore, target, profile, instances) = {CutTo(s) : s \in Giving}
    BY PlanIsWhatIsGiven DEF Loop
  <2>3. reductions = {CutTo(s) : s \in Giving}
    BY <2>1 DEF Loop, CutTo
  <2>4. SubtractResources(
            ConfiguredWith(slots, target, profile, instances),
            Consumption({CutTo(s) : s \in Giving}, LAMBDA r : slots[r.slot].profile,
                        LAMBDA r : slots[r.slot].applied - r.target)) = configured
    BY <2>1, PlanGivesBack DEF Loop, Start
  <2>5. instances >= 1
    BY PlanAssumption DEF Loop, Input
  <2>6. PlanExists(slots, releasedBefore, target, profile, instances) <=> FitsConfiguredCapacity(configured)
    BY <2>2, <2>4, <2>5 DEF PlanExists
  <2> QED BY <2>2, <2>3, <2>6
<1> QED BY <1>1, LoopIsInOrder, PTL
=============================================================================
