---------------------- MODULE CompletionTrackerProofs ----------------------
(* Proofs about two parts of the session's sending side, the history of
   completed subgroups and the scheduler.

   CompletionTracker, for every MaxGroup, MaxRanges and set of subgroups.
   The inductive invariant is Inv: the types, RangesApart, the exact count
   and the storage bound.  RangesApart is what makes the lookup by
   upper_bound complete: when ranges never overlap or touch, the range
   before upper_bound(g) is the only one that can hold g, so ContainsGroup
   is membership in the union of the ranges (ContainsIsHolds).  Each way
   for insert to change one map is then a lemma about that map alone.

   PriorityScheduler, for every plan and every set of requests, priorities
   and filters.  SchedulerInv says what the run checks, and why it stays:
   the frontiers of a request list exactly what it has still to send; a
   request that may be scheduled has its current candidate in the heap or
   among the blocked ones; a parked leader has an unparked request far
   enough behind it to wake it.  OrderInv adds, for ServedByPriority, that
   no candidate is newer than its request and that the blocked ones are
   live, in priority order and ahead of the heap. *)
EXTENDS CompletionTracker, PriorityScheduler, DataTheorems, FiniteSetTheorems, TLAPS

(* RangesApart for the ranges of one subgroup. *)
Apart(r) == \A a \in DOMAIN r :
                a <= r[a] /\ \A b \in DOMAIN r : a < b => r[a] + 1 < b

(* Some range holds the group, whatever upper_bound finds. *)
Holds(r, g) == \E a \in DOMAIN r : a <= g /\ g <= r[a]

(* q is r with the group g added to the set it stands for. *)
Adds(r, g, q) ==
    /\ q \in RangeMaps
    /\ Apart(q)
    /\ \A h \in Groups : Holds(q, h) <=> (Holds(r, h) \/ h = g)

-----------------------------------------------------------------------------
(* A range map's keys and values are groups. *)
LEMMA RangeMapFacts ==
    ASSUME NEW r \in RangeMaps
    PROVE  /\ DOMAIN r \subseteq Groups
           /\ \A a \in DOMAIN r : r[a] \in Groups
           /\ r = [a \in DOMAIN r |-> r[a]]
BY DEF RangeMaps

(* A function from groups to groups is a range map. *)
LEMMA RangeMapIntro ==
    ASSUME NEW D \in SUBSET Groups, NEW f \in [D -> Groups]
    PROVE  f \in RangeMaps
BY DEF RangeMaps

(* The lookup by upper_bound finds a group if any range holds it. *)
LEMMA ContainsIsHolds ==
    ASSUME NEW r \in RangeMaps, Apart(r), NEW g \in Groups
    PROVE  (\E a \in DOMAIN r : IsPrevious(r, g, a) /\ g <= r[a]) <=> Holds(r, g)
<1>1. DOMAIN r \subseteq Nat /\ \A a \in DOMAIN r : r[a] \in Nat
  BY RangeMapFacts, MaxGroupAssumption DEF Groups
<1>2. g \in Nat BY MaxGroupAssumption DEF Groups
<1>3. ASSUME NEW a \in DOMAIN r, a <= g, g <= r[a]
      PROVE  IsPrevious(r, g, a)
  BY <1>1, <1>2, <1>3 DEF Apart, IsPrevious
<1>4. QED BY <1>3 DEF Holds, IsPrevious

(* joins_previous holds exactly when some range ends just below the group. *)
LEMMA JoinsPreviousMeans ==
    ASSUME NEW r \in RangeMaps, Apart(r), NEW g \in Groups
    PROVE  /\ JoinsPrevious(r, g) <=> \E a \in DOMAIN r : r[a] + 1 = g
           /\ \A a \in DOMAIN r : r[a] + 1 = g => IsPrevious(r, g, a)
<1>1. DOMAIN r \subseteq Nat /\ \A a \in DOMAIN r : r[a] \in Nat /\ r[a] <= MaxGroup
  BY RangeMapFacts, MaxGroupAssumption DEF Groups
<1>2. g \in Nat /\ g <= MaxGroup /\ MaxGroup \in Nat BY MaxGroupAssumption DEF Groups
<1>3. ASSUME NEW a \in DOMAIN r, r[a] + 1 = g
      PROVE  IsPrevious(r, g, a) /\ r[a] # MaxGroup
  BY <1>1, <1>2, <1>3 DEF Apart, IsPrevious
<1>4. QED BY <1>3 DEF JoinsPrevious

(* joins_next holds exactly when a range starts just above the group. *)
LEMMA JoinsNextMeans ==
    ASSUME NEW r \in RangeMaps, NEW g \in Groups
    PROVE  JoinsNext(r, g) <=> g + 1 \in DOMAIN r
<1>1. DOMAIN r \subseteq Nat /\ \A a \in DOMAIN r : a <= MaxGroup
  BY RangeMapFacts, MaxGroupAssumption DEF Groups
<1>2. g \in Nat /\ MaxGroup \in Nat BY MaxGroupAssumption DEF Groups
<1>3. ASSUME g + 1 \in DOMAIN r
      PROVE  IsNext(r, g, g + 1) /\ g # MaxGroup
  BY <1>1, <1>2, <1>3 DEF IsNext
<1>4. QED BY <1>3 DEF JoinsNext

(* At most one range precedes a group. *)
LEMMA PreviousUnique ==
    ASSUME NEW r \in RangeMaps, NEW g \in Groups,
           NEW a \in DOMAIN r, NEW b \in DOMAIN r,
           IsPrevious(r, g, a), IsPrevious(r, g, b)
    PROVE  a = b
<1>1. DOMAIN r \subseteq Nat BY RangeMapFacts, MaxGroupAssumption DEF Groups
<1>2. QED BY <1>1 DEF IsPrevious

-----------------------------------------------------------------------------
(* Extending the previous range adds the group. *)
LEMMA AboveAdds ==
    ASSUME NEW r \in RangeMaps, Apart(r), NEW g \in Groups, ~Holds(r, g),
           JoinsPrevious(r, g), ~JoinsNext(r, g)
    PROVE  /\ Adds(r, g, WithPrevious(r, g, g))
           /\ DOMAIN WithPrevious(r, g, g) = DOMAIN r
<1> DEFINE q == WithPrevious(r, g, g)
<1>1. PICK p \in DOMAIN r : r[p] + 1 = g /\ IsPrevious(r, g, p) BY JoinsPreviousMeans
<1>2. g + 1 \notin DOMAIN r BY JoinsNextMeans
<1>3. /\ DOMAIN r \subseteq Nat
      /\ \A a \in DOMAIN r : a \in Groups /\ r[a] \in Nat /\ r[a] \in Groups
  BY RangeMapFacts, MaxGroupAssumption DEF Groups
<1>4. g \in Nat /\ \A h \in Groups : h \in Nat BY MaxGroupAssumption DEF Groups
<1>5. DOMAIN q = DOMAIN r BY DEF WithPrevious
<1>6. \A a \in DOMAIN r : q[a] = IF a = p THEN g ELSE r[a] BY <1>1, PreviousUnique DEF WithPrevious
<1>7. q \in RangeMaps
  <2>1. q \in [DOMAIN r -> Groups] BY <1>3 DEF WithPrevious
  <2>2. QED BY <2>1, RangeMapIntro, RangeMapFacts
<1> HIDE DEF q
<1>8. Apart(q) BY <1>1, <1>2, <1>3, <1>4, <1>5, <1>6 DEF Apart
<1>9. ASSUME NEW h \in Groups
      PROVE  Holds(q, h) <=> (Holds(r, h) \/ h = g)
  <2>1. p <= r[p] BY DEF Apart
  <2>2. \A a \in DOMAIN r : (a <= h /\ h <= q[a]) <=>
                            ((a <= h /\ h <= r[a]) \/ (a = p /\ h = g))
    BY <1>1, <1>3, <1>4, <1>6, <2>1
  <2>3. QED BY <2>2, <1>5 DEF Holds
<1>10. QED BY <1>5, <1>7, <1>8, <1>9 DEF Adds, q

(* Moving the next range's first group down adds the group. *)
LEMMA BelowAdds ==
    ASSUME NEW r \in RangeMaps, Apart(r), NEW g \in Groups, ~Holds(r, g),
           ~JoinsPrevious(r, g), JoinsNext(r, g)
    PROVE  /\ Adds(r, g, WithRange(Without(r, g + 1), g, r[g + 1]))
           /\ DOMAIN WithRange(Without(r, g + 1), g, r[g + 1])
                = (DOMAIN r \ {g + 1}) \cup {g}
           /\ g + 1 \in DOMAIN r /\ g \notin DOMAIN r
<1> DEFINE q == WithRange(Without(r, g + 1), g, r[g + 1])
<1>1. g + 1 \in DOMAIN r BY JoinsNextMeans
<1>2. \A a \in DOMAIN r : r[a] + 1 # g BY JoinsPreviousMeans
<1>3. /\ DOMAIN r \subseteq Nat
      /\ \A a \in DOMAIN r : a \in Groups /\ r[a] \in Nat /\ r[a] \in Groups
  BY RangeMapFacts, MaxGroupAssumption DEF Groups
<1>4. g \in Nat /\ \A h \in Groups : h \in Nat BY MaxGroupAssumption DEF Groups
<1>5. DOMAIN q = (DOMAIN r \ {g + 1}) \cup {g} BY DEF WithRange, Without
<1>6. \A a \in DOMAIN q : q[a] = IF a = g THEN r[g + 1] ELSE r[a] BY <1>5 DEF WithRange, Without
<1>7. q \in RangeMaps
  <2>1. q \in [(DOMAIN r \ {g + 1}) \cup {g} -> Groups] BY <1>1, <1>3 DEF WithRange, Without
  <2>2. QED BY <1>3, <2>1, RangeMapIntro
<1> HIDE DEF q
<1>8. g \notin DOMAIN r BY <1>3, <1>4 DEF Apart, Holds
<1>9. Apart(q)
  <2> SUFFICES ASSUME NEW a \in DOMAIN q
               PROVE  a <= q[a] /\ \A b \in DOMAIN q : a < b => q[a] + 1 < b
    BY DEF Apart
  <2>1. CASE a = g
    <3>1. g + 1 <= r[g + 1] /\ \A b \in DOMAIN r : g + 1 < b => r[g + 1] + 1 < b BY <1>1 DEF Apart
    <3>2. QED BY <2>1, <3>1, <1>1, <1>3, <1>4, <1>5, <1>6
  <2>2. CASE a # g
    <3>1. a \in DOMAIN r /\ q[a] = r[a] BY <2>2, <1>5, <1>6
    <3>2. a <= r[a] /\ \A b \in DOMAIN r : a < b => r[a] + 1 < b BY <3>1 DEF Apart
    <3>3. a < g => r[a] + 1 < g
      <4>1. ~(a <= g /\ g <= r[a]) /\ r[a] + 1 # g BY <1>2, <3>1 DEF Holds
      <4>2. QED BY <4>1, <3>1, <1>3, <1>4
    <3>4. QED BY <3>1, <3>2, <3>3, <1>5
  <2>3. QED BY <2>1, <2>2
<1>10. ASSUME NEW h \in Groups
       PROVE  Holds(q, h) <=> (Holds(r, h) \/ h = g)
  <2>1. g + 1 <= r[g + 1] /\ r[g + 1] \in Nat /\ h \in Nat BY <1>1, <1>3, <1>4 DEF Apart
  <2>2. (g <= h /\ h <= r[g + 1]) <=> ((g + 1 <= h /\ h <= r[g + 1]) \/ h = g) BY <1>4, <2>1
  <2>3. Holds(q, h) <=> \/ g <= h /\ h <= r[g + 1]
                        \/ \E a \in DOMAIN r \ {g + 1} : a <= h /\ h <= r[a]
    BY <1>5, <1>6, <1>8 DEF Holds
  <2>4. QED BY <1>1, <2>2, <2>3 DEF Holds
<1>11. QED BY <1>1, <1>5, <1>7, <1>8, <1>9, <1>10 DEF Adds, q

(* Joining the two neighbours of a gap of one group adds the group. *)
LEMMA BridgeAdds ==
    ASSUME NEW r \in RangeMaps, Apart(r), NEW g \in Groups, ~Holds(r, g),
           JoinsPrevious(r, g), JoinsNext(r, g)
    PROVE  /\ Adds(r, g, Without(WithPrevious(r, g, r[g + 1]), g + 1))
           /\ DOMAIN Without(WithPrevious(r, g, r[g + 1]), g + 1) = DOMAIN r \ {g + 1}
           /\ g + 1 \in DOMAIN r
           /\ DOMAIN r \ {g + 1} # {}
<1> DEFINE q == Without(WithPrevious(r, g, r[g + 1]), g + 1)
<1>1. PICK p \in DOMAIN r : r[p] + 1 = g /\ IsPrevious(r, g, p) BY JoinsPreviousMeans
<1>2. g + 1 \in DOMAIN r BY JoinsNextMeans
<1>3. /\ DOMAIN r \subseteq Nat
      /\ \A a \in DOMAIN r : a \in Groups /\ r[a] \in Nat /\ r[a] \in Groups
  BY RangeMapFacts, MaxGroupAssumption DEF Groups
<1>4. g \in Nat /\ \A h \in Groups : h \in Nat BY MaxGroupAssumption DEF Groups
<1>5. DOMAIN q = DOMAIN r \ {g + 1} BY DEF WithPrevious, Without
<1>6. \A a \in DOMAIN q : q[a] = IF a = p THEN r[g + 1] ELSE r[a]
  BY <1>1, <1>5, PreviousUnique DEF WithPrevious, Without
<1>7. q \in RangeMaps
  <2>1. q \in [DOMAIN r \ {g + 1} -> Groups] BY <1>2, <1>3 DEF WithPrevious, Without
  <2>2. QED BY <1>3, <2>1, RangeMapIntro
<1> HIDE DEF q
<1>8. /\ p <= r[p] /\ p # g + 1
      /\ g + 1 <= r[g + 1]
      /\ \A b \in DOMAIN r : g + 1 < b => r[g + 1] + 1 < b
  BY <1>1, <1>2, <1>3, <1>4 DEF Apart
<1>9. Apart(q)
  <2> SUFFICES ASSUME NEW a \in DOMAIN q
               PROVE  a <= q[a] /\ \A b \in DOMAIN q : a < b => q[a] + 1 < b
    BY DEF Apart
  <2>1. CASE a = p
    <3>1. \A b \in DOMAIN q : a < b => g + 1 < b BY <1>1, <1>3, <1>4, <1>5, <2>1 DEF Apart
    <3>2. QED BY <2>1, <3>1, <1>1, <1>2, <1>3, <1>4, <1>5, <1>6, <1>8
  <2>2. CASE a # p BY <2>2, <1>5, <1>6 DEF Apart
  <2>3. QED BY <2>1, <2>2
<1>10. ASSUME NEW h \in Groups
       PROVE  Holds(q, h) <=> (Holds(r, h) \/ h = g)
  <2>1. r[g + 1] \in Nat /\ r[p] \in Nat /\ p \in Nat /\ h \in Nat BY <1>1, <1>2, <1>3, <1>4
  <2>2. (p <= h /\ h <= r[g + 1]) <=>
            \/ p <= h /\ h <= r[p]
            \/ h = g
            \/ g + 1 <= h /\ h <= r[g + 1]
    BY <1>1, <1>4, <1>8, <2>1
  <2>3. p \in DOMAIN q /\ q[p] = r[g + 1] BY <1>5, <1>6, <1>8
  <2>4. Holds(q, h) <=> \/ p <= h /\ h <= r[g + 1]
                        \/ \E a \in DOMAIN r \ {g + 1, p} : a <= h /\ h <= r[a]
    BY <1>5, <1>6, <2>3 DEF Holds
  <2>5. QED BY <1>2, <2>2, <2>4 DEF Holds
<1>11. QED BY <1>2, <1>5, <1>7, <1>8, <1>9, <1>10 DEF Adds, q

(* A range of one group, away from every other, adds the group. *)
LEMMA NewAdds ==
    ASSUME NEW r \in RangeMaps, Apart(r), NEW g \in Groups, ~Holds(r, g),
           ~JoinsPrevious(r, g), ~JoinsNext(r, g)
    PROVE  /\ Adds(r, g, WithRange(r, g, g))
           /\ DOMAIN WithRange(r, g, g) = DOMAIN r \cup {g}
           /\ g \notin DOMAIN r
<1> DEFINE q == WithRange(r, g, g)
<1>1. g + 1 \notin DOMAIN r BY JoinsNextMeans
<1>2. \A a \in DOMAIN r : r[a] + 1 # g BY JoinsPreviousMeans
<1>3. /\ DOMAIN r \subseteq Nat
      /\ \A a \in DOMAIN r : a \in Groups /\ r[a] \in Nat /\ r[a] \in Groups
  BY RangeMapFacts, MaxGroupAssumption DEF Groups
<1>4. g \in Nat /\ \A h \in Groups : h \in Nat BY MaxGroupAssumption DEF Groups
<1>5. DOMAIN q = DOMAIN r \cup {g} BY DEF WithRange
<1>6. \A a \in DOMAIN q : q[a] = IF a = g THEN g ELSE r[a] BY <1>5 DEF WithRange
<1>7. q \in RangeMaps
  <2>1. q \in [DOMAIN r \cup {g} -> Groups] BY <1>3 DEF WithRange
  <2>2. QED BY <1>3, <2>1, RangeMapIntro
<1> HIDE DEF q
<1>8. g \notin DOMAIN r BY <1>3, <1>4 DEF Apart, Holds
<1>9. Apart(q)
  <2> SUFFICES ASSUME NEW a \in DOMAIN q
               PROVE  a <= q[a] /\ \A b \in DOMAIN q : a < b => q[a] + 1 < b
    BY DEF Apart
  <2>1. CASE a = g BY <2>1, <1>1, <1>3, <1>4, <1>5, <1>6
  <2>2. CASE a # g
    <3>1. a \in DOMAIN r /\ q[a] = r[a] BY <2>2, <1>5, <1>6
    <3>2. a <= r[a] /\ \A b \in DOMAIN r : a < b => r[a] + 1 < b BY <3>1 DEF Apart
    <3>3. ~(a <= g /\ g <= r[a]) /\ r[a] + 1 # g BY <1>2, <3>1 DEF Holds
    <3>4. QED BY <3>1, <3>2, <3>3, <1>3, <1>4, <1>5
  <2>3. QED BY <2>1, <2>2
<1>10. ASSUME NEW h \in Groups
       PROVE  Holds(q, h) <=> (Holds(r, h) \/ h = g)
  <2>1. g <= h /\ h <= g <=> h = g BY <1>4
  <2>2. QED BY <1>5, <1>6, <1>8, <2>1 DEF Holds
<1>11. QED BY <1>5, <1>7, <1>8, <1>9, <1>10 DEF Adds, q

-----------------------------------------------------------------------------
(* The inductive invariant. *)
Inv == /\ TypeOK
       /\ RangesApart
       /\ IsFiniteSet(Ranges)
       /\ CountExact
       /\ StorageBounded

(* The map of a subgroup, present or not, is well formed. *)
LEMMA RangesOfFacts ==
    ASSUME TypeOK, RangesApart, NEW s \in Subgroups
    PROVE  RangesOf(s) \in RangeMaps /\ Apart(RangesOf(s))
<1>1. EmptyRanges \in RangeMaps /\ Apart(EmptyRanges)
  <2>1. EmptyRanges \in [{} -> Groups] BY DEF EmptyRanges
  <2>2. QED BY <2>1, RangeMapIntro DEF Apart
<1>2. CASE s \in DOMAIN rangesBySubgroup BY <1>2 DEF RangesOf, TypeOK, RangesApart, Apart
<1>3. CASE s \notin DOMAIN rangesBySubgroup BY <1>1, <1>3 DEF RangesOf
<1>4. QED BY <1>2, <1>3

(* What contains reports is what the ranges hold. *)
LEMMA MembersFacts ==
    ASSUME TypeOK, RangesApart
    PROVE  \A s \in Subgroups, g \in Groups :
               (<<s, g>> \in Members <=> Holds(RangesOf(s), g))
               /\ (ContainsGroup(s, g) <=> Holds(RangesOf(s), g))
BY RangesOfFacts, ContainsIsHolds DEF Members, ContainsGroup

(* Storing a well-formed, non-empty map for one subgroup keeps the types
   and the separation, and changes that subgroup's map only. *)
LEMMA StoreFacts ==
    ASSUME TypeOK, RangesApart, NEW s \in Subgroups,
           \A t \in DOMAIN rangesBySubgroup : DOMAIN rangesBySubgroup[t] # {},
           NEW q \in RangeMaps, Apart(q), DOMAIN q # {},
           rangesBySubgroup' = Store(s, q)
    PROVE  /\ DOMAIN rangesBySubgroup' \subseteq Subgroups
           /\ \A t \in DOMAIN rangesBySubgroup' : rangesBySubgroup'[t] \in RangeMaps
           /\ RangesApart'
           /\ \A t \in DOMAIN rangesBySubgroup' : DOMAIN rangesBySubgroup'[t] # {}
           /\ \A t \in Subgroups :
                  RangesOf(t)' = IF t = s THEN q ELSE RangesOf(t)
<1>1. DOMAIN rangesBySubgroup' = DOMAIN rangesBySubgroup \cup {s} BY DEF Store
<1>2. \A t \in DOMAIN rangesBySubgroup' :
          rangesBySubgroup'[t] = IF t = s THEN q ELSE rangesBySubgroup[t]
  BY <1>1 DEF Store
<1>3. RangesApart' BY <1>1, <1>2 DEF RangesApart, Apart
<1>4. \A t \in Subgroups : RangesOf(t)' = IF t = s THEN q ELSE RangesOf(t) BY <1>1, <1>2 DEF RangesOf
<1>5. QED BY <1>1, <1>2, <1>3, <1>4 DEF TypeOK

(* An insertion that stores a map with the group added records exactly
   that pair. *)
LEMMA StoreMembers ==
    ASSUME TypeOK, RangesApart,
           NEW s \in Subgroups, NEW g \in Groups, NEW q,
           Adds(RangesOf(s), g, q),
           \A t \in Subgroups : RangesOf(t)' = IF t = s THEN q ELSE RangesOf(t)
    PROVE  Members' = Members \cup {<<s, g>>}
<1>1. \A t \in Subgroups, h \in Groups :
          (<<t, h>> \in Members') <=> Holds(RangesOf(t)', h)
  <2> SUFFICES ASSUME NEW t \in Subgroups, NEW h \in Groups
               PROVE  (<<t, h>> \in Members') <=> Holds(RangesOf(t)', h)
    OBVIOUS
  <2>1. RangesOf(t)' \in RangeMaps /\ Apart(RangesOf(t)') BY RangesOfFacts DEF Adds
  <2>2. (<<t, h>> \in Members') <=>
            \E a \in DOMAIN RangesOf(t)' :
                IsPrevious(RangesOf(t)', h, a) /\ h <= RangesOf(t)'[a]
    BY DEF Members, ContainsGroup
  <2>3. QED BY <2>1, <2>2, ContainsIsHolds
<1>2. \A t \in Subgroups, h \in Groups :
          (<<t, h>> \in Members') <=> (<<t, h>> \in Members \/ <<t, h>> = <<s, g>>)
  BY <1>1, MembersFacts DEF Adds
<1>3. Members \subseteq Subgroups \X Groups /\ Members' \subseteq Subgroups \X Groups BY DEF Members
<1>4. QED BY <1>2, <1>3

(* How storing a map changes the set of ranges that range_count_ counts. *)
LEMMA StoreRanges ==
    ASSUME NEW s \in Subgroups, NEW q,
           \A t \in Subgroups : RangesOf(t)' = IF t = s THEN q ELSE RangesOf(t)
    PROVE  Ranges' = {p \in Ranges : p[1] # s}
                        \cup {<<s, a>> : a \in DOMAIN q \cap Groups}
<1>1. Ranges' = {p \in Subgroups \X Groups : p[2] \in DOMAIN RangesOf(p[1])'} BY DEF Ranges
<1>2. Ranges = {p \in Subgroups \X Groups : p[2] \in DOMAIN RangesOf(p[1])} BY DEF Ranges
<1>3. QED BY <1>1, <1>2

(* Every way to insert keeps the invariant, and records exactly the group
   inserted unless it refuses. *)
LEMMA InsertKeepsInv ==
    ASSUME Inv, NEW s \in Subgroups, NEW g \in Groups, Insert(s, g)
    PROVE  /\ Inv'
           /\ ~InsertRefused(s, g) => /\ Members' = Members \cup {<<s, g>>}
                                      /\ exhausted' = exhausted
<1> DEFINE r == RangesOf(s)
<1>1. /\ TypeOK /\ RangesApart /\ IsFiniteSet(Ranges)
      /\ rangeCount = Cardinality(Ranges) /\ rangeCount <= MaxRanges
      /\ \A t \in DOMAIN rangesBySubgroup : DOMAIN rangesBySubgroup[t] # {}
      /\ rangeCount \in Nat /\ exhausted \in BOOLEAN /\ MaxRanges \in Nat
  BY MaxRangesAssumption DEF Inv, CountExact, StorageBounded, TypeOK
<1>2. r \in RangeMaps /\ Apart(r) /\ DOMAIN r \subseteq Groups BY <1>1, RangesOfFacts, RangeMapFacts
<1>3. ContainsGroup(s, g) <=> Holds(r, g) BY <1>1, MembersFacts
<1>4. {p \in Ranges : p[1] = s} = {<<s, a>> : a \in DOMAIN r} BY <1>2 DEF Ranges
<1>5. \A a \in DOMAIN r : <<s, a>> \in Ranges BY <1>4
<1>6. \A a \in Groups : a \notin DOMAIN r => <<s, a>> \notin Ranges BY <1>4
<1> HIDE DEF r
<1>7. ASSUME NEW q, Adds(r, g, q), DOMAIN q # {}, rangesBySubgroup' = Store(s, q),
             exhausted' = exhausted, IsFiniteSet(Ranges'),
             rangeCount' = Cardinality(Ranges'), rangeCount' \in Nat,
             rangeCount' <= MaxRanges
      PROVE  Inv' /\ Members' = Members \cup {<<s, g>>}
  <2>1. q \in RangeMaps /\ Apart(q) BY <1>7 DEF Adds
  <2>2. /\ DOMAIN rangesBySubgroup' \subseteq Subgroups
        /\ \A t \in DOMAIN rangesBySubgroup' : rangesBySubgroup'[t] \in RangeMaps
        /\ RangesApart'
        /\ \A t \in DOMAIN rangesBySubgroup' : DOMAIN rangesBySubgroup'[t] # {}
        /\ \A t \in Subgroups : RangesOf(t)' = IF t = s THEN q ELSE RangesOf(t)
    BY <1>1, <1>7, <2>1, StoreFacts
  <2>3. Members' = Members \cup {<<s, g>>} BY <1>1, <1>7, <2>2, StoreMembers DEF r
  <2>4. QED BY <1>1, <1>7, <2>2, <2>3 DEF Inv, TypeOK, CountExact, StorageBounded
<1>8. ASSUME NEW q, Adds(r, g, q), DOMAIN q # {}, rangesBySubgroup' = Store(s, q)
      PROVE  Ranges' = {p \in Ranges : p[1] # s} \cup {<<s, a>> : a \in DOMAIN q}
  <2>1. q \in RangeMaps /\ Apart(q) /\ DOMAIN q \subseteq Groups BY <1>8, RangeMapFacts DEF Adds
  <2>2. \A t \in Subgroups : RangesOf(t)' = IF t = s THEN q ELSE RangesOf(t) BY <1>1, <1>8, <2>1, StoreFacts
  <2>3. DOMAIN q \cap Groups = DOMAIN q BY <2>1
  <2>4. QED BY <2>2, <2>3, StoreRanges
<1>9. CASE InsertKnown(s, g)
  <2>1. UNCHANGED vars BY <1>9 DEF InsertKnown
  <2>2. Inv' BY <2>1 DEF Inv, TypeOK, RangesApart, Ranges, RangesOf, CountExact, StorageBounded, vars
  <2>3. Members' = Members BY <2>1 DEF Members, ContainsGroup, RangesOf, vars
  <2>4. <<s, g>> \in Members BY <1>9 DEF InsertKnown, Members
  <2>5. QED BY <2>1, <2>2, <2>3, <2>4 DEF vars
<1>10. CASE InsertBridge(s, g)
  <2> DEFINE q == Without(WithPrevious(r, g, r[g + 1]), g + 1)
  <2>1. /\ ~Holds(r, g) /\ JoinsPrevious(r, g) /\ JoinsNext(r, g)
        /\ rangesBySubgroup' = Store(s, q)
        /\ rangeCount' = rangeCount - 1 /\ exhausted' = exhausted
    BY <1>3, <1>10 DEF InsertBridge, r
  <2>2. /\ Adds(r, g, q) /\ DOMAIN q = DOMAIN r \ {g + 1}
        /\ g + 1 \in DOMAIN r /\ DOMAIN q # {}
    BY <1>2, <2>1, BridgeAdds
  <2> HIDE DEF q
  <2>3. Ranges' = Ranges \ {<<s, g + 1>>} BY <1>4, <1>8, <2>1, <2>2
  <2>4. IsFiniteSet(Ranges') /\ Cardinality(Ranges') = Cardinality(Ranges) - 1
    BY <1>1, <1>5, <2>2, <2>3, FS_RemoveElement
  <2>5. Cardinality(Ranges') \in Nat BY <2>4, FS_CardinalityType
  <2>6. rangeCount' = Cardinality(Ranges') /\ rangeCount' \in Nat /\ rangeCount' <= MaxRanges
    BY <1>1, <2>1, <2>4, <2>5
  <2>7. QED BY <1>7, <2>1, <2>2, <2>4, <2>6
<1>11. CASE InsertAbove(s, g)
  <2> DEFINE q == WithPrevious(r, g, g)
  <2>1. /\ ~Holds(r, g) /\ JoinsPrevious(r, g) /\ ~JoinsNext(r, g)
        /\ rangesBySubgroup' = Store(s, q)
        /\ rangeCount' = rangeCount /\ exhausted' = exhausted
    BY <1>3, <1>11 DEF InsertAbove, r
  <2>2. Adds(r, g, q) /\ DOMAIN q = DOMAIN r BY <1>2, <2>1, AboveAdds
  <2>3. DOMAIN q # {} BY <2>1, <2>2 DEF JoinsPrevious
  <2> HIDE DEF q
  <2>4. Ranges' = Ranges BY <1>4, <1>8, <2>1, <2>2, <2>3
  <2>5. QED BY <1>1, <1>7, <2>1, <2>2, <2>3, <2>4
<1>12. CASE InsertBelow(s, g)
  <2> DEFINE q == WithRange(Without(r, g + 1), g, r[g + 1])
  <2>1. /\ ~Holds(r, g) /\ ~JoinsPrevious(r, g) /\ JoinsNext(r, g)
        /\ rangesBySubgroup' = Store(s, q)
        /\ rangeCount' = rangeCount /\ exhausted' = exhausted
    BY <1>3, <1>12 DEF InsertBelow, r
  <2>2. /\ Adds(r, g, q) /\ DOMAIN q = (DOMAIN r \ {g + 1}) \cup {g}
        /\ g + 1 \in DOMAIN r /\ g \notin DOMAIN r
    BY <1>2, <2>1, BelowAdds
  <2> HIDE DEF q
  <2>3. g # g + 1 BY MaxGroupAssumption DEF Groups
  <2>4. Ranges' = (Ranges \ {<<s, g + 1>>}) \cup {<<s, g>>} BY <1>4, <1>8, <2>1, <2>2
  <2>5. /\ IsFiniteSet(Ranges \ {<<s, g + 1>>})
        /\ Cardinality(Ranges \ {<<s, g + 1>>}) = Cardinality(Ranges) - 1
    BY <1>1, <1>5, <2>2, FS_RemoveElement
  <2>6. <<s, g>> \notin Ranges \ {<<s, g + 1>>} BY <1>6, <2>2
  <2>7. /\ IsFiniteSet(Ranges')
        /\ Cardinality(Ranges') = Cardinality(Ranges \ {<<s, g + 1>>}) + 1
    BY <2>4, <2>5, <2>6, FS_AddElement
  <2>8. rangeCount' = Cardinality(Ranges') /\ rangeCount' \in Nat /\ rangeCount' <= MaxRanges
    BY <1>1, <2>1, <2>5, <2>7
  <2>9. QED BY <1>7, <2>1, <2>2, <2>7, <2>8
<1>13. CASE InsertNew(s, g)
  <2> DEFINE q == WithRange(r, g, g)
  <2>1. /\ ~Holds(r, g) /\ ~JoinsPrevious(r, g) /\ ~JoinsNext(r, g)
        /\ rangesBySubgroup' = Store(s, q) /\ rangeCount < MaxRanges
        /\ rangeCount' = rangeCount + 1 /\ exhausted' = exhausted
    BY <1>3, <1>13 DEF InsertNew, IsolatedFrom, r
  <2>2. Adds(r, g, q) /\ DOMAIN q = DOMAIN r \cup {g} /\ g \notin DOMAIN r BY <1>2, <2>1, NewAdds
  <2> HIDE DEF q
  <2>3. Ranges' = Ranges \cup {<<s, g>>} BY <1>4, <1>8, <2>1, <2>2
  <2>4. IsFiniteSet(Ranges') /\ Cardinality(Ranges') = Cardinality(Ranges) + 1
    BY <1>1, <1>6, <2>2, <2>3, FS_AddElement
  <2>5. rangeCount' = Cardinality(Ranges') /\ rangeCount' \in Nat /\ rangeCount' <= MaxRanges
    BY <1>1, <2>1, <2>4
  <2>6. QED BY <1>7, <2>1, <2>2, <2>4, <2>5
<1>14. CASE InsertRefused(s, g)
  <2>1. UNCHANGED <<rangesBySubgroup, rangeCount>> /\ exhausted' = TRUE BY <1>14 DEF InsertRefused
  <2>2. QED BY <1>14, <2>1 DEF Inv, TypeOK, RangesApart, Ranges, RangesOf, CountExact, StorageBounded
<1>15. QED BY <1>9, <1>10, <1>11, <1>12, <1>13, <1>14 DEF Insert

(* An empty tracker satisfies the invariant and has no members. *)
LEMMA EmptyFacts ==
    ASSUME rangesBySubgroup = [s \in {} |-> EmptyRanges], rangeCount = 0,
           exhausted \in BOOLEAN
    PROVE  Inv /\ Members = {}
<1>1. \A s \in Subgroups : RangesOf(s) = EmptyRanges /\ DOMAIN RangesOf(s) = {} BY DEF RangesOf, EmptyRanges
<1>2. Ranges = {} /\ Members = {} BY <1>1 DEF Ranges, Members, ContainsGroup
<1>3. IsFiniteSet(Ranges) /\ Cardinality(Ranges) = 0 BY <1>2, FS_EmptySet
<1>4. QED BY <1>2, <1>3, MaxRangesAssumption DEF Inv, TypeOK, RangesApart, CountExact, StorageBounded

(* clear leaves an empty tracker. *)
LEMMA ClearFacts ==
    ASSUME Clear
    PROVE  Inv' /\ Members' = {}
<1>1. /\ rangesBySubgroup' = [s \in {} |-> EmptyRanges] /\ rangeCount' = 0
      /\ exhausted' = FALSE
  BY DEF Clear
<1>2. \A s \in Subgroups : RangesOf(s)' = EmptyRanges /\ DOMAIN RangesOf(s)' = {}
  BY <1>1 DEF RangesOf, EmptyRanges
<1>3. Ranges' = {} /\ Members' = {} BY <1>2 DEF Ranges, Members, ContainsGroup
<1>4. IsFiniteSet(Ranges') /\ Cardinality(Ranges') = 0 BY <1>3, FS_EmptySet
<1>5. CountExact' /\ IsFiniteSet(Ranges)' BY <1>1, <1>4 DEF CountExact
<1>6. TypeOK' /\ RangesApart' /\ StorageBounded'
  <2>1. DOMAIN rangesBySubgroup' = {} BY <1>1
  <2>2. rangeCount' \in Nat /\ rangeCount' <= MaxRanges BY <1>1, MaxRangesAssumption
  <2>3. TypeOK'
    <3>1. exhausted' \in BOOLEAN BY <1>1, Zenon
    <3>2. QED BY <2>1, <2>2, <3>1 DEF TypeOK
  <2>4. RangesApart' /\ StorageBounded' BY <2>1, <2>2 DEF RangesApart, StorageBounded
  <2>5. QED BY <2>3, <2>4
<1>7. QED BY <1>3, <1>5, <1>6 DEF Inv

(* Doing nothing keeps both. *)
LEMMA StutterKeepsInv ==
    ASSUME Inv, UNCHANGED vars
    PROVE  Inv' /\ Members' = Members
BY DEF Inv, TypeOK, RangesApart, Ranges, RangesOf, CountExact, StorageBounded, Members, ContainsGroup, vars

(* In every reachable state the ranges of a subgroup are apart, the count
   is the number of ranges and the storage is within its bound. *)
THEOREM TrackerInvariant == Spec => []Inv
<1>1. Init => Inv BY EmptyFacts DEF Init
<1>2. Inv /\ [Next]_vars => Inv' BY InsertKeepsInv, ClearFacts, StutterKeepsInv DEF Next
<1>3. QED BY <1>1, <1>2, PTL DEF Spec

(* The ranges never overlap or touch and range_count_ counts them
   (TrackerSound), for any order of completion. *)
THEOREM TrackerStaysSound == Spec => []TrackerSound
<1>1. Inv => TrackerSound BY DEF Inv, TrackerSound
<1>2. QED BY <1>1, TrackerInvariant, PTL

-----------------------------------------------------------------------------
(* The ranges are the maximal runs of the set they stand for. *)
LEMMA RangesAreRuns ==
    ASSUME Inv
    PROVE  Abstract!RunStarts(Members) = Ranges
<1>1. TypeOK /\ RangesApart BY DEF Inv
<1>2. ASSUME NEW s \in Subgroups, NEW g \in Groups
      PROVE  <<s, g>> \in Abstract!RunStarts(Members) <=> g \in DOMAIN RangesOf(s)
  <2> DEFINE r == RangesOf(s)
  <2>1. r \in RangeMaps /\ Apart(r) BY <1>1, RangesOfFacts
  <2>2. DOMAIN r \subseteq Nat /\ \A a \in DOMAIN r : a \in Groups /\ r[a] \in Nat
    BY <2>1, RangeMapFacts, MaxGroupAssumption DEF Groups
  <2>3. g \in Nat /\ (g # 0 => g - 1 \in Groups) /\ (g = 0 => g - 1 \notin Groups)
    BY MaxGroupAssumption DEF Groups
  <2>4. <<s, g - 1>> \in Members <=> g # 0 /\ Holds(r, g - 1)
    <3>1. CASE g = 0 BY <3>1, <2>3 DEF Members
    <3>2. CASE g # 0 BY <3>2, <2>3, <1>1, MembersFacts
    <3>3. QED BY <3>1, <3>2
  <2>5. <<s, g>> \in Members <=> Holds(r, g) BY <1>1, MembersFacts
  <2>6. <<s, g>> \in Abstract!RunStarts(Members) <=>
            Holds(r, g) /\ ~(g # 0 /\ Holds(r, g - 1))
    BY <2>4, <2>5 DEF Abstract!RunStarts
  <2> HIDE DEF r
  <2>7. ASSUME g \in DOMAIN r
        PROVE  Holds(r, g) /\ ~(g # 0 /\ Holds(r, g - 1))
    BY <2>1, <2>2, <2>3, <2>7 DEF Apart, Holds
  <2>8. ASSUME g \notin DOMAIN r, Holds(r, g)
        PROVE  g # 0 /\ Holds(r, g - 1)
    <3>1. PICK a \in DOMAIN r : a <= g /\ g <= r[a] BY <2>8 DEF Holds
    <3>2. a <= g - 1 /\ g - 1 <= r[a] /\ g # 0 BY <3>1, <2>2, <2>3, <2>8
    <3>3. QED BY <3>2 DEF Holds
  <2>9. QED BY <2>6, <2>7, <2>8 DEF r
<1>3. Abstract!RunStarts(Members) \subseteq Subgroups \X Groups BY DEF Abstract!RunStarts, Members
<1>4. \A s \in Subgroups, g \in Groups : <<s, g>> \in Ranges <=> g \in DOMAIN RangesOf(s) BY DEF Ranges
<1>5. Ranges \subseteq Subgroups \X Groups BY DEF Ranges
<1>6. ASSUME NEW p \in Subgroups \X Groups
      PROVE  p \in Abstract!RunStarts(Members) <=> p \in Ranges
  <2>1. PICK s \in Subgroups, g \in Groups : p = <<s, g>> OBVIOUS
  <2>2. QED BY <1>2, <1>4, <2>1
<1>7. QED BY <1>3, <1>5, <1>6

(* A refused group touches no recorded group. *)
LEMMA RefusedIsIsolated ==
    ASSUME Inv, NEW s \in Subgroups, NEW g \in Groups, IsolatedFrom(s, g)
    PROVE  /\ <<s, g>> \notin Members
           /\ <<s, g - 1>> \notin Members
           /\ <<s, g + 1>> \notin Members
<1> DEFINE r == RangesOf(s)
<1>1. TypeOK /\ RangesApart BY DEF Inv
<1>2. r \in RangeMaps /\ Apart(r) BY <1>1, RangesOfFacts
<1>3. DOMAIN r \subseteq Nat /\ \A a \in DOMAIN r : r[a] \in Nat
  BY <1>2, RangeMapFacts, MaxGroupAssumption DEF Groups
<1>4. g \in Nat BY MaxGroupAssumption DEF Groups
<1>5. \A h \in Groups : <<s, h>> \in Members <=> Holds(r, h) BY <1>1, MembersFacts
<1>6. ~Holds(r, g) BY <1>1, MembersFacts DEF IsolatedFrom
<1>7. \A a \in DOMAIN r : r[a] + 1 # g BY <1>2, JoinsPreviousMeans DEF IsolatedFrom
<1>8. g + 1 \notin DOMAIN r BY <1>2, JoinsNextMeans DEF IsolatedFrom
<1> HIDE DEF r
<1>9. ~Holds(r, g - 1)
  <2> SUFFICES ASSUME NEW a \in DOMAIN r, a <= g - 1, g - 1 <= r[a] PROVE FALSE BY DEF Holds
  <2>1. ~(a <= g /\ g <= r[a]) /\ r[a] + 1 # g BY <1>6, <1>7 DEF Holds
  <2>2. QED BY <2>1, <1>3, <1>4
<1>10. ~Holds(r, g + 1)
  <2> SUFFICES ASSUME NEW a \in DOMAIN r, a <= g + 1, g + 1 <= r[a] PROVE FALSE BY DEF Holds
  <2>1. ~(a <= g /\ g <= r[a]) /\ a # g + 1 BY <1>6, <1>8 DEF Holds
  <2>2. QED BY <2>1, <1>3, <1>4
<1>11. \A h : <<s, h>> \in Members => h \in Groups BY DEF Members
<1>12. QED BY <1>5, <1>6, <1>9, <1>10, <1>11

(* The tracker implements an exact set (ImplementsExactSet): contains
   answers for exactly the groups inserted since the last clear, and an
   insertion is refused only when the set has MaxRanges separate runs. *)
THEOREM TrackerIsExact == Spec => ImplementsExactSet
<1>1. Init => Abstract!Init BY EmptyFacts DEF Init, Abstract!Init
<1>2. ASSUME Inv, [Next]_vars
      PROVE  [Abstract!Next]_<<Members, exhausted>>
  <2>1. ASSUME NEW s \in Subgroups, NEW g \in Groups, Insert(s, g)
        PROVE  Abstract!Insert(s, g) \/ Abstract!Refuse(s, g)
    <3>1. CASE ~InsertRefused(s, g) BY <1>2, <2>1, <3>1, InsertKeepsInv DEF Abstract!Insert
    <3>2. CASE InsertRefused(s, g)
      <4>1. /\ <<s, g>> \notin Members
            /\ <<s, g - 1>> \notin Members /\ <<s, g + 1>> \notin Members
        BY <1>2, <3>2, RefusedIsIsolated DEF InsertRefused
      <4>2. Cardinality(Abstract!RunStarts(Members)) >= MaxRanges
        BY <1>2, <3>2, RangesAreRuns DEF InsertRefused, Inv, CountExact
      <4>3. exhausted' = TRUE /\ Members' = Members
        BY <3>2 DEF InsertRefused, Members, ContainsGroup, RangesOf
      <4>4. Abstract!Cardinality(Abstract!RunStarts(Members)) >= MaxRanges
        BY <4>2 DEF Cardinality, IsFiniteSet, Abstract!Cardinality, Abstract!IsFiniteSet
      <4>5. QED BY <4>1, <4>3, <4>4 DEF Abstract!Refuse
    <3>3. QED BY <3>1, <3>2
  <2>2. Clear => Abstract!Clear BY ClearFacts DEF Clear, Abstract!Clear
  <2>3. UNCHANGED vars => UNCHANGED <<Members, exhausted>> BY <1>2, StutterKeepsInv DEF vars
  <2>4. QED BY <1>2, <2>1, <2>2, <2>3 DEF Next, Abstract!Next, Groups, Abstract!Groups
<1>3. QED BY <1>1, <1>2, TrackerInvariant, PTL DEF Spec, ImplementsExactSet, Abstract!Spec

-----------------------------------------------------------------------------
\* The elements of a set on which a key is least.
LEMMA LeastOnes ==
    ASSUME NEW S, IsFiniteSet(S), S # {}, NEW v, \A x \in S : v[x] \in Int
    PROVE  \E m \in S : \A x \in S : v[m] <= v[x]
<1> DEFINE G == {T \in SUBSET S : T # {} => \E m \in T : \A x \in T : v[m] <= v[x]}
<1>1. {} \in G OBVIOUS
<1>2. ASSUME NEW T \in G, NEW y \in S \ T PROVE T \cup {y} \in G
  <2>1. CASE T = {} BY <1>2, <2>1
  <2>2. CASE T # {}
    <3>1. PICK m \in T : \A x \in T : v[m] <= v[x] BY <1>2, <2>2
    <3>2. v[m] \in Int /\ v[y] \in Int /\ m \in T /\ \A x \in T : v[x] \in Int BY <1>2, <3>1
    <3>3. CASE v[m] <= v[y]
      <4>1. \A x \in T \cup {y} : v[m] <= v[x] BY <3>1, <3>3
      <4> QED BY <1>2, <3>2, <4>1
    <3>4. CASE ~(v[m] <= v[y])
      <4>1. \A x \in T \cup {y} : v[y] <= v[x] BY <3>1, <3>2, <3>4
      <4> QED BY <1>2, <4>1
    <3> QED BY <3>3, <3>4
  <2> QED BY <2>1, <2>2
<1> HIDE DEF G
<1>3. S \in G BY <1>1, <1>2, SubsetInduction
<1> QED BY <1>3 DEF G

\* Keys of n integers, all different, have a least one in lexicographic order.
LEMMA LexLeast ==
    ASSUME NEW n \in Nat, NEW S, IsFiniteSet(S), S # {}, NEW K \in [S -> [1..n -> Int]],
           \A x, y \in S : K[x] = K[y] => x = y
    PROVE  \E m \in S : \A x \in S \ {m} : LexLess(K[m], K[x])
<1> DEFINE Agree(T, j) == \A t, u \in T : \A i \in 1..j : K[t][i] = K[u][i]
           Ahead(T) == \A t \in T, x \in S \ T : LexLess(K[t], K[x])
           G == {j \in Nat : j <= n => \E T \in SUBSET S : T # {} /\ Agree(T, j) /\ Ahead(T)}
<1>1. 0 \in G
  <2>1. Agree(S, 0) /\ Ahead(S) /\ S \in SUBSET S OBVIOUS
  <2> QED BY <2>1
<1>2. ASSUME NEW j \in Nat, j \in G PROVE j + 1 \in G
  <2> HIDE DEF Agree, Ahead
  <2> SUFFICES ASSUME j + 1 <= n
               PROVE  \E T \in SUBSET S : T # {} /\ Agree(T, j + 1) /\ Ahead(T)
    BY <1>2
  <2>0. j <= n BY <1>2
  <2>1. PICK T \in SUBSET S : T # {} /\ Agree(T, j) /\ Ahead(T) BY <1>2, <2>0
  <2> USE DEF Agree, Ahead
  <2> DEFINE v == [x \in T |-> K[x][j + 1]]
  <2>2. \A x \in T : v[x] = K[x][j + 1] /\ v[x] \in Int BY <2>1
  <2>3. IsFiniteSet(T) BY <2>1, FS_Subset
  <2> HIDE DEF v
  <2>4. PICK m \in T : \A x \in T : v[m] <= v[x] BY <2>1, <2>2, <2>3, LeastOnes
  <2> DEFINE U == {x \in T : v[x] = v[m]}
  <2>5. U # {} /\ U \in SUBSET S BY <2>1, <2>4
  <2>6. Agree(U, j + 1)
    <3> SUFFICES ASSUME NEW t \in U, NEW u \in U, NEW i \in 1..j + 1 PROVE K[t][i] = K[u][i] OBVIOUS
    <3>1. CASE i = j + 1 BY <2>2, <3>1
    <3>2. CASE i # j + 1
      <4>1. i \in 1..j BY <1>2, <3>2
      <4> QED BY <2>1, <4>1
    <3> QED BY <3>1, <3>2
  <2>7. Ahead(U)
    <3> SUFFICES ASSUME NEW t \in U, NEW x \in S \ U PROVE LexLess(K[t], K[x]) OBVIOUS
    <3>1. CASE x \notin T BY <2>1, <3>1
    <3>2. CASE x \in T
      <4>1. v[t] < v[x]
        <5>1. v[t] = v[m] /\ v[m] <= v[x] /\ v[x] # v[m] /\ v[x] \in Int /\ v[m] \in Int BY <2>2, <2>4, <3>2
        <5> QED BY <5>1
      <4>2. K[t][j + 1] < K[x][j + 1] /\ t \in T /\ t \in S BY <2>2, <3>2, <4>1
      <4>3. \A i \in 1..((j + 1) - 1) : K[t][i] = K[x][i] BY <2>1, <3>2, <4>2
      <4>4. DOMAIN K[t] = 1..n /\ j + 1 \in 1..n BY <4>2
      <4> QED BY <4>2, <4>3, <4>4 DEF LexLess
    <3> QED BY <3>1, <3>2
  <2> HIDE DEF U, Agree, Ahead
  <2> QED BY <2>5, <2>6, <2>7
<1> HIDE DEF G, Agree, Ahead
<1>3. n \in G BY <1>1, <1>2, NatSetInduction
<1>4. PICK T \in SUBSET S : T # {} /\ Agree(T, n) /\ Ahead(T) BY <1>3 DEF G
<1> USE DEF Agree, Ahead
<1>5. PICK m \in T : TRUE BY <1>4
<1>6. \A x \in T : x = m
  <2> TAKE x \in T
  <2>1. K[x] \in [1..n -> Int] /\ K[m] \in [1..n -> Int] BY <1>4, <1>5
  <2>2. \A i \in 1..n : K[x][i] = K[m][i] BY <1>4, <1>5
  <2>3. K[x] = K[m] BY <2>1, <2>2
  <2> QED BY <1>4, <1>5, <2>3
<1>7. \A x \in S \ {m} : LexLess(K[m], K[x]) BY <1>4, <1>5, <1>6
<1> QED BY <1>4, <1>5, <1>7

\* The lexicographic order is strict.
LEMMA LexStrict ==
    ASSUME NEW n \in Nat, NEW a \in [1..n -> Int], NEW b \in [1..n -> Int]
    PROVE  /\ ~LexLess(a, a)
           /\ LexLess(a, b) => ~LexLess(b, a)
           /\ LexLess(a, b) /\ n > 0 => a[1] <= b[1]
<1>1. ~LexLess(a, a) BY DEF LexLess
<1>2. ASSUME LexLess(a, b), LexLess(b, a) PROVE FALSE
  <2>1. PICK i \in 1..n : a[i] < b[i] /\ \A j \in 1..(i - 1) : a[j] = b[j] BY <1>2 DEF LexLess
  <2>2. PICK k \in 1..n : b[k] < a[k] /\ \A j \in 1..(k - 1) : b[j] = a[j] BY <1>2 DEF LexLess
  <2>3. CASE i < k
    <3>1. i \in 1..(k - 1) BY <2>3
    <3> QED BY <2>1, <2>2, <3>1
  <2>4. CASE k < i
    <3>1. k \in 1..(i - 1) BY <2>4
    <3> QED BY <2>1, <2>2, <3>1
  <2>5. CASE i = k BY <2>1, <2>2, <2>5
  <2> QED BY <2>3, <2>4, <2>5
<1>3. ASSUME LexLess(a, b), n > 0 PROVE a[1] <= b[1]
  <2>1. PICK i \in 1..n : a[i] < b[i] /\ \A j \in 1..(i - 1) : a[j] = b[j] BY <1>3 DEF LexLess
  <2>2. CASE i = 1 BY <2>1, <2>2
  <2>3. CASE i # 1
    <3>1. 1 \in 1..(i - 1) BY <2>3
    <3> QED BY <2>1, <3>1
  <2> QED BY <2>2, <2>3
<1> QED BY <1>1, <1>2, <1>3

(* ---- the priority scheduler ---- *)

RequestFields ==
    {"track", "priority", "group_order", "filter", "cycle", "admitted", "round",
     "generation", "subgroup_frontiers", "scheduler_frontiers", "paused", "parked",
     "completed"}

\* An ActiveSubscription.
IsRequest(a) ==
    /\ DOMAIN a = RequestFields
    /\ a.priority \in Nat /\ a.group_order \in {1, 2} /\ a.filter \in Nat \X Nat
    /\ a.cycle \in Nat /\ a.round \in Nat /\ a.generation \in Nat
    /\ a.admitted \subseteq Indices
    /\ a.paused \in BOOLEAN /\ a.parked \in BOOLEAN /\ a.completed \in BOOLEAN

\* s lists the plan indices S in object order.
Lists(s, S) ==
    /\ s \in Seq(S) /\ ToSet(s) = S
    /\ \A j, k \in DOMAIN s : j < k => LexLess(ObjectKey(s[j]), ObjectKey(s[k]))

\* The objects of subgroup k that request a has still to send.
Left(a, k) == {i \in Selected(a) \ a.admitted : SubgroupOf(i) = k}

\* The frontiers of a request list what it has still to send.
FrontOf(a) ==
    LET f == a.subgroup_frontiers
    IN  /\ \A k \in DOMAIN f : Lists(f[k], Left(a, k))
        /\ \A i \in Selected(a) \ a.admitted : SubgroupOf(i) \in DOMAIN f
        /\ a.scheduler_frontiers = {Head(f[k]) : k \in {q \in DOMAIN f : f[q] # <<>>}}

RequestsSound ==
    /\ DOMAIN active \in SUBSET Requests /\ IsFiniteSet(DOMAIN active)
    /\ \A r \in DOMAIN active : IsRequest(active[r]) /\ FrontOf(active[r])

HeapShape ==
    /\ IsABag(eligible) /\ blocked \in Seq(ToSet(blocked))
    /\ pc = "control" => blocked = <<>>

HeapKept ==
    \A r \in DOMAIN active :
        Enqueues(active[r]) =>
            Candidate(r, active[r], HeadOf(active[r])) \in DOMAIN eligible \cup ToSet(blocked)

\* s runs far enough behind q to wake it.
Wakes(f, s, q) ==
    /\ ~f[s].parked
    /\ \/ f[s].cycle + MaxLead <= f[q].cycle
       \/ f[s].admitted = {} /\ f[s].cycle <= f[q].cycle

LeadersWaitIn(f) ==
    \A q \in DOMAIN f :
        f[q].parked => ~f[q].completed /\ \E s \in DOMAIN f : Wakes(f, s, q)

LeadersWait == LeadersWaitIn(active)

OriginsKept ==
    /\ oldest \in Nat /\ origins \subseteq Nat /\ CycleRetained

SchedulerInv ==
    RequestsSound /\ HeapShape /\ HeapKept /\ LeadersWait /\ OriginsKept

\* ---- the order of service

IsCandidate(c) ==
    /\ c = [request |-> c.request, generation |-> c.generation, cycle |-> c.cycle,
            index |-> c.index, priority |-> c.priority, time |-> c.time,
            round |-> c.round, group_order |-> c.group_order]
    /\ c.request \in Nat /\ c.generation \in Nat /\ c.cycle \in Nat /\ c.index \in Indices
    /\ c.priority \in Nat /\ c.round \in Nat /\ c.group_order \in {1, 2}
    /\ c.time = LoopedTime(c.index, c.cycle)

\* c is a candidate of a request of f, none newer than what f says, or of an ended one.
Known(f, e, c) ==
    /\ IsCandidate(c)
    /\ c.request \in DOMAIN f \cup e
    /\ c.request \in DOMAIN f =>
         /\ c.generation <= f[c.request].generation
         /\ c.generation = f[c.request].generation => c.priority = f[c.request].priority

CandidatesKnown ==
    /\ IsFiniteSet(DOMAIN eligible)
    /\ \A c \in DOMAIN eligible \cup ToSet(blocked) : Known(active, DOMAIN ended, c)

BlockedInOrder ==
    /\ \A k \in DOMAIN blocked : Live(blocked[k])
    /\ \A j, k \in DOMAIN blocked : j < k => blocked[j].priority <= blocked[k].priority
    /\ \A c \in ToSet(blocked), d \in DOMAIN eligible : c.priority <= d.priority

AdmittedSent ==
    \A r \in DOMAIN active : \A i \in active[r].admitted : <<r, active[r].cycle, i>> \in sent

OrderInv == SchedulerInv /\ CandidatesKnown /\ BlockedInOrder /\ AdmittedSent

(* ---- the order ---- *)

\* The plan is a finite list with natural fields.
LEMMA PlanFacts ==
    /\ IsFiniteSet(Indices) /\ Indices \subseteq Nat
    /\ \A i \in Indices : /\ Plan[i].group \in Nat /\ Plan[i].subgroup \in Nat
                          /\ Plan[i].object \in Nat /\ Plan[i].time \in Nat
<1>1. Len(Plan) \in Nat /\ Indices = 1..Len(Plan) BY SchedulerAssumption DEF Indices
<1>2. \A i \in Indices : {Plan[i].group, Plan[i].subgroup, Plan[i].object, Plan[i].time} \subseteq Nat
  BY SchedulerAssumption DEF Indices
<1>3. IsFiniteSet(Indices) /\ Indices \subseteq Nat BY <1>1, FS_Interval
<1> QED BY <1>2, <1>3

\* What std::sort compares: the object number, then the index.
LEMMA ObjectKeys ==
    \A i \in Indices : /\ ObjectKey(i) \in [1..2 -> Int]
                       /\ ObjectKey(i)[1] = Plan[i].object /\ ObjectKey(i)[2] = i
  BY PlanFacts DEF ObjectKey

\* Plan indices in object order.
Ordered(s) ==
    \A j, k \in DOMAIN s : j < k => LexLess(ObjectKey(s[j]), ObjectKey(s[k]))

\* Any set of indices can be listed in object order, by the least key first.
LEMMA OrderExists ==
    ASSUME NEW S \in SUBSET Indices
    PROVE  \E s \in [1..Cardinality(S) -> S] : Ordered(s)
<1> DEFINE G == {n \in Nat : \A T \in SUBSET Indices :
                   Cardinality(T) = n => \E s \in [1..n -> T] : Ordered(s)}
<1>0. \A T \in SUBSET Indices : IsFiniteSet(T) /\ Cardinality(T) \in Nat
  BY PlanFacts, FS_Subset, FS_CardinalityType
<1>1. 0 \in G
  <2> SUFFICES ASSUME NEW T \in SUBSET Indices, Cardinality(T) = 0
               PROVE  \E s \in [1..0 -> T] : Ordered(s)
    OBVIOUS
  <2>1. [i \in {} |-> 0] \in [1..0 -> T] /\ Ordered([i \in {} |-> 0]) BY DEF Ordered
  <2> QED BY <2>1
<1>2. ASSUME NEW n \in Nat, n \in G PROVE n + 1 \in G
  <2> SUFFICES ASSUME NEW T \in SUBSET Indices, Cardinality(T) = n + 1
               PROVE  \E s \in [1..n + 1 -> T] : Ordered(s)
    OBVIOUS
  <2>1. T # {} /\ IsFiniteSet(T)
    <3>1. T = {} => Cardinality(T) = 0 BY FS_EmptySet, Zenon
    <3> QED BY <1>0, <3>1
  <2> DEFINE K == [i \in T |-> ObjectKey(i)]
  <2>2. K \in [T -> [1..2 -> Int]] /\ \A x, y \in T : K[x] = K[y] => x = y BY ObjectKeys
  <2>2a. \A x \in T : K[x] = ObjectKey(x) OBVIOUS
  <2> HIDE DEF K
  <2>3. PICK m \in T : \A x \in T \ {m} : LexLess(K[m], K[x]) BY <2>1, <2>2, LexLeast
  <2>4. Cardinality(T \ {m}) = n /\ T \ {m} \in SUBSET Indices
    <3>1. Cardinality(T \ {m}) = Cardinality(T) - 1 BY <2>1, <2>3, FS_RemoveElement
    <3> QED BY <3>1
  <2>5. PICK e \in [1..n -> T \ {m}] : Ordered(e) BY <1>2, <2>4
  <2> DEFINE s == [i \in 1..n + 1 |-> IF i = 1 THEN m ELSE e[i - 1]]
  <2>6. \A i \in 1..n + 1 : i # 1 => i - 1 \in 1..n /\ s[i] = e[i - 1] /\ s[i] \in T \ {m} BY <2>5
  <2>7. s[1] = m /\ DOMAIN s = 1..n + 1 OBVIOUS
  <2>8. s \in [1..n + 1 -> T] BY <2>3, <2>6, <2>7
  <2> HIDE DEF s
  <2>9. ASSUME NEW j \in 1..n + 1, NEW k \in 1..n + 1, j < k
        PROVE  LexLess(ObjectKey(s[j]), ObjectKey(s[k]))
    <3>1. k # 1 BY <2>9
    <3>2. CASE j = 1
      <4>1. LexLess(K[m], K[s[k]]) BY <2>3, <2>6, <3>1
      <4> QED BY <2>2a, <2>3, <2>6, <2>7, <3>1, <3>2, <4>1
    <3>3. CASE j # 1
      <4>1. j - 1 \in 1..n /\ k - 1 \in 1..n /\ j - 1 < k - 1 BY <2>6, <2>9, <3>1, <3>3
      <4>2. DOMAIN e = 1..n BY <2>5
      <4>3. LexLess(ObjectKey(e[j - 1]), ObjectKey(e[k - 1])) BY <2>5, <4>1, <4>2 DEF Ordered
      <4> QED BY <2>6, <3>1, <3>3, <4>3
    <3> QED BY <3>2, <3>3
  <2>10. Ordered(s) BY <2>7, <2>9 DEF Ordered
  <2> QED BY <2>8, <2>10
<1> HIDE DEF G
<1>3. Cardinality(S) \in G BY <1>0, <1>1, <1>2, NatSetInduction
<1> QED BY <1>3 DEF G

\* The sort of object_indices lists exactly the set, in object order.
LEMMA InOrderLists ==
    ASSUME NEW S \in SUBSET Indices
    PROVE  Lists(InObjectOrder(S), S)
<1> DEFINE n == Cardinality(S)
<1>0. IsFiniteSet(S) /\ n \in Nat BY PlanFacts, FS_Subset, FS_CardinalityType
<1>1. PICK s \in [1..n -> S] : Ordered(s) BY OrderExists
<1>2. \A j, k \in 1..n : j < k => s[j] # s[k]
  <2> SUFFICES ASSUME NEW j \in 1..n, NEW k \in 1..n, j < k, s[j] = s[k] PROVE FALSE OBVIOUS
  <2>1. LexLess(ObjectKey(s[j]), ObjectKey(s[j])) /\ s[j] \in Indices BY <1>1 DEF Ordered
  <2>2. ObjectKey(s[j]) \in [1..2 -> Int] /\ 2 \in Nat BY <2>1, ObjectKeys
  <2> QED BY <2>1, <2>2, LexStrict
<1> HIDE DEF n
<1>3. \A j, k \in 1..n : j # k => s[j] # s[k]
  <2> SUFFICES ASSUME NEW j \in 1..n, NEW k \in 1..n, j # k PROVE s[j] # s[k] OBVIOUS
  <2>1. j < k \/ k < j BY <1>0
  <2> QED BY <1>2, <2>1
<1>4. s \in SetToSeqs(S) BY <1>1, <1>3 DEF SetToSeqs, n
<1> DEFINE t == InObjectOrder(S)
<1>5. t \in SetToSeqs(S) /\ Ordered(t) BY <1>1, <1>4 DEF InObjectOrder, Ordered
<1> HIDE DEF t
<1>6. t \in [1..n -> S] /\ \A j, k \in 1..n : j # k => t[j] # t[k] BY <1>5 DEF SetToSeqs, n
<1>7. t \in Injection(1..n, S) BY <1>6 DEF Injection, IsInjective
<1>8. Cardinality(1..n) = Cardinality(S) BY <1>0, FS_Interval DEF n
<1>9. t \in Surjection(1..n, S) BY <1>0, <1>7, <1>8, FS_Injection
<1>10. ToSet(t) = S
  <2>1. \A x \in S : \E j \in 1..n : t[j] = x BY <1>9 DEF Surjection
  <2> QED BY <1>6, <2>1 DEF ToSet
<1>11. t \in Seq(S) BY <1>0, <1>6, SeqDef
<1> QED BY <1>5, <1>10, <1>11 DEF Lists, Ordered, t

\* What the first of a list in object order is, and what is left of it.
LEMMA ListsFacts ==
    ASSUME NEW S \in SUBSET Indices, NEW s, Lists(s, S)
    PROVE  /\ s = <<>> <=> S = {}
           /\ s # <<>> =>
                /\ Head(s) \in S /\ Lists(Tail(s), S \ {Head(s)})
                /\ \A i \in S : Plan[Head(s)].object <= Plan[i].object
<1>1. s \in Seq(S) /\ ToSet(s) = S /\ Ordered(s) BY DEF Lists, Ordered
<1>2. Len(s) \in Nat /\ DOMAIN s = 1..Len(s) BY <1>1, LenProperties
<1>3. CASE s = <<>>
  <2>1. DOMAIN s = {} BY <1>3
  <2>2. S = {} BY <1>1, <2>1 DEF ToSet
  <2> QED BY <1>3, <2>2
<1>4. CASE s # <<>>
  <2> DEFINE h == Head(s)
             t == Tail(s)
  <2>1. /\ h = s[1] /\ s[1] \in S /\ t \in Seq(S)
        /\ Len(s) \in Nat \ {0} /\ DOMAIN t = 1..(Len(s) - 1)
        /\ \A i \in 1..(Len(s) - 1) : t[i] = s[i + 1]
    BY <1>1, <1>4, TailFacts
  <2> HIDE DEF h, t
  <2>2. \A i \in 1..(Len(s) - 1) : i + 1 \in DOMAIN s /\ i + 1 > 1 BY <1>2, <2>1
  <2>3. \A i \in DOMAIN s : i = 1 \/ (i - 1 \in 1..(Len(s) - 1) /\ i > 1) BY <1>2, <2>1
  <2>4. 1 \in DOMAIN s BY <1>2, <2>1
  <2>5. \A i \in DOMAIN s : i > 1 => LexLess(ObjectKey(h), ObjectKey(s[i])) BY <1>1, <2>1, <2>4 DEF Ordered
  <2>6. \A i \in DOMAIN s : s[i] \in S BY <1>1 DEF ToSet
  <2>7. \A i \in DOMAIN s : i > 1 => s[i] # h
    <3> SUFFICES ASSUME NEW i \in DOMAIN s, i > 1, s[i] = h PROVE FALSE OBVIOUS
    <3>1. LexLess(ObjectKey(h), ObjectKey(h)) /\ ObjectKey(h) \in [1..2 -> Int] /\ 2 \in Nat
      BY <2>1, <2>5, ObjectKeys
    <3> QED BY <3>1, LexStrict
  <2>8. \A i \in S : Plan[h].object <= Plan[i].object
    <3> SUFFICES ASSUME NEW i \in S PROVE Plan[h].object <= Plan[i].object OBVIOUS
    <3>1. PICK j \in DOMAIN s : s[j] = i BY <1>1 DEF ToSet
    <3>2. Plan[h].object \in Nat /\ Plan[i].object \in Nat /\ h \in Indices /\ i \in Indices
      BY <2>1, PlanFacts
    <3>3. CASE j = 1 BY <2>1, <3>1, <3>2, <3>3
    <3>4. CASE j > 1
      <4>1. LexLess(ObjectKey(h), ObjectKey(i)) BY <2>5, <3>1, <3>4
      <4>2. ObjectKey(h)[1] <= ObjectKey(i)[1]
        <5>1. 2 \in Nat /\ 2 > 0 OBVIOUS
        <5> QED BY <3>2, <4>1, <5>1, ObjectKeys, LexStrict
      <4> QED BY <3>2, <4>2, ObjectKeys
    <3> QED BY <1>2, <3>3, <3>4
  <2>9. ToSet(t) = S \ {h}
    <3>1. \A i \in DOMAIN t : t[i] \in S \ {h} BY <2>1, <2>2, <2>6, <2>7
    <3>2. ASSUME NEW x \in S \ {h} PROVE \E i \in DOMAIN t : t[i] = x
      <4>1. PICK j \in DOMAIN s : s[j] = x BY <1>1 DEF ToSet
      <4>2. j # 1 /\ j \in Nat BY <1>2, <2>1, <4>1
      <4>3. j - 1 \in 1..(Len(s) - 1) /\ (j - 1) + 1 = j BY <2>3, <4>2
      <4> QED BY <2>1, <4>1, <4>3
    <3> QED BY <3>1, <3>2 DEF ToSet
  <2>10. Ordered(t)
    <3> SUFFICES ASSUME NEW j \in DOMAIN t, NEW k \in DOMAIN t, j < k
                 PROVE  LexLess(ObjectKey(t[j]), ObjectKey(t[k]))
      BY DEF Ordered
    <3>1. j + 1 \in DOMAIN s /\ k + 1 \in DOMAIN s /\ j + 1 < k + 1 BY <2>1, <2>2
    <3> QED BY <1>1, <2>1, <3>1 DEF Ordered
  <2>11. t \in Seq(S \ {h})
    <3>1. \A i \in 1..(Len(s) - 1) : t[i] \in S \ {h} BY <2>1, <2>9 DEF ToSet
    <3>2. Len(s) - 1 \in Nat /\ t \in [1..(Len(s) - 1) -> S \ {h}]
      <4>1. t = [i \in 1..(Len(s) - 1) |-> t[i]] BY <2>1, LenProperties
      <4> QED BY <2>1, <3>1, <4>1
    <3> QED BY <3>2, SeqDef
  <2>12. Lists(t, S \ {h}) BY <2>9, <2>10, <2>11 DEF Lists, Ordered
  <2> QED BY <1>4, <2>1, <2>8, <2>12 DEF h, t
<1> QED BY <1>3, <1>4

\* What a request selects, and what is left of a subgroup, are plan indices.
LEMMA SelectedInside ==
    ASSUME NEW a, NEW k
    PROVE  Selected(a) \subseteq Indices /\ Left(a, k) \subseteq Indices
  BY DEF Selected, Left

\* What the frontiers of a request promise the scheduler.
LEMMA FrontFacts ==
    ASSUME NEW a, FrontOf(a)
    PROVE  /\ a.scheduler_frontiers \subseteq Selected(a) \ a.admitted
           /\ a.scheduler_frontiers \subseteq Indices /\ IsFiniteSet(a.scheduler_frontiers)
           /\ \A i \in a.scheduler_frontiers : Tracked(a, i)
           /\ a.scheduler_frontiers = {} <=> Selected(a) \ a.admitted = {}
<1> DEFINE f == a.subgroup_frontiers
           F == a.scheduler_frontiers
<1>0. /\ \A k \in DOMAIN f : Lists(f[k], Left(a, k))
      /\ \A i \in Selected(a) \ a.admitted : SubgroupOf(i) \in DOMAIN f
      /\ F = {Head(f[k]) : k \in {q \in DOMAIN f : f[q] # <<>>}}
  BY DEF FrontOf
<1> HIDE DEF f, F
<1>1. \A k \in DOMAIN f : f[k] # <<>> => Head(f[k]) \in Left(a, k) BY <1>0, SelectedInside, ListsFacts
<1>2. ASSUME NEW i \in F
      PROVE  i \in Selected(a) \ a.admitted /\ SubgroupOf(i) \in DOMAIN f
             /\ f[SubgroupOf(i)] # <<>> /\ Head(f[SubgroupOf(i)]) = i
  <2>1. PICK k \in DOMAIN f : f[k] # <<>> /\ i = Head(f[k]) BY <1>0, <1>2
  <2>2. i \in Left(a, k) BY <1>1, <2>1
  <2>3. SubgroupOf(i) = k /\ i \in Selected(a) \ a.admitted BY <2>2 DEF Left
  <2> QED BY <2>1, <2>3
<1>3. F \subseteq Selected(a) \ a.admitted BY <1>2
<1>4. F \subseteq Indices /\ IsFiniteSet(F) BY <1>3, SelectedInside, PlanFacts, FS_Subset
<1>5. ASSUME NEW i \in Selected(a) \ a.admitted PROVE F # {}
  <2>1. i \in Left(a, SubgroupOf(i)) /\ SubgroupOf(i) \in DOMAIN f BY <1>0 DEF Left
  <2>2. f[SubgroupOf(i)] # <<>> BY <1>0, <2>1, SelectedInside, ListsFacts
  <2> QED BY <1>0, <2>1, <2>2
<1>6. \A i \in F : Tracked(a, i) BY <1>2 DEF Tracked, f
<1> QED BY <1>3, <1>4, <1>5, <1>6 DEF F

\* The keys of scheduler_frontiers: four integers, told apart by the index.
LEMMA FrontierKeys ==
    ASSUME NEW a, IsRequest(a)
    PROVE  \A i \in Indices : FrontierKey(a, i) \in [1..4 -> Int] /\ FrontierKey(a, i)[4] = i
<1> SUFFICES ASSUME NEW i \in Indices
             PROVE  FrontierKey(a, i) \in [1..4 -> Int] /\ FrontierKey(a, i)[4] = i
  OBVIOUS
<1>1. GroupRank(i, a.group_order) \in Int BY PlanFacts DEF GroupRank
<1>2. Plan[i].subgroup \in Int /\ Plan[i].object \in Int /\ i \in Int BY PlanFacts
<1> QED BY <1>1, <1>2 DEF FrontierKey

\* The first of some indices in the order of a request's frontier.
LEMMA FrontierLeast ==
    ASSUME NEW a, IsRequest(a), NEW F \in SUBSET Indices, F # {}
    PROVE  \E i \in F : \A j \in F \ {i} : LexLess(FrontierKey(a, i), FrontierKey(a, j))
<1> DEFINE K == [i \in F |-> FrontierKey(a, i)]
<1>1. IsFiniteSet(F) BY PlanFacts, FS_Subset
<1>2. K \in [F -> [1..4 -> Int]] /\ \A x, y \in F : K[x] = K[y] => x = y BY FrontierKeys
<1>3. \A x \in F : K[x] = FrontierKey(a, x) OBVIOUS
<1> HIDE DEF K
<1>4. PICK m \in F : \A x \in F \ {m} : LexLess(K[m], K[x])
  <2>1. 4 \in Nat OBVIOUS
  <2> QED BY <1>1, <1>2, <2>1, LexLeast
<1> QED BY <1>3, <1>4

\* scheduler_frontiers.begin() is one of the frontiers.
LEMMA HeadInside ==
    ASSUME NEW a, IsRequest(a), FrontOf(a), a.scheduler_frontiers # {}
    PROVE  HeadOf(a) \in a.scheduler_frontiers
<1>1. a.scheduler_frontiers \in SUBSET Indices BY FrontFacts
<1>2. \E i \in a.scheduler_frontiers : \A j \in a.scheduler_frontiers \ {i} :
          LexLess(FrontierKey(a, i), FrontierKey(a, j))
  BY <1>1, FrontierLeast
<1> QED BY <1>2 DEF HeadOf

\* The successor of a frontier, when there is one, is a frontier.
LEMMA NextInside ==
    ASSUME NEW a, IsRequest(a), FrontOf(a), NEW i, After(a, i) # {}
    PROVE  NextAfter(a, i) \in a.scheduler_frontiers
<1>1. After(a, i) \in SUBSET Indices /\ After(a, i) \subseteq a.scheduler_frontiers BY FrontFacts DEF After
<1>2. \E j \in After(a, i) : \A k \in After(a, i) \ {j} :
          LexLess(FrontierKey(a, j), FrontierKey(a, k))
  BY <1>1, FrontierLeast
<1>3. NextAfter(a, i) \in After(a, i) BY <1>2 DEF NextAfter
<1> QED BY <1>1, <1>3

(* ---- one request ---- *)

\* b is a with the fields that the frontiers depend on unchanged.
SameChoice(a, b) == b.track = a.track /\ b.filter = a.filter

\* A request with the same track and filter selects the same objects.
LEMMA SelectedSame ==
    ASSUME NEW a, NEW b, SameChoice(a, b)
    PROVE  Selected(b) = Selected(a)
  BY DEF SameChoice, Selected

\* FrontOf looks at five fields only.
LEMMA FrontSame ==
    ASSUME NEW a, NEW b, SameChoice(a, b), b.admitted = a.admitted,
           b.subgroup_frontiers = a.subgroup_frontiers,
           b.scheduler_frontiers = a.scheduler_frontiers
    PROVE  FrontOf(b) <=> FrontOf(a)
<1>1. Selected(b) = Selected(a) BY SelectedSame
<1>2. \A k : Left(b, k) = Left(a, k) BY <1>1 DEF Left
<1> QED BY <1>1, <1>2 DEF FrontOf

\* rebuild_priority_frontiers lists what is left, and completes with nothing left.
LEMMA RebuiltFacts ==
    ASSUME NEW a, IsRequest(a)
    PROVE  LET b == Rebuilt(a)
           IN  /\ IsRequest(b) /\ FrontOf(b) /\ SameChoice(a, b)
               /\ b.priority = a.priority /\ b.group_order = a.group_order
               /\ b.cycle = a.cycle /\ b.admitted = a.admitted /\ b.round = a.round
               /\ b.generation = a.generation + 1
               /\ b.paused = a.paused /\ b.parked = a.parked
               /\ b.subgroup_frontiers = SubgroupFrontiers(a)
               /\ (b.completed <=> b.subgroup_frontiers = <<>>)
               /\ (b.subgroup_frontiers = <<>> => Selected(a) \ a.admitted = {})
<1> DEFINE b == Rebuilt(a)
           f == SubgroupFrontiers(a)
           left == Selected(a) \ a.admitted
<1>1. /\ DOMAIN b = RequestFields
      /\ b.priority = a.priority /\ b.group_order = a.group_order
      /\ b.track = a.track /\ b.filter = a.filter
      /\ b.cycle = a.cycle /\ b.admitted = a.admitted /\ b.round = a.round
      /\ b.generation = a.generation + 1
      /\ b.paused = a.paused /\ b.parked = a.parked
      /\ b.subgroup_frontiers = f
      /\ b.scheduler_frontiers = {Head(f[k]) : k \in DOMAIN f}
      /\ b.completed = (f = <<>>)
  BY DEF Rebuilt, IsRequest, RequestFields
<1>2. f = [k \in {SubgroupOf(i) : i \in left} |-> InObjectOrder({i \in left : SubgroupOf(i) = k})]
  BY DEF SubgroupFrontiers
<1> HIDE DEF b, f
<1>3. SameChoice(a, b) BY <1>1 DEF SameChoice
<1>4. Selected(b) = Selected(a) BY <1>3, SelectedSame
<1>5. \A k : Left(b, k) = {i \in left : SubgroupOf(i) = k} BY <1>1, <1>4 DEF Left
<1>6. \A k \in DOMAIN f : Lists(f[k], Left(b, k)) /\ f[k] # <<>>
  <2> SUFFICES ASSUME NEW k \in DOMAIN f PROVE Lists(f[k], Left(b, k)) /\ f[k] # <<>> OBVIOUS
  <2>1. f[k] = InObjectOrder(Left(b, k)) BY <1>2, <1>5
  <2>2. Left(b, k) \in SUBSET Indices BY SelectedInside
  <2>3. Lists(f[k], Left(b, k)) BY <2>1, <2>2, InOrderLists
  <2>4. Left(b, k) # {} BY <1>2, <1>5
  <2> QED BY <2>2, <2>3, <2>4, ListsFacts
<1>7. \A i \in left : SubgroupOf(i) \in DOMAIN f BY <1>2
<1>8. FrontOf(b)
  <2>1. {q \in DOMAIN f : f[q] # <<>>} = DOMAIN f BY <1>6
  <2> QED BY <1>1, <1>4, <1>6, <1>7, <2>1 DEF FrontOf
<1>9. f = <<>> => left = {}
  <2>1. f = <<>> => DOMAIN f = {} OBVIOUS
  <2> QED BY <1>7, <2>1
<1>10. IsRequest(b)
  <2>1. IsRequest(a) OBVIOUS
  <2> QED BY <1>1, <2>1 DEF IsRequest
<1> HIDE DEF left
<1>11. f = <<>> => Selected(a) \ a.admitted = {} BY <1>9 DEF left
<1> QED BY <1>1, <1>3, <1>8, <1>10, <1>11 DEF b, f

\* The slowest running cycle, and the request that is in it.
LEMMA RunningFacts ==
    ASSUME NEW f, IsFiniteSet(DOMAIN f), \A r \in DOMAIN f : IsRequest(f[r])
    PROVE  /\ RunningCycles(f) \subseteq Nat
           /\ RunningCycles(f) # {} =>
                /\ Min(RunningCycles(f)) \in Nat
                /\ \E s \in DOMAIN f : ~f[s].completed /\ f[s].cycle = Min(RunningCycles(f))
                /\ \A s \in DOMAIN f : ~f[s].completed => Min(RunningCycles(f)) <= f[s].cycle
<1>1. RunningCycles(f) \in SUBSET Nat BY DEF RunningCycles, IsRequest
<1>2. CASE RunningCycles(f) # {}
  <2>1. /\ Min(RunningCycles(f)) \in RunningCycles(f)
        /\ \A y \in RunningCycles(f) : Min(RunningCycles(f)) <= y
    BY <1>1, <1>2, NatMin
  <2>2. \A s \in DOMAIN f : ~f[s].completed => f[s].cycle \in RunningCycles(f) BY DEF RunningCycles
  <2>3. \A x \in RunningCycles(f) : \E s \in DOMAIN f : ~f[s].completed /\ f[s].cycle = x
    BY DEF RunningCycles
  <2> QED BY <1>1, <2>1, <2>2, <2>3
<1> QED BY <1>1, <1>2

\* The lead limit of the requests of f, for one that has reached a cycle.
Limit(f, cycle) ==
    IF RunningCycles(f) = {} THEN cycle + 1 ELSE Min(RunningCycles(f)) + MaxLead

\* Moving on, one case each: the input is over, the leader waits, the next cycle.
LEMMA AdvancedFacts ==
    ASSUME NEW a, IsRequest(a), FrontOf(a), NEW f,
           IsFiniteSet(DOMAIN f), \A r \in DOMAIN f : IsRequest(f[r])
    PROVE  LET b == Advanced(a, f)
           IN  /\ IsRequest(b) /\ FrontOf(b) /\ SameChoice(a, b)
               /\ b.priority = a.priority /\ b.group_order = a.group_order
               /\ b.paused = a.paused
               /\ \/ /\ ~b.parked /\ b.completed /\ b.cycle = a.cycle /\ b.admitted = a.admitted
                     /\ b.generation = a.generation
                     /\ b.scheduler_frontiers = a.scheduler_frontiers
                  \/ /\ b.parked /\ ~b.completed /\ b.cycle = a.cycle /\ b.admitted = a.admitted
                     /\ b.generation = a.generation
                     /\ b.scheduler_frontiers = a.scheduler_frontiers
                     /\ Selected(a) # {} /\ a.cycle >= Limit(f, a.cycle)
                  \/ /\ ~b.parked /\ ~b.completed /\ b.cycle = a.cycle + 1 /\ b.admitted = {}
                     /\ b.generation = a.generation + 1
                     /\ Selected(a) # {} /\ ~(a.cycle >= Limit(f, a.cycle))
<1> DEFINE b == Advanced(a, f)
<1>1. CASE ~looping \/ Selected(a) = {}
  <2>1. b = [a EXCEPT !.parked = FALSE, !.completed = TRUE] BY <1>1 DEF Advanced
  <2>2. /\ DOMAIN b = RequestFields
        /\ b.priority = a.priority /\ b.group_order = a.group_order
        /\ b.track = a.track /\ b.filter = a.filter
        /\ b.cycle = a.cycle /\ b.admitted = a.admitted /\ b.round = a.round
        /\ b.generation = a.generation
        /\ b.paused = a.paused /\ b.parked = FALSE /\ b.completed = TRUE
        /\ b.subgroup_frontiers = a.subgroup_frontiers
        /\ b.scheduler_frontiers = a.scheduler_frontiers
    BY <2>1 DEF IsRequest, RequestFields
  <2> HIDE DEF b
  <2>3. IsRequest(b)
    <3>1. IsRequest(a) OBVIOUS
    <3> QED BY <2>2, <3>1 DEF IsRequest
  <2>4. SameChoice(a, b) BY <2>2 DEF SameChoice
  <2>5. FrontOf(b) BY <2>2, <2>4, FrontSame
  <2> QED BY <2>2, <2>3, <2>4, <2>5 DEF b
<1>2. CASE looping /\ Selected(a) # {} /\ a.cycle >= Limit(f, a.cycle)
  <2>1. b = [a EXCEPT !.parked = TRUE, !.completed = FALSE] BY <1>2 DEF Advanced, Limit
  <2>2. /\ DOMAIN b = RequestFields
        /\ b.priority = a.priority /\ b.group_order = a.group_order
        /\ b.track = a.track /\ b.filter = a.filter
        /\ b.cycle = a.cycle /\ b.admitted = a.admitted /\ b.round = a.round
        /\ b.generation = a.generation
        /\ b.paused = a.paused /\ b.parked = TRUE /\ b.completed = FALSE
        /\ b.subgroup_frontiers = a.subgroup_frontiers
        /\ b.scheduler_frontiers = a.scheduler_frontiers
    BY <2>1 DEF IsRequest, RequestFields
  <2> HIDE DEF b
  <2>3. IsRequest(b)
    <3>1. IsRequest(a) OBVIOUS
    <3> QED BY <2>2, <3>1 DEF IsRequest
  <2>4. SameChoice(a, b) BY <2>2 DEF SameChoice
  <2>5. FrontOf(b) BY <2>2, <2>4, FrontSame
  <2> QED BY <1>2, <2>2, <2>3, <2>4, <2>5 DEF b
<1>3. CASE looping /\ Selected(a) # {} /\ ~(a.cycle >= Limit(f, a.cycle))
  <2> DEFINE c == [a EXCEPT !.parked = FALSE, !.cycle = @ + 1, !.admitted = {}]
             d == Rebuilt(c)
  <2>1. b = [d EXCEPT !.completed = FALSE] BY <1>3 DEF Advanced, Limit
  <2>2. /\ DOMAIN c = RequestFields
        /\ c.priority = a.priority /\ c.group_order = a.group_order
        /\ c.track = a.track /\ c.filter = a.filter
        /\ c.cycle = a.cycle + 1 /\ c.admitted = {} /\ c.round = a.round
        /\ c.generation = a.generation
        /\ c.paused = a.paused /\ c.parked = FALSE /\ c.completed = a.completed
    BY DEF IsRequest, RequestFields
  <2> HIDE DEF c, d, b
  <2>3. IsRequest(c) /\ SameChoice(a, c)
    <3>1. IsRequest(a) OBVIOUS
    <3>2. a.cycle + 1 \in Nat BY <3>1 DEF IsRequest
    <3>3. IsRequest(c) BY <2>2, <3>1, <3>2 DEF IsRequest
    <3> QED BY <2>2, <3>3 DEF SameChoice
  <2>4. /\ IsRequest(d) /\ FrontOf(d) /\ SameChoice(c, d)
        /\ d.priority = c.priority /\ d.group_order = c.group_order
        /\ d.cycle = c.cycle /\ d.admitted = c.admitted /\ d.round = c.round
        /\ d.generation = c.generation + 1
        /\ d.paused = c.paused /\ d.parked = c.parked
    BY <2>3, RebuiltFacts DEF d
  <2>5. /\ DOMAIN b = RequestFields
        /\ b.priority = d.priority /\ b.group_order = d.group_order
        /\ b.track = d.track /\ b.filter = d.filter
        /\ b.cycle = d.cycle /\ b.admitted = d.admitted /\ b.round = d.round
        /\ b.generation = d.generation
        /\ b.paused = d.paused /\ b.parked = d.parked /\ b.completed = FALSE
        /\ b.subgroup_frontiers = d.subgroup_frontiers
        /\ b.scheduler_frontiers = d.scheduler_frontiers
    BY <2>1, <2>4 DEF IsRequest, RequestFields
  <2>6. IsRequest(b) BY <2>4, <2>5 DEF IsRequest
  <2>7. SameChoice(d, b) /\ SameChoice(a, b) BY <2>3, <2>4, <2>5 DEF SameChoice
  <2>8. FrontOf(b) BY <2>4, <2>5, <2>7, FrontSame
  <2> QED BY <1>3, <2>2, <2>4, <2>5, <2>6, <2>7, <2>8 DEF b
<1> QED BY <1>1, <1>2, <1>3

\* Sending a frontier object moves its subgroup to the next one.
LEMMA ServedFacts ==
    ASSUME NEW a, IsRequest(a), FrontOf(a), NEW i \in a.scheduler_frontiers
    PROVE  LET b == Served(a, i)
           IN  /\ IsRequest(b) /\ FrontOf(b) /\ SameChoice(a, b)
               /\ b.priority = a.priority /\ b.group_order = a.group_order
               /\ b.cycle = a.cycle /\ b.admitted = a.admitted \cup {i}
               /\ b.generation = a.generation
               /\ b.paused = a.paused /\ b.parked = a.parked /\ b.completed = a.completed
<1> DEFINE b == Served(a, i)
           k == SubgroupOf(i)
           f == a.subgroup_frontiers
           rest == Tail(f[k])
           g == [f EXCEPT ![k] = rest]
           F == (a.scheduler_frontiers \ {i}) \cup (IF rest = <<>> THEN {} ELSE {Head(rest)})
<1>1. /\ DOMAIN b = RequestFields
      /\ b.priority = a.priority /\ b.group_order = a.group_order
      /\ b.track = a.track /\ b.filter = a.filter
      /\ b.cycle = a.cycle /\ b.admitted = a.admitted \cup {i} /\ b.round = a.round + 1
      /\ b.generation = a.generation
      /\ b.paused = a.paused /\ b.parked = a.parked /\ b.completed = a.completed
      /\ b.subgroup_frontiers = g /\ b.scheduler_frontiers = F
  BY DEF Served, IsRequest, RequestFields
<1>2. Tracked(a, i) /\ i \in Selected(a) \ a.admitted /\ i \in Indices BY FrontFacts
<1>3. k \in DOMAIN f /\ f[k] # <<>> /\ Head(f[k]) = i BY <1>2 DEF Tracked
<1>4. /\ \A q \in DOMAIN f : Lists(f[q], Left(a, q))
      /\ \A j \in Selected(a) \ a.admitted : SubgroupOf(j) \in DOMAIN f
      /\ a.scheduler_frontiers = {Head(f[q]) : q \in {p \in DOMAIN f : f[p] # <<>>}}
  BY DEF FrontOf
<1>5. DOMAIN g = DOMAIN f /\ g[k] = rest /\ \A q \in DOMAIN f \ {k} : g[q] = f[q] BY <1>3
<1>6. IsRequest(b)
  <2>1. IsRequest(a) OBVIOUS
  <2> HIDE DEF b
  <2> QED BY <1>1, <1>2, <2>1 DEF IsRequest
<1>7. SameChoice(a, b) BY <1>1 DEF SameChoice
<1>8. Selected(b) = Selected(a) BY <1>7, SelectedSame
<1>9. Lists(rest, Left(a, k) \ {i}) BY <1>3, <1>4, SelectedInside, ListsFacts
<1> HIDE DEF b, g, rest, f, F
<1>10. Left(b, k) = Left(a, k) \ {i} BY <1>1, <1>8 DEF Left
<1>11. \A q \in DOMAIN f \ {k} : Left(b, q) = Left(a, q)
  <2> SUFFICES ASSUME NEW q \in DOMAIN f \ {k} PROVE Left(b, q) = Left(a, q) OBVIOUS
  <2>1. \A j : SubgroupOf(j) = q => j # i OBVIOUS
  <2> HIDE DEF k
  <2> QED BY <1>1, <1>8, <2>1 DEF Left
<1>12. \A q \in DOMAIN g : Lists(g[q], Left(b, q)) BY <1>4, <1>5, <1>9, <1>10, <1>11
<1>13. F = {Head(g[q]) : q \in {p \in DOMAIN g : g[p] # <<>>}}
  <2>1. \A q \in DOMAIN f \ {k} : f[q] # <<>> => Head(f[q]) # i
    <3> SUFFICES ASSUME NEW q \in DOMAIN f \ {k}, f[q] # <<>>, Head(f[q]) = i PROVE FALSE OBVIOUS
    <3>1. i \in Left(a, q) BY <1>4, SelectedInside, ListsFacts
    <3>2. SubgroupOf(i) = q BY <3>1 DEF Left
    <3> QED BY <3>2
  <2>2. a.scheduler_frontiers \ {i} = {Head(f[q]) : q \in {p \in DOMAIN f \ {k} : f[p] # <<>>}}
    BY <1>3, <1>4, <2>1
  <2>3. F = (a.scheduler_frontiers \ {i}) \cup (IF g[k] = <<>> THEN {} ELSE {Head(g[k])}) BY <1>5 DEF F
  <2> HIDE DEF k
  <2>4. \A x : x \in {Head(g[q]) : q \in {p \in DOMAIN g : g[p] # <<>>}} <=>
               \/ \E q \in DOMAIN f \ {k} : f[q] # <<>> /\ x = Head(f[q])
               \/ g[k] # <<>> /\ x = Head(g[k])
    BY <1>3, <1>5
  <2>5. \A x : x \in F <=>
               \/ \E q \in DOMAIN f \ {k} : f[q] # <<>> /\ x = Head(f[q])
               \/ g[k] # <<>> /\ x = Head(g[k])
    BY <2>2, <2>3
  <2> QED BY <2>4, <2>5
<1>14. \A j \in Selected(b) \ b.admitted : SubgroupOf(j) \in DOMAIN g BY <1>1, <1>4, <1>5, <1>8
<1>15. FrontOf(b) BY <1>1, <1>12, <1>13, <1>14 DEF FrontOf
<1> QED BY <1>1, <1>6, <1>7, <1>15 DEF b

(* ---- the leaders ---- *)

\* A table of active requests.
IsTable(f) ==
    /\ IsFiniteSet(DOMAIN f)
    /\ \A r \in DOMAIN f : IsRequest(f[r]) /\ FrontOf(f[r])

\* resume_generation_leaders changes parked requests only, and leaves no leader alone.
LEMMA ResumedFacts ==
    ASSUME NEW f, IsTable(f), \A r \in DOMAIN f : f[r].parked => ~f[r].completed
    PROVE  /\ DOMAIN Resumed(f) = DOMAIN f /\ IsTable(Resumed(f))
           /\ \A r \in DOMAIN f : ~f[r].parked => Resumed(f)[r] = f[r]
           /\ \A r \in DOMAIN f : f[r].parked => Resumed(f)[r] = Advanced(f[r], f)
           /\ LeadersWaitIn(Resumed(f))
<1> DEFINE g == Resumed(f)
           low == Min(RunningCycles(f))
<1>0. IsFiniteSet(DOMAIN f) /\ \A r \in DOMAIN f : IsRequest(f[r]) /\ FrontOf(f[r]) BY DEF IsTable
<1>1. /\ DOMAIN g = DOMAIN f
      /\ \A r \in DOMAIN f : ~f[r].parked => g[r] = f[r]
      /\ \A r \in DOMAIN f : f[r].parked => g[r] = Advanced(f[r], f)
  BY DEF Resumed
<1> HIDE DEF g
<1>2. \A r \in DOMAIN f : IsRequest(g[r]) /\ FrontOf(g[r]) BY <1>0, <1>1, AdvancedFacts
<1>3. IsTable(g) BY <1>0, <1>1, <1>2 DEF IsTable
<1>4. ASSUME NEW q \in DOMAIN g, g[q].parked
      PROVE  ~g[q].completed /\ \E s \in DOMAIN g : Wakes(g, s, q)
  <2>1. q \in DOMAIN f /\ f[q].parked /\ ~f[q].completed BY <1>1, <1>4
  <2>2. g[q] = Advanced(f[q], f) BY <1>1, <2>1
  <2>3. ~g[q].completed /\ g[q].cycle = f[q].cycle /\ f[q].cycle >= Limit(f, f[q].cycle)
    BY <1>0, <1>4, <2>1, <2>2, AdvancedFacts
  <2>4. RunningCycles(f) # {} BY <2>1 DEF RunningCycles
  <2>5. low \in Nat /\ \E s \in DOMAIN f : ~f[s].completed /\ f[s].cycle = low BY <1>0, <2>4, RunningFacts
  <2>6. PICK s \in DOMAIN f : ~f[s].completed /\ f[s].cycle = low BY <2>5
  <2> HIDE DEF low
  <2>7. MaxLead \in Nat /\ MaxLead > 0 BY SchedulerAssumption
  <2>8. f[q].cycle \in Nat /\ low + MaxLead <= f[q].cycle
    BY <1>0, <2>1, <2>3, <2>4, <2>5, <2>7 DEF Limit, low, IsRequest
  <2>9. CASE ~f[s].parked
    <3>1. g[s] = f[s] /\ ~g[s].parked BY <1>1, <2>6, <2>9
    <3>2. g[s].cycle + MaxLead <= g[q].cycle BY <2>3, <2>6, <2>8, <3>1
    <3> QED BY <1>1, <2>3, <2>6, <3>1, <3>2 DEF Wakes
  <2>10. CASE f[s].parked
    <3>1. g[s] = Advanced(f[s], f) BY <1>1, <2>6, <2>10
    <3>2. ~(low >= Limit(f, low)) BY <2>4, <2>5, <2>7 DEF Limit, low
    <3>3. \/ ~g[s].parked /\ g[s].completed /\ g[s].cycle = low
             /\ g[s].admitted = f[s].admitted
          \/ ~g[s].parked /\ g[s].cycle = low + 1 /\ g[s].admitted = {}
      BY <1>0, <2>6, <3>1, <3>2, AdvancedFacts
    <3>4. CASE g[s].cycle = low
      <4>1. ~g[s].parked /\ g[s].cycle + MaxLead <= g[q].cycle BY <2>3, <2>5, <2>8, <3>3, <3>4
      <4> QED BY <1>1, <2>3, <2>6, <4>1 DEF Wakes
    <3>5. CASE g[s].cycle = low + 1
      <4>1. ~g[s].parked /\ g[s].admitted = {} /\ g[s].cycle <= g[q].cycle
        BY <2>3, <2>5, <2>7, <2>8, <3>3, <3>5
      <4> QED BY <1>1, <2>3, <2>6, <4>1 DEF Wakes
    <3> QED BY <3>3, <3>4, <3>5
  <2> QED BY <2>9, <2>10
<1>5. LeadersWaitIn(g) BY <1>4 DEF LeadersWaitIn
<1> QED BY <1>1, <1>3, <1>5 DEF g

(* ---- the heap ---- *)

\* The elements of a sum of bags.
LEMMA BagAdd ==
    ASSUME NEW B, IsABag(B), NEW C, IsABag(C)
    PROVE  IsABag(B (+) C) /\ DOMAIN (B (+) C) = DOMAIN B \cup DOMAIN C
<1>1. /\ \A e \in DOMAIN B : B[e] \in Nat /\ B[e] > 0
      /\ \A e \in DOMAIN C : C[e] \in Nat /\ C[e] > 0
  BY DEF IsABag
<1> DEFINE n(e) == (IF e \in DOMAIN B THEN B[e] ELSE 0) + (IF e \in DOMAIN C THEN C[e] ELSE 0)
<1>2. B (+) C = [e \in DOMAIN B \cup DOMAIN C |-> n(e)] BY DEF (+)
<1>3. \A e \in DOMAIN B \cup DOMAIN C : n(e) \in {k \in Nat : k > 0} BY <1>1
<1> HIDE DEF n
<1> QED BY <1>2, <1>3 DEF IsABag

\* The bag of a set.
LEMMA SetBag ==
    ASSUME NEW S
    PROVE  IsABag(SetToBag(S)) /\ DOMAIN SetToBag(S) = S
  BY DEF IsABag, SetToBag

\* Taking one copy out of a bag leaves the other elements.
LEMMA BagPop ==
    ASSUME NEW B, IsABag(B), NEW x
    PROVE  /\ IsABag(B (-) SetToBag({x}))
           /\ DOMAIN (B (-) SetToBag({x})) \subseteq DOMAIN B
           /\ DOMAIN B \ {x} \subseteq DOMAIN (B (-) SetToBag({x}))
<1>1. \A e \in DOMAIN B : B[e] \in Nat /\ B[e] > 0 BY DEF IsABag
<1> DEFINE C == [e \in DOMAIN B |-> IF e = x THEN B[e] - 1 ELSE B[e]]
<1>2. B (-) SetToBag({x}) = [e \in {d \in DOMAIN C : C[d] > 0} |-> C[e]]
  <2>1. DOMAIN SetToBag({x}) = {x} /\ SetToBag({x})[x] = 1 BY DEF SetToBag
  <2>2. [e \in DOMAIN B |-> IF e \in DOMAIN SetToBag({x}) THEN B[e] - SetToBag({x})[e] ELSE B[e]] = C
    BY <2>1
  <2> QED BY <2>2 DEF (-)
<1>3. DOMAIN C = DOMAIN B /\ \A e \in DOMAIN B : C[e] \in Int /\ (e # x => C[e] > 0) BY <1>1
<1> HIDE DEF C
<1> QED BY <1>2, <1>3 DEF IsABag

\* The bag of a list has the elements of the list.
LEMMA ListBag ==
    ASSUME NEW S, NEW s \in Seq(S)
    PROVE  IsABag(ToBag(s)) /\ DOMAIN ToBag(s) = ToSet(s)
<1>1. Len(s) \in Nat /\ DOMAIN s = 1..Len(s) BY LenProperties
<1>2. IsFiniteSet(DOMAIN s) BY <1>1, FS_Interval
<1>3. ASSUME NEW x \in ToSet(s)
      PROVE  Cardinality({i \in DOMAIN s : s[i] = x}) \in {k \in Nat : k > 0}
  <2> DEFINE I == {i \in DOMAIN s : s[i] = x}
  <2>1. I \subseteq DOMAIN s /\ I # {} BY <1>3 DEF ToSet
  <2> HIDE DEF I
  <2>2. IsFiniteSet(I) BY <1>2, <2>1, FS_Subset
  <2>3. Cardinality(I) \in Nat BY <2>2, FS_CardinalityType
  <2>4. Cardinality(I) # 0 BY <2>1, <2>2, FS_EmptySet
  <2>5. Cardinality(I) \in {k \in Nat : k > 0} BY <2>3, <2>4
  <2> QED BY <2>5 DEF I
<1>4. Range(s) = ToSet(s) BY DEF Range, ToSet
<1> QED BY <1>3, <1>4 DEF ToBag, IsABag

\* What Append does to a list and to its elements.
LEMMA ListGrows ==
    ASSUME NEW s, s \in Seq(ToSet(s)), NEW x
    PROVE  /\ Append(s, x) \in Seq(ToSet(Append(s, x)))
           /\ ToSet(Append(s, x)) = ToSet(s) \cup {x}
           /\ Len(s) \in Nat /\ DOMAIN s = 1..Len(s)
           /\ DOMAIN Append(s, x) = 1..(Len(s) + 1)
           /\ \A i \in 1..Len(s) : Append(s, x)[i] = s[i]
           /\ Append(s, x)[Len(s) + 1] = x
<1> DEFINE T == ToSet(s) \cup {x}
<1>1. s \in Seq(T)
  <2>1. \A i \in 1..Len(s) : s[i] \in T BY LenProperties DEF ToSet
  <2> QED BY <2>1, SeqDef, LenProperties
<1>2. x \in T OBVIOUS
<1> HIDE DEF T
<1>3. /\ Append(s, x) \in Seq(T)
      /\ Len(s) \in Nat /\ DOMAIN s = 1..Len(s)
      /\ DOMAIN Append(s, x) = 1..(Len(s) + 1)
      /\ \A i \in 1..Len(s) : Append(s, x)[i] = s[i]
      /\ Append(s, x)[Len(s) + 1] = x
      /\ Range(Append(s, x)) = Range(s) \cup {x}
  BY <1>1, <1>2, AppendFacts
<1>4. Range(Append(s, x)) = ToSet(Append(s, x)) /\ Range(s) = ToSet(s) BY DEF Range, ToSet
<1>5. ToSet(Append(s, x)) = T BY <1>3, <1>4 DEF T
<1> QED BY <1>3, <1>5 DEF T

\* enqueue_active_candidate adds the head of a request that may be scheduled.
LEMMA PushFacts ==
    ASSUME NEW h, IsABag(h), NEW r, NEW a
    PROVE  /\ IsABag(Pushed(h, r, a))
           /\ DOMAIN Pushed(h, r, a) =
                DOMAIN h \cup (IF Enqueues(a) THEN {Candidate(r, a, HeadOf(a))} ELSE {})
<1>1. CASE Enqueues(a)
  <2> DEFINE c == Candidate(r, a, HeadOf(a))
  <2>1. Pushed(h, r, a) = h (+) SetToBag({c}) BY <1>1 DEF Pushed
  <2> HIDE DEF c
  <2>2. IsABag(SetToBag({c})) /\ DOMAIN SetToBag({c}) = {c} BY SetBag
  <2>3. IsABag(Pushed(h, r, a)) /\ DOMAIN Pushed(h, r, a) = DOMAIN h \cup {c} BY <2>1, <2>2, BagAdd
  <2> QED BY <1>1, <2>3 DEF c
<1>2. CASE ~Enqueues(a) BY <1>2 DEF Pushed
<1> QED BY <1>1, <1>2

\* The requests a resume puts back into the heap.
Woken(f) == {q \in DOMAIN f : f[q].parked /\ Enqueues(Resumed(f)[q])}

\* Every request that resume_generation_leaders wakes is enqueued.
LEMMA PushResumedFacts ==
    ASSUME NEW h, IsABag(h), NEW f
    PROVE  /\ IsABag(PushedResumed(h, f))
           /\ DOMAIN PushedResumed(h, f) =
                DOMAIN h \cup {Candidate(q, Resumed(f)[q], HeadOf(Resumed(f)[q])) : q \in Woken(f)}
<1> DEFINE S == {Candidate(q, Resumed(f)[q], HeadOf(Resumed(f)[q])) : q \in Woken(f)}
<1>1. PushedResumed(h, f) = h (+) SetToBag(S) BY DEF PushedResumed, Woken
<1> HIDE DEF S
<1>2. IsABag(SetToBag(S)) /\ DOMAIN SetToBag(S) = S BY SetBag
<1>3. IsABag(PushedResumed(h, f)) /\ DOMAIN PushedResumed(h, f) = DOMAIN h \cup S BY <1>1, <1>2, BagAdd
<1> QED BY <1>3 DEF S

\* Each request of f that has something to send has its first object in D.
KeptIn(f, D) ==
    \A r \in DOMAIN f : Enqueues(f[r]) => Candidate(r, f[r], HeadOf(f[r])) \in D

\* Waking the leaders keeps a candidate for every request that may be scheduled.
LEMMA ResumedKept ==
    ASSUME NEW f, NEW h, IsABag(h), NEW E, KeptIn(f, DOMAIN h \cup E)
    PROVE  KeptIn(Resumed(f), DOMAIN PushedResumed(h, f) \cup E)
<1> DEFINE g == Resumed(f)
<1>1. DOMAIN g = DOMAIN f /\ \A r \in DOMAIN f : ~f[r].parked => g[r] = f[r] BY DEF Resumed
<1>2. DOMAIN PushedResumed(h, f) = DOMAIN h \cup {Candidate(q, g[q], HeadOf(g[q])) : q \in Woken(f)}
  BY PushResumedFacts
<1>3. \A q \in DOMAIN f : f[q].parked /\ Enqueues(g[q]) => q \in Woken(f) BY DEF Woken
<1> HIDE DEF g
<1> SUFFICES ASSUME NEW r \in DOMAIN g, Enqueues(g[r])
             PROVE  Candidate(r, g[r], HeadOf(g[r])) \in DOMAIN PushedResumed(h, f) \cup E
  BY DEF KeptIn, g
<1>4. CASE f[r].parked BY <1>1, <1>2, <1>3, <1>4
<1>5. CASE ~f[r].parked
  <2>1. g[r] = f[r] /\ r \in DOMAIN f BY <1>1, <1>5
  <2>2. Candidate(r, g[r], HeadOf(g[r])) \in DOMAIN h \cup E BY <2>1 DEF KeptIn
  <2> QED BY <1>2, <2>2
<1> QED BY <1>4, <1>5

\* The first object of a request is a live candidate for it.
LEMMA HeadLive ==
    ASSUME RequestsSound, NEW r \in DOMAIN active, Enqueues(active[r])
    PROVE  Live(Candidate(r, active[r], HeadOf(active[r])))
<1>1. IsRequest(active[r]) /\ FrontOf(active[r]) /\ active[r].scheduler_frontiers # {}
  BY DEF RequestsSound, Enqueues
<1>2. HeadOf(active[r]) \in active[r].scheduler_frontiers BY <1>1, HeadInside
<1> QED BY <1>2 DEF Live, Candidate, Enqueues

\* Recording the origins f asks for keeps every cycle.
LEMMA RecordedKept ==
    ASSUME OriginsKept, RecordOrigins(active'), 
           \A r \in DOMAIN active' : active'[r].cycle \in Nat /\ active'[r].cycle >= oldest
    PROVE  OriginsKept'
<1> DEFINE new == {active'[r].cycle : r \in {q \in DOMAIN active' : NeedsOrigin(active'[q])}} \ origins
<1>1. origins' = origins \cup new /\ oldest' = oldest BY DEF RecordOrigins
<1>2. origins' \subseteq Nat BY <1>1 DEF OriginsKept
<1>3. \A r \in DOMAIN active' : NeedsOrigin(active'[r]) => active'[r].cycle \in origins' BY <1>1
<1> QED BY <1>1, <1>2, <1>3 DEF OriginsKept, CycleRetained, NeedsOrigin

\* The parked leaders after one request has changed.
LEMMA ChangedLeaders ==
    ASSUME NEW f, LeadersWaitIn(f), \A q \in DOMAIN f : f[q].cycle \in Nat,
           NEW r \in DOMAIN f, NEW b, b.cycle \in Nat,
           \/ /\ ~b.parked /\ b.cycle = f[r].cycle /\ b.admitted = f[r].admitted
           \/ /\ ~b.parked /\ b.cycle = f[r].cycle + 1 /\ b.admitted = {}
              /\ f[r].admitted # {}
           \/ /\ b.parked /\ ~b.completed /\ b.cycle = f[r].cycle /\ f[r].admitted # {}
              /\ \E t \in DOMAIN f \ {r} : f[t].cycle + MaxLead <= f[r].cycle
    PROVE  LeadersWaitIn([f EXCEPT ![r] = b])
<1> DEFINE g == [f EXCEPT ![r] = b]
<1>0. MaxLead \in Nat /\ MaxLead > 0 BY SchedulerAssumption
<1>1. DOMAIN g = DOMAIN f /\ g[r] = b /\ \A q \in DOMAIN f : q # r => g[q] = f[q] OBVIOUS
<1> HIDE DEF g
<1>2. ASSUME b.parked, NEW q \in DOMAIN f, g[q].cycle >= f[r].cycle, g[q].cycle \in Nat
      PROVE  \E s \in DOMAIN g : Wakes(g, s, q)
  <2>1. PICK t \in DOMAIN f \ {r} : f[t].cycle + MaxLead <= f[r].cycle BY <1>2
  <2>2. f[t].cycle \in Nat /\ f[r].cycle \in Nat /\ g[t] = f[t] BY <1>1, <2>1
  <2>3. CASE ~f[t].parked
    <3>1. g[t].cycle + MaxLead <= g[q].cycle BY <1>0, <1>2, <2>1, <2>2
    <3> QED BY <1>1, <2>1, <2>2, <2>3, <3>1 DEF Wakes
  <2>4. CASE f[t].parked
    <3>1. PICK s \in DOMAIN f : Wakes(f, s, t) BY <2>1, <2>4 DEF LeadersWaitIn
    <3>2. f[s].cycle \in Nat /\ f[s].cycle <= f[t].cycle BY <1>0, <2>2, <3>1 DEF Wakes
    <3>3. s # r BY <1>0, <2>1, <2>2, <3>2
    <3>4. g[s] = f[s] /\ ~f[s].parked BY <1>1, <3>1, <3>3 DEF Wakes
    <3>5. \/ g[s].cycle + MaxLead <= g[q].cycle
          \/ g[s].admitted = {} /\ g[s].cycle <= g[q].cycle
      BY <1>0, <1>2, <2>1, <2>2, <3>1, <3>2, <3>4 DEF Wakes
    <3> QED BY <1>1, <3>4, <3>5 DEF Wakes
  <2> QED BY <2>3, <2>4
<1>3. ASSUME NEW q \in DOMAIN g, g[q].parked
      PROVE  ~g[q].completed /\ \E s \in DOMAIN g : Wakes(g, s, q)
  <2>1. CASE q = r
    <3>1. b.parked /\ ~b.completed /\ g[q] = b /\ b.cycle = f[r].cycle BY <1>1, <1>3, <2>1
    <3>2. \E s \in DOMAIN g : Wakes(g, s, q) BY <1>1, <1>2, <1>3, <2>1, <3>1
    <3> QED BY <3>1, <3>2
  <2>2. CASE q # r
    <3>1. g[q] = f[q] /\ q \in DOMAIN f /\ f[q].parked BY <1>1, <1>3, <2>2
    <3>2. ~f[q].completed BY <3>1 DEF LeadersWaitIn
    <3>3. PICK s \in DOMAIN f : Wakes(f, s, q) BY <3>1 DEF LeadersWaitIn
    <3>4. f[s].cycle \in Nat /\ f[q].cycle \in Nat /\ f[r].cycle \in Nat BY <3>1
    <3>5. CASE s # r
      <4>1. Wakes(g, s, q) BY <1>1, <3>1, <3>3, <3>5 DEF Wakes
      <4> QED BY <1>1, <3>1, <3>2, <4>1
    <3>6. CASE s = r
      <4>1. CASE ~b.parked
        <5>1. \/ b.cycle + MaxLead <= f[q].cycle
              \/ b.admitted = {} /\ b.cycle <= f[q].cycle
          BY <1>0, <3>3, <3>4, <3>6, <4>1 DEF Wakes
        <5>2. Wakes(g, r, q) BY <1>1, <3>1, <4>1, <5>1 DEF Wakes
        <5> QED BY <1>1, <3>1, <3>2, <5>2
      <4>2. CASE b.parked
        <5>1. g[q].cycle >= f[r].cycle BY <1>0, <3>1, <3>3, <3>4, <3>6 DEF Wakes
        <5> QED BY <1>2, <3>1, <3>2, <3>4, <4>2, <5>1
      <4> QED BY <4>1, <4>2
    <3> QED BY <3>5, <3>6
  <2> QED BY <2>1, <2>2
<1> QED BY <1>3 DEF LeadersWaitIn, g

(* ---- one step per action ---- *)

\* Between passes the list of blocked candidates is empty.
LEMMA NothingBlocked ==
    ASSUME HeapShape, pc = "control"
    PROVE  blocked = <<>> /\ ToSet(blocked) = {}
  BY DEF HeapShape, ToSet

\* HeapKept in terms of the table and of the candidates of heap and list.
LEMMA KeptDef == HeapKept <=> KeptIn(active, DOMAIN eligible \cup ToSet(blocked))
  BY DEF HeapKept, KeptIn

\* RequestsSound in terms of the table.
LEMMA TableDef ==
    RequestsSound <=> DOMAIN active \in SUBSET Requests /\ IsTable(active)
  BY DEF RequestsSound, IsTable

\* Between passes the heap alone keeps the candidates.
LEMMA ControlShape ==
    ASSUME IsABag(eligible)', blocked' = <<>>, KeptIn(active', DOMAIN eligible')
    PROVE  HeapShape' /\ HeapKept'
<1>1. ToSet(blocked') = {} /\ <<>> \in Seq({})
  <2>1. ToSet(<<>>) = {} BY DEF ToSet
  <2>2. <<>> \in Seq({}) BY EmptySeq
  <2> QED BY <2>1, <2>2
<1>2. HeapShape' BY <1>1 DEF HeapShape
<1>3. HeapKept' BY <1>1 DEF HeapKept, KeptIn
<1> QED BY <1>2, <1>3

\* serve_subscriptions starts with the invariant.
LEMMA SchedulerStarts ==
    ASSUME SchedulerInit
    PROVE  SchedulerInv
<1>1. DOMAIN active = {} /\ DOMAIN eligible = {} /\ IsABag(eligible) /\ blocked = <<>>
  <2>1. DOMAIN eligible = {} /\ IsABag(eligible) BY SetBag DEF SchedulerInit, EmptyBag
  <2> QED BY <2>1 DEF SchedulerInit
<1>2. RequestsSound BY <1>1, FS_EmptySet DEF RequestsSound
<1>3. HeapShape
  <2>1. ToSet(blocked) = {} BY <1>1 DEF ToSet
  <2>2. <<>> \in Seq({}) BY EmptySeq
  <2> QED BY <1>1, <2>1, <2>2 DEF HeapShape
<1>4. HeapKept /\ LeadersWait BY <1>1 DEF HeapKept, LeadersWait, LeadersWaitIn
<1>5. OriginsKept BY <1>1 DEF SchedulerInit, OriginsKept, CycleRetained
<1> QED BY <1>2, <1>3, <1>4, <1>5 DEF SchedulerInv

\* What a new subscription starts with.
LEMMA FreshFacts ==
    ASSUME NEW r \in Requests, NEW p \in Priorities, NEW filter \in Filters, oldest \in Nat
    PROVE  LET a == Fresh(r, p, filter)
               c == [a EXCEPT !.completed = TRUE]
           IN  /\ IsRequest(a) /\ ~a.parked /\ a.cycle = oldest /\ a.admitted = {}
               /\ a.priority = p /\ a.generation = 0
               /\ IsRequest(c) /\ ~c.parked /\ c.cycle = oldest /\ c.admitted = {} /\ c.completed
               /\ c.scheduler_frontiers = {} /\ (Selected(a) = {} => FrontOf(c))
<1> DEFINE a == Fresh(r, p, filter)
           c == [a EXCEPT !.completed = TRUE]
<1>1. p \in Nat /\ filter \in Nat \X Nat /\ OrderOf[r] \in {1, 2} BY SchedulerAssumption
<1>2. /\ DOMAIN a = RequestFields
      /\ a.track = TrackOf[r] /\ a.priority = p /\ a.group_order = OrderOf[r]
      /\ a.filter = filter /\ a.cycle = oldest /\ a.admitted = {} /\ a.round = 0
      /\ a.generation = 0 /\ a.subgroup_frontiers = <<>> /\ a.scheduler_frontiers = {}
      /\ a.paused = FALSE /\ a.parked = FALSE /\ a.completed = FALSE
  BY DEF Fresh, RequestFields
<1>3. /\ DOMAIN c = RequestFields
      /\ c.track = a.track /\ c.priority = p /\ c.group_order = OrderOf[r]
      /\ c.filter = filter /\ c.cycle = oldest /\ c.admitted = {} /\ c.round = 0
      /\ c.generation = 0 /\ c.subgroup_frontiers = <<>> /\ c.scheduler_frontiers = {}
      /\ c.paused = FALSE /\ c.parked = FALSE /\ c.completed = TRUE
  BY DEF Fresh, RequestFields
<1> HIDE DEF c, a
<1>4. IsRequest(a)
  <2>1. a.priority \in Nat /\ a.group_order \in {1, 2} /\ a.filter \in Nat \X Nat BY <1>1, <1>2
  <2>2. a.cycle \in Nat /\ a.round \in Nat /\ a.generation \in Nat /\ a.admitted \subseteq Indices BY <1>2
  <2>3. a.paused \in BOOLEAN /\ a.parked \in BOOLEAN /\ a.completed \in BOOLEAN BY <1>2
  <2> QED BY <1>2, <2>1, <2>2, <2>3 DEF IsRequest
<1>5. IsRequest(c)
  <2>1. c.priority \in Nat /\ c.group_order \in {1, 2} /\ c.filter \in Nat \X Nat BY <1>1, <1>3
  <2>2. c.cycle \in Nat /\ c.round \in Nat /\ c.generation \in Nat /\ c.admitted \subseteq Indices BY <1>3
  <2>3. c.paused \in BOOLEAN /\ c.parked \in BOOLEAN /\ c.completed \in BOOLEAN BY <1>3
  <2> QED BY <1>3, <2>1, <2>2, <2>3 DEF IsRequest
<1>6. ASSUME Selected(a) = {} PROVE FrontOf(c)
  <2>1. Selected(c) = {}
    <3>1. SameChoice(a, c) BY <1>2, <1>3 DEF SameChoice
    <3> QED BY <1>6, <3>1, SelectedSame
  <2>2. DOMAIN c.subgroup_frontiers = {} BY <1>3
  <2> QED BY <1>3, <2>1, <2>2 DEF FrontOf
<1> QED BY <1>2, <1>3, <1>4, <1>5, <1>6 DEF a, c

\* A new request b under the number r.
LEMMA AddedFacts ==
    ASSUME SchedulerInv, NEW r \in Requests, r \notin DOMAIN active,
           NEW b, IsRequest(b), FrontOf(b), ~b.parked,
           active' = [q \in DOMAIN active \cup {r} |-> IF q = r THEN b ELSE active[q]]
    PROVE  RequestsSound' /\ LeadersWait'
<1>1. /\ DOMAIN active' = DOMAIN active \cup {r} /\ active'[r] = b
      /\ \A q \in DOMAIN active : active'[q] = active[q]
  OBVIOUS
<1>2. IsFiniteSet(DOMAIN active') /\ DOMAIN active' \in SUBSET Requests
  BY <1>1, FS_AddElement DEF SchedulerInv, RequestsSound
<1>3. RequestsSound' BY <1>1, <1>2 DEF SchedulerInv, RequestsSound
<1>4. \A s, q \in DOMAIN active : Wakes(active, s, q) => Wakes(active', s, q) BY <1>1 DEF Wakes
<1>5. LeadersWait'
  <2> SUFFICES ASSUME NEW q \in DOMAIN active', active'[q].parked
               PROVE  ~active'[q].completed /\ \E s \in DOMAIN active' : Wakes(active', s, q)
    BY DEF LeadersWait, LeadersWaitIn
  <2>1. q \in DOMAIN active /\ active[q].parked BY <1>1
  <2>2. ~active[q].completed /\ \E s \in DOMAIN active : Wakes(active, s, q)
    BY <2>1 DEF SchedulerInv, LeadersWait, LeadersWaitIn
  <2> QED BY <1>1, <1>4, <2>1, <2>2
<1> QED BY <1>3, <1>5

\* A new subscription is enqueued, or completed at once.
LEMMA SubscribeKeeps ==
    ASSUME SchedulerInv, NEW r \in Requests, NEW p \in Priorities, NEW filter \in Filters,
           Subscribe(r, p, filter)
    PROVE  SchedulerInv'
<1> DEFINE a == Fresh(r, p, filter)
           b == Rebuilt(a)
           c == [a EXCEPT !.completed = TRUE]
           With(d) == [q \in DOMAIN active \cup {r} |-> IF q = r THEN d ELSE active[q]]
<1>0. pc = "control" /\ r \notin DOMAIN active /\ blocked' = blocked /\ oldest \in Nat
  BY DEF Subscribe, SchedulerInv, OriginsKept
<1>1. blocked = <<>> /\ ToSet(blocked) = {} /\ IsABag(eligible)
  BY <1>0, NothingBlocked DEF SchedulerInv, HeapShape
<1>2. KeptIn(active, DOMAIN eligible) BY <1>1, KeptDef DEF SchedulerInv
<1>3. /\ IsRequest(a) /\ ~a.parked /\ a.cycle = oldest /\ a.admitted = {}
      /\ IsRequest(c) /\ ~c.parked /\ c.cycle = oldest /\ c.completed
      /\ c.scheduler_frontiers = {} /\ (Selected(a) = {} => FrontOf(c))
  BY <1>0, FreshFacts
<1>4. IsRequest(b) /\ FrontOf(b) /\ ~b.parked /\ b.cycle = oldest BY <1>3, RebuiltFacts
<1>5. CASE Selected(a) # {}
  <2>1. active' = With(b) /\ eligible' = Pushed(eligible, r, b) /\ RecordOrigins(active') BY <1>5 DEF Subscribe
  <2> HIDE DEF a, b, c
  <2>2. /\ DOMAIN active' = DOMAIN active \cup {r} /\ active'[r] = b
        /\ \A q \in DOMAIN active : q # r => active'[q] = active[q]
    BY <2>1
  <2>3. RequestsSound' /\ LeadersWait' BY <1>0, <1>4, <2>1, AddedFacts
  <2>4. /\ IsABag(eligible')
        /\ DOMAIN eligible' = DOMAIN eligible \cup (IF Enqueues(b) THEN {Candidate(r, b, HeadOf(b))} ELSE {})
    BY <1>1, <2>1, PushFacts
  <2>5. KeptIn(active', DOMAIN eligible') BY <1>0, <1>2, <2>2, <2>4 DEF KeptIn
  <2>6. HeapShape' /\ HeapKept' BY <1>0, <1>1, <2>4, <2>5, ControlShape
  <2>7. OriginsKept'
    <3>1. \A q \in DOMAIN active' : active'[q].cycle \in Nat /\ active'[q].cycle >= oldest
      BY <1>0, <1>4, <2>2 DEF SchedulerInv, OriginsKept, CycleRetained, RequestsSound, IsRequest
    <3> QED BY <2>1, <3>1, RecordedKept DEF SchedulerInv
  <2> QED BY <2>3, <2>6, <2>7 DEF SchedulerInv
<1>6. CASE Selected(a) = {} /\ active' = With(c)
  <2>1. UNCHANGED <<eligible, originVars>> BY <1>6 DEF Subscribe
  <2> HIDE DEF a, b, c
  <2>2. /\ DOMAIN active' = DOMAIN active \cup {r} /\ active'[r] = c
        /\ \A q \in DOMAIN active : q # r => active'[q] = active[q]
    BY <1>6
  <2>3. RequestsSound' /\ LeadersWait' BY <1>0, <1>3, <1>6, AddedFacts
  <2>4. IsABag(eligible') /\ DOMAIN eligible' = DOMAIN eligible BY <1>1, <2>1
  <2>5. KeptIn(active', DOMAIN eligible') BY <1>0, <1>2, <1>3, <2>2, <2>4 DEF KeptIn, Enqueues
  <2>6. HeapShape' /\ HeapKept' BY <1>0, <1>1, <2>4, <2>5, ControlShape
  <2>7. OriginsKept'
    BY <1>0, <1>3, <2>1, <2>2 DEF SchedulerInv, OriginsKept, CycleRetained, originVars, NeedsOrigin
  <2> QED BY <2>3, <2>6, <2>7 DEF SchedulerInv
<1>7. CASE UNCHANGED <<active, eligible, originVars>>
  <2>1. RequestsSound' /\ LeadersWait' /\ OriginsKept'
    BY <1>7 DEF SchedulerInv, RequestsSound, LeadersWait, OriginsKept, CycleRetained, originVars
  <2>2. HeapShape' /\ HeapKept' BY <1>0, <1>1, <1>2, <1>7, ControlShape
  <2> QED BY <2>1, <2>2 DEF SchedulerInv
<1>8. \/ Selected(a) # {}
      \/ Selected(a) = {} /\ active' = With(c)
      \/ UNCHANGED <<active, eligible, originVars>>
  BY DEF Subscribe
<1> QED BY <1>5, <1>6, <1>7, <1>8

\* Erasing a request leaves the others as they were.
LEMMA RemovedTable ==
    ASSUME NEW f, IsTable(f), NEW r
    PROVE  /\ DOMAIN WithoutRequest(f, r) = DOMAIN f \ {r} /\ IsTable(WithoutRequest(f, r))
           /\ \A q \in DOMAIN f \ {r} : WithoutRequest(f, r)[q] = f[q]
<1>1. /\ DOMAIN WithoutRequest(f, r) = DOMAIN f \ {r}
      /\ \A q \in DOMAIN f \ {r} : WithoutRequest(f, r)[q] = f[q]
  BY DEF WithoutRequest
<1>2. IsFiniteSet(DOMAIN f \ {r}) BY FS_Subset DEF IsTable
<1> QED BY <1>1, <1>2 DEF IsTable

\* The cycles after a resume.
LEMMA ResumedCycles ==
    ASSUME NEW f, IsTable(f), NEW q \in DOMAIN f
    PROVE  /\ Resumed(f)[q].cycle \in Nat /\ Resumed(f)[q].cycle >= f[q].cycle
           /\ f[q].cycle \in Nat
<1>0. IsFiniteSet(DOMAIN f) /\ \A r \in DOMAIN f : IsRequest(f[r]) /\ FrontOf(f[r]) BY DEF IsTable
<1>1. f[q].cycle \in Nat BY <1>0 DEF IsRequest
<1>2. Resumed(f)[q] = f[q] \/ Resumed(f)[q] = Advanced(f[q], f) BY DEF Resumed
<1>3. Advanced(f[q], f).cycle = f[q].cycle \/ Advanced(f[q], f).cycle = f[q].cycle + 1
  BY <1>0, AdvancedFacts
<1> QED BY <1>1, <1>2, <1>3

\* A request leaves; h is the heap before the woken leaders are pushed.
LEMMA EndKeeps ==
    ASSUME SchedulerInv, NEW r, NEW why, End(r, why),
           NEW h, IsABag(h), KeptIn(active, DOMAIN h),
           eligible' = PushedResumed(h, WithoutRequest(active, r)), blocked' = <<>>
    PROVE  SchedulerInv'
<1> DEFINE f == WithoutRequest(active, r)
<1>0. active' = Resumed(f) /\ RecordOrigins(active') BY DEF End, Erased
<1>1. IsTable(active) /\ DOMAIN active \in SUBSET Requests BY TableDef DEF SchedulerInv
<1>2. /\ DOMAIN f = DOMAIN active \ {r} /\ IsTable(f)
      /\ \A q \in DOMAIN f : f[q] = active[q]
  BY <1>1, RemovedTable
<1> HIDE DEF f
<1>3. \A q \in DOMAIN f : f[q].parked => ~f[q].completed
  BY <1>2 DEF SchedulerInv, LeadersWait, LeadersWaitIn
<1>4. DOMAIN active' = DOMAIN f /\ IsTable(active') /\ LeadersWaitIn(active')
  BY <1>0, <1>2, <1>3, ResumedFacts
<1>5. RequestsSound' BY <1>1, <1>2, <1>4 DEF RequestsSound, IsTable
<1>6. LeadersWait' BY <1>4 DEF LeadersWait, LeadersWaitIn, Wakes
<1>7. KeptIn(f, DOMAIN h \cup {}) BY <1>2 DEF KeptIn
<1>8. KeptIn(active', DOMAIN eligible' \cup {}) BY <1>0, <1>7, ResumedKept DEF f
<1>9. IsABag(eligible') BY PushResumedFacts
<1>10. HeapShape' /\ HeapKept'
  <2>1. DOMAIN eligible' \cup {} = DOMAIN eligible' OBVIOUS
  <2>2. KeptIn(active', DOMAIN eligible') BY <1>8, <2>1
  <2> QED BY <1>9, <2>2, ControlShape
<1>11. \A q \in DOMAIN active' : active'[q].cycle \in Nat /\ active'[q].cycle >= oldest
  <2> SUFFICES ASSUME NEW q \in DOMAIN f
               PROVE  active'[q].cycle \in Nat /\ active'[q].cycle >= oldest
    BY <1>4
  <2>1. active'[q].cycle \in Nat /\ active'[q].cycle >= f[q].cycle /\ f[q].cycle \in Nat
    BY <1>0, <1>2, ResumedCycles
  <2>2. f[q].cycle >= oldest /\ oldest \in Nat BY <1>2 DEF SchedulerInv, OriginsKept, CycleRetained
  <2> QED BY <2>1, <2>2
<1>12. OriginsKept' BY <1>0, <1>11, RecordedKept DEF SchedulerInv
<1> QED BY <1>5, <1>6, <1>10, <1>12 DEF SchedulerInv

\* What an update makes of a request, and why its followers still have somebody
\* to wait for.
LEMMA UpdatedFacts ==
    ASSUME SchedulerInv, NEW r \in DOMAIN active, NEW p \in Priorities,
           NEW paused \in BOOLEAN, NEW filter \in Filters
    PROVE  LET b == Updated(r, p, paused, filter)
           IN  /\ IsRequest(b) /\ FrontOf(b) /\ b.priority = p
               /\ b.generation > active[r].generation
               /\ b.cycle >= active[r].cycle
               /\ (b.admitted = {} \/ (b.cycle = active[r].cycle /\ b.admitted = active[r].admitted))
               /\ LeadersWaitIn([active EXCEPT ![r] = b])
<1> DEFINE old == active[r]
           c == [active[r] EXCEPT !.priority = p, !.paused = paused,
                                  !.filter = filter, !.parked = FALSE]
           a == Rebuilt(c)
           f == [active EXCEPT ![r] = a]
           b == Updated(r, p, paused, filter)
<1>1. /\ IsRequest(old) /\ IsFiniteSet(DOMAIN active)
      /\ \A q \in DOMAIN active : IsRequest(active[q]) /\ active[q].cycle \in Nat
  BY DEF SchedulerInv, RequestsSound, IsRequest
<1>2. p \in Nat /\ filter \in Nat \X Nat BY SchedulerAssumption
<1>3. /\ DOMAIN c = RequestFields
      /\ c.priority = p /\ c.group_order = old.group_order /\ c.filter = filter
      /\ c.cycle = old.cycle /\ c.admitted = old.admitted /\ c.round = old.round
      /\ c.generation = old.generation /\ c.paused = paused /\ c.parked = FALSE
      /\ c.completed = old.completed
  BY <1>1 DEF IsRequest, RequestFields
<1>b. b = IF a.subgroup_frontiers = <<>> THEN Advanced(a, f) ELSE a BY DEF Updated
<1> HIDE DEF c, b
<1>4. IsRequest(c)
  <2>1. c.priority \in Nat /\ c.group_order \in {1, 2} /\ c.filter \in Nat \X Nat
    BY <1>1, <1>2, <1>3 DEF IsRequest
  <2>2. c.cycle \in Nat /\ c.round \in Nat /\ c.generation \in Nat /\ c.admitted \subseteq Indices
    BY <1>1, <1>3 DEF IsRequest
  <2>3. c.paused \in BOOLEAN /\ c.parked \in BOOLEAN /\ c.completed \in BOOLEAN BY <1>1, <1>3 DEF IsRequest
  <2> QED BY <1>3, <2>1, <2>2, <2>3 DEF IsRequest
<1>5. /\ IsRequest(a) /\ FrontOf(a) /\ SameChoice(c, a)
      /\ a.priority = p /\ a.cycle = old.cycle /\ a.admitted = old.admitted
      /\ a.generation = old.generation + 1 /\ ~a.parked
      /\ (a.completed <=> a.subgroup_frontiers = <<>>)
      /\ (a.subgroup_frontiers = <<>> => Selected(c) \ c.admitted = {})
  BY <1>3, <1>4, RebuiltFacts
<1> HIDE DEF a
<1>6. /\ DOMAIN f = DOMAIN active /\ f[r] = a
      /\ \A q \in DOMAIN active : q # r => f[q] = active[q]
  OBVIOUS
<1>7. IsFiniteSet(DOMAIN f) /\ \A q \in DOMAIN f : IsRequest(f[q]) BY <1>1, <1>5, <1>6
<1> HIDE DEF f
<1>8. old.generation \in Nat /\ old.cycle \in Nat BY <1>1 DEF IsRequest
<1>9. LeadersWaitIn(active) /\ \A q \in DOMAIN active : active[q].cycle \in Nat
  BY <1>1 DEF SchedulerInv, LeadersWait
<1>10. CASE a.subgroup_frontiers # <<>>
  <2>1. b = a BY <1>b, <1>10
  <2>2. LeadersWaitIn([active EXCEPT ![r] = b]) BY <1>5, <1>8, <1>9, <2>1, ChangedLeaders
  <2> QED BY <1>5, <1>8, <2>1, <2>2 DEF b
<1>11. CASE a.subgroup_frontiers = <<>>
  <2>1. b = Advanced(a, f) BY <1>b, <1>11
  <2>2. /\ IsRequest(b) /\ FrontOf(b) /\ b.priority = a.priority
        /\ \/ /\ ~b.parked /\ b.completed /\ b.cycle = a.cycle /\ b.admitted = a.admitted
              /\ b.generation = a.generation
           \/ /\ b.parked /\ ~b.completed /\ b.cycle = a.cycle /\ b.admitted = a.admitted
              /\ b.generation = a.generation
              /\ Selected(a) # {} /\ a.cycle >= Limit(f, a.cycle)
           \/ /\ ~b.parked /\ ~b.completed /\ b.cycle = a.cycle + 1 /\ b.admitted = {}
              /\ b.generation = a.generation + 1
              /\ Selected(a) # {}
    BY <1>5, <1>7, <2>1, AdvancedFacts
  <2>3. Selected(a) # {} => old.admitted # {}
    <3>1. Selected(a) = Selected(c) BY <1>5, SelectedSame
    <3> QED BY <1>3, <1>5, <1>11, <3>1
  <2>4. b.cycle \in Nat BY <2>2 DEF IsRequest
  <2>5. ASSUME b.parked PROVE \E t \in DOMAIN active \ {r} : active[t].cycle + MaxLead <= old.cycle
    <3>1. old.cycle >= Limit(f, old.cycle) BY <1>5, <2>2, <2>5
    <3>2. RunningCycles(f) # {} BY <1>8, <3>1 DEF Limit
    <3>3. PICK t \in DOMAIN f : ~f[t].completed /\ f[t].cycle = Min(RunningCycles(f))
      BY <1>7, <3>2, RunningFacts
    <3>4. t # r BY <1>5, <1>6, <1>11, <3>3
    <3>5. f[t] = active[t] /\ t \in DOMAIN active /\ active[t].cycle \in Nat BY <1>1, <1>6, <3>4
    <3>6. Limit(f, old.cycle) = active[t].cycle + MaxLead BY <3>2, <3>3, <3>5 DEF Limit
    <3>7. MaxLead \in Nat BY SchedulerAssumption
    <3>8. active[t].cycle + MaxLead <= old.cycle BY <1>8, <3>1, <3>5, <3>6, <3>7
    <3> QED BY <3>4, <3>5, <3>8
  <2>6. LeadersWaitIn([active EXCEPT ![r] = b])
    <3>1. \/ ~b.parked /\ b.cycle = old.cycle /\ b.admitted = old.admitted
          \/ ~b.parked /\ b.cycle = old.cycle + 1 /\ b.admitted = {} /\ old.admitted # {}
          \/ /\ b.parked /\ ~b.completed /\ b.cycle = old.cycle /\ old.admitted # {}
             /\ \E t \in DOMAIN active \ {r} : active[t].cycle + MaxLead <= old.cycle
      BY <1>5, <2>2, <2>3, <2>5
    <3> QED BY <1>9, <2>4, <3>1, ChangedLeaders
  <2>7. b.generation > old.generation /\ b.cycle >= old.cycle BY <1>5, <1>8, <2>2
  <2>8. (b.admitted = {} \/ (b.cycle = old.cycle /\ b.admitted = old.admitted)) BY <1>5, <2>2
  <2>9. b.priority = p BY <1>5, <2>2
  <2> QED BY <2>2, <2>6, <2>7, <2>8, <2>9 DEF b
<1> QED BY <1>10, <1>11

\* An update rebuilds and enqueues its request before anyone else is served.
LEMMA UpdateKeeps ==
    ASSUME SchedulerInv, NEW r \in Requests, NEW p \in Priorities,
           NEW paused \in BOOLEAN, NEW filter \in Filters, UpdateRequest(r, p, paused, filter)
    PROVE  SchedulerInv'
<1> DEFINE b == Updated(r, p, paused, filter)
<1>1. /\ pc = "control" /\ r \in DOMAIN active /\ active' = [active EXCEPT ![r] = b]
      /\ eligible' = Pushed(eligible, r, active'[r]) /\ RecordOrigins(active') /\ blocked' = blocked
  BY DEF UpdateRequest
<1>2. /\ IsRequest(b) /\ FrontOf(b) /\ b.cycle >= active[r].cycle
      /\ LeadersWaitIn([active EXCEPT ![r] = b])
  BY <1>1, UpdatedFacts
<1> HIDE DEF b
<1>3. /\ DOMAIN active' = DOMAIN active /\ active'[r] = b
      /\ \A q \in DOMAIN active : q # r => active'[q] = active[q]
  BY <1>1
<1>4. blocked = <<>> /\ ToSet(blocked) = {} /\ IsABag(eligible)
  BY <1>1, NothingBlocked DEF SchedulerInv, HeapShape
<1>5. KeptIn(active, DOMAIN eligible) BY <1>4, KeptDef DEF SchedulerInv
<1>6. RequestsSound' BY <1>2, <1>3 DEF SchedulerInv, RequestsSound
<1>7. LeadersWait' BY <1>1, <1>2 DEF LeadersWait, LeadersWaitIn, Wakes
<1>8. /\ IsABag(eligible')
      /\ DOMAIN eligible' = DOMAIN eligible \cup (IF Enqueues(b) THEN {Candidate(r, b, HeadOf(b))} ELSE {})
  BY <1>1, <1>3, <1>4, PushFacts
<1>9. KeptIn(active', DOMAIN eligible') BY <1>3, <1>5, <1>8 DEF KeptIn
<1>10. HeapShape' /\ HeapKept' BY <1>1, <1>4, <1>8, <1>9, ControlShape
<1>11. \A q \in DOMAIN active' : active'[q].cycle \in Nat /\ active'[q].cycle >= oldest
  <2>1. oldest \in Nat /\ \A q \in DOMAIN active : active[q].cycle \in Nat /\ active[q].cycle >= oldest
    BY DEF SchedulerInv, OriginsKept, CycleRetained, RequestsSound, IsRequest
  <2>2. b.cycle \in Nat BY <1>2 DEF IsRequest
  <2>3. b.cycle >= oldest BY <1>1, <1>2, <2>1, <2>2
  <2> QED BY <1>3, <2>1, <2>2, <2>3
<1>12. OriginsKept' BY <1>1, <1>11, RecordedKept DEF SchedulerInv
<1> QED BY <1>6, <1>7, <1>10, <1>12 DEF SchedulerInv

\* Ending a request wakes the leaders that waited for it.
LEMMA UnsubscribeKeeps ==
    ASSUME SchedulerInv, NEW r, UnsubscribeRequest(r) \/ Finalize(r)
    PROVE  SchedulerInv'
<1>1. /\ pc = "control" /\ r \in DOMAIN active /\ \E why : End(r, why)
      /\ eligible' = PushedResumed(eligible, WithoutRequest(active, r)) /\ blocked' = blocked
  BY DEF UnsubscribeRequest, Finalize, Finalizable
<1>2. blocked = <<>> /\ ToSet(blocked) = {} /\ IsABag(eligible)
  BY <1>1, NothingBlocked DEF SchedulerInv, HeapShape
<1>3. KeptIn(active, DOMAIN eligible) BY <1>2, KeptDef DEF SchedulerInv
<1> QED BY <1>1, <1>2, <1>3, EndKeeps

\* A pass starts with every candidate in the heap.
LEMMA PassBeginKeeps ==
    ASSUME SchedulerInv, PassBegin
    PROVE  SchedulerInv'
<1> DEFINE needed == {active[r].cycle : r \in DOMAIN active}
           low == IF oldest > Min(needed) THEN oldest ELSE Min(needed)
<1>1. /\ pc = "control" /\ DOMAIN active # {} /\ pc' = "pass" /\ blocked' = <<>>
      /\ oldest' = low /\ origins' = {c \in origins : c \in low..Max(needed)}
      /\ active' = active /\ eligible' = eligible
  BY DEF PassBegin, requestVars
<1>2. blocked = <<>> /\ blocked' = blocked BY <1>1, NothingBlocked DEF SchedulerInv
<1>3. RequestsSound' /\ LeadersWait' /\ HeapKept'
  BY <1>1, <1>2 DEF SchedulerInv, RequestsSound, LeadersWait, LeadersWaitIn, Wakes, HeapKept
<1>4. HeapShape' BY <1>1, <1>2 DEF SchedulerInv, HeapShape
<1>5. \A r \in DOMAIN active : active[r].cycle \in Nat BY DEF SchedulerInv, RequestsSound, IsRequest
<1>6. needed \in SUBSET Nat /\ needed # {} /\ IsFiniteSet(needed)
  <2>1. needed \in SUBSET Nat /\ needed # {} BY <1>1, <1>5
  <2> DEFINE g == [r \in DOMAIN active |-> active[r].cycle]
  <2>2. g \in Surjection(DOMAIN active, needed) BY DEF Surjection
  <2>3. IsFiniteSet(DOMAIN active) BY DEF SchedulerInv, RequestsSound
  <2> HIDE DEF g, needed
  <2>4. IsFiniteSet(needed) BY <2>2, <2>3, FS_Surjection
  <2> QED BY <2>1, <2>4
<1>7. \A r \in DOMAIN active : active[r].cycle \in needed OBVIOUS
<1> HIDE DEF needed
<1>8. Min(needed) \in needed /\ Min(needed) \in Nat /\ \A y \in needed : Min(needed) <= y BY <1>6, NatMin
<1>9. Max(needed) \in needed /\ \A y \in needed : y <= Max(needed)
  <2> DEFINE v == [x \in needed |-> -x]
  <2>1. \A x \in needed : x \in Nat /\ v[x] = -x /\ v[x] \in Int BY <1>6
  <2> HIDE DEF v
  <2>2. PICK m \in needed : \A x \in needed : v[m] <= v[x] BY <1>6, <2>1, LeastOnes
  <2>3. \A x \in needed : m >= x BY <2>1, <2>2
  <2>4. \E x \in needed : \A y \in needed : x >= y BY <2>3
  <2>5. Max(needed) \in needed /\ \A y \in needed : Max(needed) >= y BY <2>4 DEF Max
  <2> QED BY <2>1, <2>5
<1>10. oldest \in Nat /\ low \in Nat BY <1>8 DEF SchedulerInv, OriginsKept
<1>11. \A r \in DOMAIN active : active[r].cycle >= low /\ active[r].cycle <= Max(needed)
  BY <1>5, <1>7, <1>8, <1>9, <1>10 DEF SchedulerInv, OriginsKept, CycleRetained
<1> HIDE DEF low
<1>12. \A r \in DOMAIN active : active[r].cycle \in low..Max(needed)
  <2>1. Max(needed) \in Nat BY <1>6, <1>9
  <2> QED BY <1>5, <1>10, <1>11, <2>1
<1>13. origins' \subseteq Nat BY <1>1 DEF SchedulerInv, OriginsKept
<1>14. CycleRetained'
  <2>1. \A r \in DOMAIN active : NeedsOrigin(active[r]) => active[r].cycle \in origins'
    BY <1>1, <1>12 DEF SchedulerInv, OriginsKept, CycleRetained
  <2> QED BY <1>1, <1>11, <2>1 DEF CycleRetained, NeedsOrigin
<1>15. OriginsKept' BY <1>1, <1>10, <1>13, <1>14 DEF OriginsKept
<1> QED BY <1>3, <1>4, <1>15 DEF SchedulerInv

\* pop() removes the top and nothing else.
LEMMA PoppedFacts ==
    ASSUME IsABag(eligible)
    PROVE  /\ IsABag(Popped) /\ DOMAIN Popped \subseteq DOMAIN eligible
           /\ DOMAIN eligible \ {Top} \subseteq DOMAIN Popped
  BY BagPop DEF Popped

\* The blocked candidates go back into the heap.
LEMMA PutBackFacts ==
    ASSUME HeapShape, NEW h, IsABag(h)
    PROVE  IsABag(PutBack(h)) /\ DOMAIN PutBack(h) = DOMAIN h \cup ToSet(blocked)
<1>1. IsABag(ToBag(blocked)) /\ DOMAIN ToBag(blocked) = ToSet(blocked) BY ListBag DEF HeapShape
<1> QED BY <1>1, BagAdd DEF PutBack

\* A candidate that is thrown away was not the live one of its request.
LEMMA PopStaleKeeps ==
    ASSUME SchedulerInv, PopStale
    PROVE  SchedulerInv'
<1>1. /\ pc = "pass" /\ ~Live(Top) /\ eligible' = Popped
      /\ UNCHANGED <<active, origins, oldest, blocked, pc>>
  BY DEF PopStale, requestVars, originVars
<1>2. /\ IsABag(Popped) /\ DOMAIN Popped \subseteq DOMAIN eligible
      /\ DOMAIN eligible \ {Top} \subseteq DOMAIN Popped
  BY PoppedFacts DEF SchedulerInv, HeapShape
<1>3. RequestsSound' /\ LeadersWait' /\ OriginsKept'
  BY <1>1 DEF SchedulerInv, RequestsSound, LeadersWait, LeadersWaitIn, Wakes, OriginsKept, CycleRetained
<1>4. HeapShape' BY <1>1, <1>2 DEF SchedulerInv, HeapShape
<1>5. HeapKept'
  <2> SUFFICES ASSUME NEW r \in DOMAIN active, Enqueues(active[r])
               PROVE  Candidate(r, active[r], HeadOf(active[r])) \in DOMAIN eligible' \cup ToSet(blocked)
    BY <1>1 DEF HeapKept
  <2> DEFINE c == Candidate(r, active[r], HeadOf(active[r]))
  <2>1. c \in DOMAIN eligible \cup ToSet(blocked) BY DEF SchedulerInv, HeapKept
  <2>2. Live(c) BY HeadLive DEF SchedulerInv
  <2> HIDE DEF c
  <2>3. c # Top BY <1>1, <2>2
  <2>4. c \in DOMAIN eligible' \cup ToSet(blocked) BY <1>1, <1>2, <2>1, <2>3
  <2> QED BY <2>4 DEF c
<1> QED BY <1>3, <1>4, <1>5 DEF SchedulerInv

\* A refused candidate waits in the list; its next subgroup is enqueued.
LEMMA PopBlockedKeeps ==
    ASSUME SchedulerInv, PopBlocked
    PROVE  SchedulerInv'
<1> DEFINE c == Top
           a == active[c.request]
           n == Candidate(c.request, a, NextAfter(a, c.index))
<1>1. /\ pc = "pass" /\ blocked' = Append(blocked, c)
      /\ eligible' = (IF After(a, c.index) = {} THEN Popped ELSE Popped (+) SetToBag({n}))
      /\ UNCHANGED <<active, origins, oldest, pc>>
  BY DEF PopBlocked, requestVars, originVars
<1>2. /\ IsABag(Popped) /\ DOMAIN Popped \subseteq DOMAIN eligible
      /\ DOMAIN eligible \ {c} \subseteq DOMAIN Popped
  BY PoppedFacts DEF SchedulerInv, HeapShape
<1> HIDE DEF c, a, n
<1>3. IsABag(Popped (+) SetToBag({n})) /\ DOMAIN (Popped (+) SetToBag({n})) = DOMAIN Popped \cup {n}
  <2>1. IsABag(SetToBag({n})) /\ DOMAIN SetToBag({n}) = {n} BY SetBag
  <2> QED BY <1>2, <2>1, BagAdd
<1>4. IsABag(eligible') /\ DOMAIN Popped \subseteq DOMAIN eligible' BY <1>1, <1>2, <1>3
<1>5. blocked' \in Seq(ToSet(blocked')) /\ ToSet(blocked') = ToSet(blocked) \cup {c}
  BY <1>1, ListGrows DEF SchedulerInv, HeapShape
<1>6. RequestsSound' /\ LeadersWait' /\ OriginsKept'
  BY <1>1 DEF SchedulerInv, RequestsSound, LeadersWait, LeadersWaitIn, Wakes, OriginsKept, CycleRetained
<1>7. HeapShape' BY <1>1, <1>4, <1>5 DEF HeapShape
<1>8. HeapKept'
  <2>1. DOMAIN eligible \cup ToSet(blocked) \subseteq DOMAIN eligible' \cup ToSet(blocked')
    BY <1>2, <1>4, <1>5
  <2>2. active' = active BY <1>1
  <2> QED BY <2>1, <2>2 DEF SchedulerInv, HeapKept
<1> QED BY <1>6, <1>7, <1>8 DEF SchedulerInv

\* The requests right after one of them was served, before the leaders resume.
ServedTable(r, a) ==
    LET f == [active EXCEPT ![r] = a]
    IN  IF a.scheduler_frontiers = {} THEN [f EXCEPT ![r] = Advanced(a, f)] ELSE f

\* What serving a candidate does to the requests.
LEMMA ServedTableFacts ==
    ASSUME RequestsSound, LeadersWait, NEW r \in DOMAIN active, NEW i \in active[r].scheduler_frontiers,
           ~active[r].completed
    PROVE  LET old == active[r]
               g == ServedTable(r, Served(old, i))
               s == g[r]
           IN  /\ DOMAIN g = DOMAIN active /\ IsTable(g)
               /\ \A q \in DOMAIN active : q # r => g[q] = active[q]
               /\ \A q \in DOMAIN g : g[q].parked => ~g[q].completed
               /\ s.priority = old.priority
               /\ s.generation >= old.generation /\ s.cycle >= old.cycle
               /\ (s.admitted = {} \/ (s.cycle = old.cycle /\ s.admitted = old.admitted \cup {i}))
<1> DEFINE old == active[r]
           a == Served(old, i)
           f == [active EXCEPT ![r] = a]
           b == Advanced(a, f)
           g == ServedTable(r, a)
           s == g[r]
<1>1. /\ IsFiniteSet(DOMAIN active)
      /\ \A q \in DOMAIN active : IsRequest(active[q]) /\ FrontOf(active[q])
  BY DEF RequestsSound
<1>2. /\ IsRequest(a) /\ FrontOf(a) /\ a.priority = old.priority /\ a.cycle = old.cycle
      /\ a.admitted = old.admitted \cup {i} /\ a.generation = old.generation
      /\ a.parked = old.parked /\ a.completed = old.completed
  BY <1>1, ServedFacts
<1>3. g = IF a.scheduler_frontiers = {} THEN [f EXCEPT ![r] = b] ELSE f BY DEF ServedTable
<1> HIDE DEF a, g, b
<1>4. /\ DOMAIN f = DOMAIN active /\ f[r] = a
      /\ \A q \in DOMAIN active : q # r => f[q] = active[q]
  OBVIOUS
<1>5. IsFiniteSet(DOMAIN f) /\ \A q \in DOMAIN f : IsRequest(f[q]) BY <1>1, <1>2, <1>4
<1> HIDE DEF f
<1>6. old.generation \in Nat /\ old.cycle \in Nat BY <1>1 DEF IsRequest
<1>7. \A q \in DOMAIN active : active[q].parked => ~active[q].completed BY DEF LeadersWait, LeadersWaitIn
<1>8. /\ IsRequest(b) /\ FrontOf(b) /\ b.priority = a.priority
      /\ (b.parked => ~b.completed)
      /\ (b.generation = a.generation \/ b.generation = a.generation + 1)
      /\ (b.cycle = a.cycle \/ b.cycle = a.cycle + 1)
      /\ (b.admitted = {} \/ (b.cycle = a.cycle /\ b.admitted = a.admitted))
  BY <1>2, <1>5, AdvancedFacts DEF b
<1>9. /\ DOMAIN g = DOMAIN active /\ (s = a \/ s = b)
      /\ \A q \in DOMAIN active : q # r => g[q] = active[q]
  BY <1>3, <1>4
<1>10. IsTable(g) BY <1>1, <1>2, <1>8, <1>9 DEF IsTable
<1>11. \A q \in DOMAIN g : g[q].parked => ~g[q].completed BY <1>2, <1>7, <1>8, <1>9
<1> HIDE DEF s
<1>12. s.priority = old.priority /\ s.generation >= old.generation /\ s.cycle >= old.cycle
  BY <1>2, <1>6, <1>8, <1>9
<1>13. s.admitted = {} \/ (s.cycle = old.cycle /\ s.admitted = old.admitted \cup {i}) BY <1>2, <1>8, <1>9
<1> QED BY <1>9, <1>10, <1>11, <1>12, <1>13 DEF s, g, a

\* What PopServe does, spelled out.
LEMMA ServeStep ==
    ASSUME PopServe
    PROVE  LET c == Top
               r == c.request
               g == ServedTable(r, Served(active[r], c.index))
           IN  /\ pc = "pass" /\ eligible # EmptyBag /\ Live(c) /\ r \in DOMAIN active
               /\ c.index \in active[r].scheduler_frontiers
               /\ c.generation = active[r].generation /\ c.cycle = active[r].cycle
               /\ ~active[r].completed
               /\ active' = Resumed(g)
               /\ eligible' = PutBack(Pushed(PushedResumed(Popped, g), r, Resumed(g)[r]))
               /\ RecordOrigins(active') /\ sent' = sent \cup {<<r, c.cycle, c.index>>}
               /\ blocked' = <<>> /\ pc' = "control" /\ UNCHANGED ended
  BY DEF PopServe, ServedTable, Live

\* A send re-enqueues its request and every leader it wakes.
LEMMA PopServeKeeps ==
    ASSUME SchedulerInv, PopServe
    PROVE  SchedulerInv'
<1> DEFINE c == Top
           r == c.request
           g == ServedTable(r, Served(active[r], c.index))
           b == Resumed(g)[r]
           h == Pushed(PushedResumed(Popped, g), r, b)
<1>1. /\ r \in DOMAIN active /\ c.index \in active[r].scheduler_frontiers
      /\ ~active[r].completed
      /\ active' = Resumed(g) /\ eligible' = PutBack(h)
      /\ RecordOrigins(active') /\ blocked' = <<>>
  BY ServeStep
<1>2. /\ IsABag(Popped) /\ DOMAIN Popped \subseteq DOMAIN eligible
      /\ DOMAIN eligible \ {c} \subseteq DOMAIN Popped
  BY PoppedFacts DEF SchedulerInv, HeapShape
<1>3. /\ DOMAIN g = DOMAIN active /\ IsTable(g)
      /\ \A q \in DOMAIN active : q # r => g[q] = active[q]
      /\ \A q \in DOMAIN g : g[q].parked => ~g[q].completed
      /\ g[r].cycle >= active[r].cycle
  BY <1>1, ServedTableFacts DEF SchedulerInv
<1> HIDE DEF r, g
<1>4. DOMAIN active' = DOMAIN g /\ IsTable(active') /\ LeadersWaitIn(active') BY <1>1, <1>3, ResumedFacts
<1>5. RequestsSound' BY <1>3, <1>4 DEF SchedulerInv, RequestsSound, IsTable
<1>6. LeadersWait' BY <1>4 DEF LeadersWait, LeadersWaitIn, Wakes
<1>7. IsABag(PushedResumed(Popped, g)) /\ DOMAIN Popped \subseteq DOMAIN PushedResumed(Popped, g)
  BY <1>2, PushResumedFacts
<1>8. /\ IsABag(h)
      /\ DOMAIN h = DOMAIN PushedResumed(Popped, g)
                      \cup (IF Enqueues(b) THEN {Candidate(r, b, HeadOf(b))} ELSE {})
  BY <1>7, PushFacts
<1>9. /\ IsABag(eligible') /\ DOMAIN eligible' = DOMAIN h \cup ToSet(blocked)
  BY <1>1, <1>8, PutBackFacts DEF SchedulerInv
<1>10. KeptIn(active', DOMAIN eligible')
  <2> SUFFICES ASSUME NEW q \in DOMAIN g, Enqueues(active'[q])
               PROVE  Candidate(q, active'[q], HeadOf(active'[q])) \in DOMAIN eligible'
    BY <1>4 DEF KeptIn
  <2>1. CASE q = r BY <1>1, <1>8, <1>9, <2>1
  <2>2. CASE q # r /\ ~g[q].parked
    <3>1. active'[q] = g[q] /\ g[q] = active[q] /\ q \in DOMAIN active BY <1>1, <1>3, <2>2, ResumedFacts
    <3> DEFINE k == Candidate(q, active[q], HeadOf(active[q]))
    <3>2. k \in DOMAIN eligible \cup ToSet(blocked) BY <3>1 DEF SchedulerInv, HeapKept
    <3>3. k # c BY <2>2 DEF Candidate, r
    <3> HIDE DEF k
    <3>4. k \in DOMAIN eligible' BY <1>2, <1>7, <1>8, <1>9, <3>2, <3>3
    <3> QED BY <3>1, <3>4 DEF k
  <2>3. CASE q # r /\ g[q].parked
    <3>1. q \in Woken(g) BY <1>1, <2>3 DEF Woken
    <3>2. Candidate(q, Resumed(g)[q], HeadOf(Resumed(g)[q])) \in DOMAIN PushedResumed(Popped, g)
      <4> DEFINE S == {Candidate(p, Resumed(g)[p], HeadOf(Resumed(g)[p])) : p \in Woken(g)}
      <4>1. Candidate(q, Resumed(g)[q], HeadOf(Resumed(g)[q])) \in S BY <3>1
      <4>2. S \subseteq DOMAIN PushedResumed(Popped, g)
        <5>1. DOMAIN PushedResumed(Popped, g) = DOMAIN Popped \cup S BY <1>2, PushResumedFacts
        <5> QED BY <5>1
      <4> QED BY <4>1, <4>2
    <3> QED BY <1>1, <1>8, <1>9, <3>2
  <2> QED BY <2>1, <2>2, <2>3
<1>11. HeapShape' /\ HeapKept' BY <1>1, <1>9, <1>10, ControlShape
<1>12. \A q \in DOMAIN active' : active'[q].cycle \in Nat /\ active'[q].cycle >= oldest
  <2> SUFFICES ASSUME NEW q \in DOMAIN g
               PROVE  active'[q].cycle \in Nat /\ active'[q].cycle >= oldest
    BY <1>4
  <2>1. active'[q].cycle \in Nat /\ active'[q].cycle >= g[q].cycle /\ g[q].cycle \in Nat
    BY <1>1, <1>3, ResumedCycles
  <2>2. active[q].cycle \in Nat /\ active[q].cycle >= oldest /\ oldest \in Nat
    BY <1>3 DEF SchedulerInv, OriginsKept, CycleRetained, RequestsSound, IsRequest
  <2>3. g[q].cycle >= active[q].cycle BY <1>3, <2>2
  <2> QED BY <2>1, <2>2, <2>3
<1>13. OriginsKept' BY <1>1, <1>12, RecordedKept DEF SchedulerInv
<1> QED BY <1>5, <1>6, <1>11, <1>13 DEF SchedulerInv

\* A pass that sends nothing puts every candidate back.
LEMMA PassStallsKeeps ==
    ASSUME SchedulerInv, PassStalls
    PROVE  SchedulerInv'
<1>1. /\ eligible' = PutBack(eligible) /\ blocked' = <<>>
      /\ UNCHANGED <<active, origins, oldest>>
  BY DEF PassStalls, requestVars, originVars
<1>2. IsABag(eligible') /\ DOMAIN eligible' = DOMAIN eligible \cup ToSet(blocked)
  BY <1>1, PutBackFacts DEF SchedulerInv, HeapShape
<1>3. RequestsSound' /\ LeadersWait' /\ OriginsKept'
  BY <1>1 DEF SchedulerInv, RequestsSound, LeadersWait, LeadersWaitIn, Wakes, OriginsKept, CycleRetained
<1>4. KeptIn(active', DOMAIN eligible') BY <1>1, <1>2, KeptDef DEF SchedulerInv
<1> QED BY <1>1, <1>2, <1>3, <1>4, ControlShape DEF SchedulerInv

\* The request a stall ends is the one of the last blocked candidate.
LEMMA VictimFacts ==
    ASSUME HeapShape, blocked # <<>>
    PROVE  /\ Len(blocked) \in Nat \ {0} /\ DOMAIN blocked = 1..Len(blocked)
           /\ Len(blocked) \in DOMAIN blocked /\ Last(blocked) = blocked[Len(blocked)]
<1>1. blocked \in Seq(ToSet(blocked)) BY DEF HeapShape
<1>2. Len(blocked) \in Nat /\ Len(blocked) # 0 /\ DOMAIN blocked = 1..Len(blocked)
  BY <1>1, EmptySeq, LenProperties
<1> QED BY <1>2 DEF Last

\* The stalled request ends; the others keep their candidates.
LEMMA StallCancelKeeps ==
    ASSUME SchedulerInv, CancelStalled
    PROVE  SchedulerInv'
<1> DEFINE r == Victim
<1>1. /\ End(r, "too_far_behind") /\ blocked' = <<>>
      /\ eligible' = PushedResumed(PutBack(eligible), WithoutRequest(active, r))
  BY DEF CancelStalled
<1> HIDE DEF r
<1>3. IsABag(PutBack(eligible)) /\ DOMAIN PutBack(eligible) = DOMAIN eligible \cup ToSet(blocked)
  BY PutBackFacts DEF SchedulerInv, HeapShape
<1>4. KeptIn(active, DOMAIN PutBack(eligible)) BY <1>3, KeptDef DEF SchedulerInv
<1> QED BY <1>1, <1>3, <1>4, EndKeeps

\* A stuttering step changes nothing.
LEMMA SchedulerStutters ==
    ASSUME SchedulerInv, UNCHANGED schedulerVars
    PROVE  SchedulerInv'
<1>1. UNCHANGED <<active, eligible, blocked, pc, origins, oldest>>
  BY DEF schedulerVars, requestVars, originVars, passVars
<1> QED BY <1>1 DEF SchedulerInv, RequestsSound, HeapShape, HeapKept, LeadersWait,
   LeadersWaitIn, Wakes, OriginsKept, CycleRetained

\* Every step of the loop keeps the invariant.
LEMMA SchedulerStep ==
    ASSUME SchedulerInv, [SchedulerNext]_schedulerVars
    PROVE  SchedulerInv'
<1>1. CASE UNCHANGED schedulerVars BY <1>1, SchedulerStutters
<1>2. CASE \E r \in Requests : \E p \in Priorities, filter \in Filters : Subscribe(r, p, filter)
  BY <1>2, SubscribeKeeps
<1>3. CASE \E r \in Requests : \E p \in Priorities, filter \in Filters :
             \E paused \in BOOLEAN : UpdateRequest(r, p, paused, filter)
  BY <1>3, UpdateKeeps
<1>4. CASE \E r \in Requests : UnsubscribeRequest(r) \/ Finalize(r) BY <1>4, UnsubscribeKeeps
<1>5. CASE PassBegin BY <1>5, PassBeginKeeps
<1>6. CASE PopStale BY <1>6, PopStaleKeeps
<1>7. CASE PopBlocked BY <1>7, PopBlockedKeeps
<1>8. CASE PopServe BY <1>8, PopServeKeeps
<1>9. CASE PassStalls BY <1>9, PassStallsKeeps
<1>10. CASE CancelStalled BY <1>10, StallCancelKeeps
<1> QED BY <1>1, <1>2, <1>3, <1>4, <1>5, <1>6, <1>7, <1>8, <1>9, <1>10 DEF SchedulerNext

\* The invariant implies what the run checks.
LEMMA SchedulerSoundHolds ==
    ASSUME SchedulerInv
    PROVE  SchedulerSound
<1>1. NoLostCandidate
  <2> SUFFICES ASSUME pc = "control", NEW r \in DOMAIN active, Enqueues(active[r])
               PROVE  Candidate(r, active[r], HeadOf(active[r])) \in DOMAIN eligible
    BY DEF NoLostCandidate, BagIn, BagToSet
  <2>1. ToSet(blocked) = {} BY NothingBlocked DEF SchedulerInv
  <2> QED BY <2>1 DEF SchedulerInv, HeapKept
<1>2. FrontierTracked
  <2> SUFFICES ASSUME NEW c, Live(c) PROVE Tracked(active[c.request], c.index) BY DEF FrontierTracked
  <2>1. c.request \in DOMAIN active /\ c.index \in active[c.request].scheduler_frontiers BY DEF Live
  <2>2. FrontOf(active[c.request]) BY <2>1 DEF SchedulerInv, RequestsSound
  <2> QED BY <2>1, <2>2, FrontFacts
<1>3. LeaderResumesBeforeDraft21
  <2> SUFFICES ASSUME Finalizable = {}, draft # 21, NEW r \in DOMAIN active, active[r].parked
               PROVE  \E q \in DOMAIN active \ {r} : ~active[q].completed /\ ~active[q].parked
    BY DEF LeaderResumesBeforeDraft21
  <2>1. PICK s \in DOMAIN active : Wakes(active, s, r) BY DEF SchedulerInv, LeadersWait, LeadersWaitIn
  <2>2. ~active[s].parked /\ s # r BY <2>1 DEF Wakes
  <2>3. ~active[s].completed
    <3>1. ~Held(active[s]) BY DEF Held
    <3> QED BY <3>1 DEF Finalizable
  <2> QED BY <2>2, <2>3
<1>4. CycleRetained BY DEF SchedulerInv, OriginsKept
<1> QED BY <1>1, <1>2, <1>3, <1>4 DEF SchedulerSound

\* The heap and the frontiers agree, for every plan and every number of requests:
\* no request is forgotten, no candidate is out of its subgroup's order, and no
\* parked leader waits for nobody.
THEOREM SchedulerForgetsNobody == SchedulerSpec => []SchedulerSound
<1>1. SchedulerInit => SchedulerInv BY SchedulerStarts
<1>2. SchedulerInv /\ [SchedulerNext]_schedulerVars => SchedulerInv' BY SchedulerStep
<1>3. SchedulerInv => SchedulerSound BY SchedulerSoundHolds
<1> QED BY <1>1, <1>2, <1>3, PTL DEF SchedulerSpec

(* ---- the order of service ---- *)

\* A finite non-empty set of naturals has a greatest element.
LEMMA NatMax ==
    ASSUME NEW S \in SUBSET Nat, S # {}, IsFiniteSet(S)
    PROVE  Max(S) \in S /\ \A y \in S : y <= Max(S)
<1> DEFINE v == [x \in S |-> -x]
<1>1. \A x \in S : x \in Nat /\ v[x] = -x /\ v[x] \in Int OBVIOUS
<1> HIDE DEF v
<1>2. PICK m \in S : \A x \in S : v[m] <= v[x] BY <1>1, LeastOnes
<1>3. \A x \in S : m >= x BY <1>1, <1>2
<1>4. \E x \in S : \A y \in S : x >= y BY <1>3
<1>5. Max(S) \in S /\ \A y \in S : Max(S) >= y BY <1>4 DEF Max
<1> QED BY <1>1, <1>5

\* The length of a loop is positive.
LEMMA CycleTimeFacts ==
    ASSUME Indices # {}
    PROVE  CycleTime \in Nat /\ CycleTime > 0
<1> DEFINE S == {Plan[i].time : i \in Indices}
           g == [i \in Indices |-> Plan[i].time]
<1>1. S \in SUBSET Nat /\ S # {} BY PlanFacts
<1>2. g \in Surjection(Indices, S) BY DEF Surjection
<1>3. CycleTime = Max(S) + 1 BY DEF CycleTime
<1> HIDE DEF S, g
<1>4. IsFiniteSet(S) BY <1>2, PlanFacts, FS_Surjection
<1>5. Max(S) \in Nat BY <1>1, <1>4, NatMax
<1> QED BY <1>3, <1>5

\* The time of an object tells the cycles apart.
LEMMA LoopedTimeFacts ==
    ASSUME NEW i \in Indices, NEW m \in Nat, NEW n \in Nat
    PROVE  LoopedTime(i, m) \in Int /\ (LoopedTime(i, m) = LoopedTime(i, n) => m = n)
<1> DEFINE t == Plan[i].time
           d == CycleTime
<1>1. t \in Nat /\ d \in Nat /\ d > 0 BY PlanFacts, CycleTimeFacts
<1>2. LoopedTime(i, m) = t + m * d /\ LoopedTime(i, n) = t + n * d BY DEF LoopedTime
<1> HIDE DEF t, d
<1>3. m * d \in Int /\ n * d \in Int BY <1>1
<1>4. m < n => m * d < n * d BY <1>1
<1>5. n < m => n * d < m * d BY <1>1
<1> QED BY <1>1, <1>2, <1>3, <1>4, <1>5

\* The key of a candidate in the heap: ten integers, the priority first.
LEMMA HeapKeyFacts ==
    ASSUME NEW c, IsCandidate(c)
    PROVE  /\ HeapKey(c) \in [1..10 -> Int]
           /\ HeapKey(c)[1] = c.priority /\ HeapKey(c)[2] = c.time /\ HeapKey(c)[3] = c.round
           /\ HeapKey(c)[4] = c.request /\ HeapKey(c)[5] = c.group_order
           /\ HeapKey(c)[9] = c.index /\ HeapKey(c)[10] = c.generation
<1>1. /\ c.index \in Indices /\ c.cycle \in Nat /\ c.time = LoopedTime(c.index, c.cycle)
      /\ c.priority \in Nat /\ c.round \in Nat /\ c.request \in Nat
      /\ c.group_order \in {1, 2} /\ c.generation \in Nat
  BY DEF IsCandidate
<1>2. c.time \in Int BY <1>1, LoopedTimeFacts
<1>3. /\ Plan[c.index].subgroup \in Int /\ Plan[c.index].object \in Int /\ c.index \in Int
      /\ GroupRank(c.index, c.group_order) \in Int
  <2> DEFINE i == c.index
             p == Plan[i]
  <2>1. i \in Indices BY <1>1
  <2>2. p.group \in Nat /\ p.subgroup \in Nat /\ p.object \in Nat /\ i \in Nat BY <2>1, PlanFacts
  <2>3. GroupRank(i, c.group_order) = (IF c.group_order = 2 THEN -p.group ELSE p.group) BY DEF GroupRank
  <2> HIDE DEF p, i
  <2>4. GroupRank(i, c.group_order) \in Int BY <2>2, <2>3
  <2>5. p.subgroup \in Int /\ p.object \in Int /\ i \in Int BY <2>2
  <2> QED BY <2>4, <2>5 DEF p, i
<1>4. c.priority \in Int /\ c.round \in Int /\ c.request \in Int /\ c.group_order \in Int
      /\ c.generation \in Int
  BY <1>1
<1> QED BY <1>2, <1>3, <1>4 DEF HeapKey

\* Different candidates have different keys, so the heap has one top.
LEMMA HeapKeyTells ==
    ASSUME NEW c, IsCandidate(c), NEW d, IsCandidate(d), HeapKey(c) = HeapKey(d)
    PROVE  c = d
<1>1. /\ c.priority = d.priority /\ c.time = d.time /\ c.round = d.round
      /\ c.request = d.request /\ c.group_order = d.group_order
      /\ c.index = d.index /\ c.generation = d.generation
  BY HeapKeyFacts
<1>2. c.cycle = d.cycle
  <2>1. /\ c.index \in Indices /\ c.cycle \in Nat /\ d.cycle \in Nat
        /\ LoopedTime(c.index, c.cycle) = LoopedTime(c.index, d.cycle)
    BY <1>1 DEF IsCandidate
  <2> QED BY <2>1, LoopedTimeFacts
<1> QED BY <1>1, <1>2 DEF IsCandidate

\* The heap's top is one of its candidates, of the most urgent priority.
LEMMA TopFacts ==
    ASSUME HeapShape, CandidatesKnown, eligible # EmptyBag
    PROVE  Top \in DOMAIN eligible /\ \A d \in DOMAIN eligible : Top.priority <= d.priority
<1> DEFINE S == DOMAIN eligible
           K == [c \in S |-> HeapKey(c)]
<1>1. IsFiniteSet(S) /\ \A c \in S : IsCandidate(c) BY DEF CandidatesKnown, Known
<1>2. S # {}
  <2> SUFFICES ASSUME S = {} PROVE FALSE OBVIOUS
  <2>1. eligible = [e \in S |-> eligible[e]] BY DEF HeapShape, IsABag
  <2>2. EmptyBag = [e \in {} |-> 1] BY DEF EmptyBag, SetToBag
  <2> QED BY <2>1, <2>2
<1>3. K \in [S -> [1..10 -> Int]] BY <1>1, HeapKeyFacts
<1>4. \A x, y \in S : K[x] = K[y] => x = y BY <1>1, HeapKeyTells
<1>5. \A x \in S : K[x] = HeapKey(x) OBVIOUS
<1>6. 10 \in Nat /\ 10 > 0 OBVIOUS
<1> HIDE DEF K
<1>7. \E m \in S : \A x \in S \ {m} : LexLess(K[m], K[x]) BY <1>1, <1>2, <1>3, <1>4, <1>6, LexLeast
<1>8. \E m \in S : \A x \in S \ {m} : LexLess(HeapKey(m), HeapKey(x)) BY <1>5, <1>7
<1>9. Top \in S /\ \A x \in S \ {Top} : LexLess(HeapKey(Top), HeapKey(x)) BY <1>8 DEF Top, BagToSet
<1>10. ASSUME NEW d \in S PROVE Top.priority <= d.priority
  <2>1. Top.priority \in Nat /\ d.priority \in Nat BY <1>1, <1>9 DEF IsCandidate
  <2>2. CASE d = Top BY <2>1, <2>2
  <2>3. CASE d # Top
    <3>1. LexLess(HeapKey(Top), HeapKey(d)) BY <1>9, <2>3
    <3>2. HeapKey(Top)[1] <= HeapKey(d)[1] BY <1>1, <1>6, <1>9, <3>1, HeapKeyFacts, LexStrict
    <3> QED BY <1>1, <1>9, <3>2, HeapKeyFacts
  <2> QED BY <2>2, <2>3
<1> QED BY <1>9, <1>10

\* A list has finitely many elements.
LEMMA ListFinite ==
    ASSUME NEW S, NEW s \in Seq(S)
    PROVE  IsFiniteSet(ToSet(s))
<1>1. Len(s) \in Nat /\ DOMAIN s = 1..Len(s) BY LenProperties
<1>2. IsFiniteSet(DOMAIN s) BY <1>1, FS_Interval
<1>3. s \in Surjection(DOMAIN s, ToSet(s))
  <2>1. s = [i \in DOMAIN s |-> s[i]] OBVIOUS
  <2> QED BY <2>1 DEF Surjection, ToSet
<1> QED BY <1>2, <1>3, FS_Surjection

\* A candidate for an object of a frontier is known.
LEMMA FrontKnown ==
    ASSUME NEW f, IsTable(f), NEW r \in DOMAIN f, r \in Nat, NEW e,
           NEW i \in f[r].scheduler_frontiers
    PROVE  Known(f, e, Candidate(r, f[r], i))
<1> DEFINE a == f[r]
           c == Candidate(r, a, i)
<1>1. IsRequest(a) /\ FrontOf(a) BY DEF IsTable
<1>2. i \in Indices BY <1>1, FrontFacts
<1>3. /\ c = [request |-> c.request, generation |-> c.generation, cycle |-> c.cycle,
              index |-> c.index, priority |-> c.priority, time |-> c.time,
              round |-> c.round, group_order |-> c.group_order]
      /\ c.request = r /\ c.generation = a.generation /\ c.cycle = a.cycle /\ c.index = i
      /\ c.priority = a.priority /\ c.round = a.round /\ c.group_order = a.group_order
      /\ c.time = LoopedTime(i, a.cycle)
  BY DEF Candidate
<1> HIDE DEF c
<1>4. IsCandidate(c) BY <1>1, <1>2, <1>3 DEF IsCandidate, IsRequest
<1>5. c.generation <= f[c.request].generation BY <1>1, <1>3 DEF IsRequest
<1>6. Known(f, e, c) BY <1>3, <1>4, <1>5 DEF Known
<1> QED BY <1>6 DEF c

\* The candidate that is enqueued is a known one.
LEMMA HeadKnown ==
    ASSUME NEW f, IsTable(f), NEW r \in DOMAIN f, r \in Nat, NEW e, Enqueues(f[r])
    PROVE  Known(f, e, Candidate(r, f[r], HeadOf(f[r])))
<1>1. HeadOf(f[r]) \in f[r].scheduler_frontiers BY HeadInside DEF IsTable, Enqueues
<1> QED BY <1>1, FrontKnown

\* The requests of g are those of f, later, or new ones.
Follows(f, e, g) ==
    \A q \in DOMAIN g :
        \/ /\ q \in DOMAIN f
           /\ \/ g[q].generation >= f[q].generation /\ g[q].priority = f[q].priority
              \/ g[q].generation > f[q].generation
        \/ q \notin DOMAIN f \cup e

\* A known candidate stays known when requests only move on.
LEMMA KnownLater ==
    ASSUME NEW f, IsTable(f), NEW g, IsTable(g), NEW e, NEW d, Follows(f, e, g),
           DOMAIN f \cup e \subseteq DOMAIN g \cup d, NEW c, Known(f, e, c)
    PROVE  Known(g, d, c)
<1>1. IsCandidate(c) /\ c.generation \in Nat /\ c.request \in DOMAIN g \cup d BY DEF Known, IsCandidate
<1>2. ASSUME c.request \in DOMAIN g
      PROVE  /\ c.generation <= g[c.request].generation
             /\ c.generation = g[c.request].generation => c.priority = g[c.request].priority
  <2> DEFINE q == c.request
  <2>1. q \in DOMAIN f \cup e BY DEF Known
  <2>2. /\ q \in DOMAIN f
        /\ \/ g[q].generation >= f[q].generation /\ g[q].priority = f[q].priority
           \/ g[q].generation > f[q].generation
    BY <1>2, <2>1 DEF Follows
  <2>3. c.generation <= f[q].generation BY <2>2 DEF Known
  <2>4. c.generation = f[q].generation => c.priority = f[q].priority BY <2>2 DEF Known
  <2>5. f[q].generation \in Nat /\ g[q].generation \in Nat BY <1>2, <2>2 DEF IsTable, IsRequest
  <2> HIDE DEF q
  <2>6. c.generation <= g[q].generation BY <1>1, <2>2, <2>3, <2>5
  <2>7. c.generation = g[q].generation => c.priority = g[q].priority BY <1>1, <2>2, <2>3, <2>4, <2>5
  <2> QED BY <2>6, <2>7 DEF q
<1> QED BY <1>1, <1>2 DEF Known

\* c is for an object of a frontier of f.
OfFrontier(f, c) ==
    \E r \in DOMAIN f : \E i \in f[r].scheduler_frontiers : c = Candidate(r, f[r], i)

\* CandidatesKnown, for a step that enqueues frontiers only.
LEMMA KnownStep ==
    ASSUME SchedulerInv, SchedulerInv', CandidatesKnown,
           Follows(active, DOMAIN ended, active'),
           DOMAIN active \cup DOMAIN ended \subseteq DOMAIN active' \cup DOMAIN ended',
           IsFiniteSet(DOMAIN eligible'),
           \A c \in DOMAIN eligible' \cup ToSet(blocked') :
             c \in DOMAIN eligible \cup ToSet(blocked) \/ OfFrontier(active', c)
    PROVE  CandidatesKnown'
<1>1. IsTable(active) /\ IsTable(active') /\ DOMAIN active' \subseteq Nat
  BY SchedulerAssumption DEF SchedulerInv, RequestsSound, IsTable
<1>2. \A c \in DOMAIN eligible \cup ToSet(blocked) : Known(active, DOMAIN ended, c) BY DEF CandidatesKnown
<1>3. ASSUME NEW c \in DOMAIN eligible' \cup ToSet(blocked')
      PROVE  Known(active', DOMAIN ended', c)
  <2>1. CASE c \in DOMAIN eligible \cup ToSet(blocked) BY <1>1, <1>2, <2>1, KnownLater
  <2>2. CASE OfFrontier(active', c)
    <3>1. PICK r \in DOMAIN active' : \E i \in active'[r].scheduler_frontiers :
             c = Candidate(r, active'[r], i)
      BY <2>2 DEF OfFrontier
    <3>2. PICK i \in active'[r].scheduler_frontiers : c = Candidate(r, active'[r], i) BY <3>1
    <3> QED BY <1>1, <3>2, FrontKnown
  <2> QED BY <1>3, <2>1, <2>2
<1> QED BY <1>3 DEF CandidatesKnown, Known

\* The candidate that is enqueued is for a frontier of its request.
LEMMA HeadOfFrontier ==
    ASSUME NEW f, IsTable(f), NEW r \in DOMAIN f, Enqueues(f[r])
    PROVE  OfFrontier(f, Candidate(r, f[r], HeadOf(f[r])))
<1>1. HeadOf(f[r]) \in f[r].scheduler_frontiers BY HeadInside DEF IsTable, Enqueues
<1> QED BY <1>1 DEF OfFrontier

\* What enqueueing one request may add to the heap.
LEMMA PushedGrows ==
    ASSUME NEW h, IsABag(h), IsFiniteSet(DOMAIN h), NEW f, IsTable(f), NEW r \in DOMAIN f
    PROVE  /\ IsFiniteSet(DOMAIN Pushed(h, r, f[r]))
           /\ \A c \in DOMAIN Pushed(h, r, f[r]) : c \in DOMAIN h \/ OfFrontier(f, c)
<1> DEFINE new == IF Enqueues(f[r]) THEN {Candidate(r, f[r], HeadOf(f[r]))} ELSE {}
<1>1. DOMAIN Pushed(h, r, f[r]) = DOMAIN h \cup new BY PushFacts
<1>2. IsFiniteSet(new) BY FS_EmptySet, FS_Singleton
<1>3. \A c \in new : OfFrontier(f, c) BY HeadOfFrontier
<1> HIDE DEF new
<1> QED BY <1>1, <1>2, <1>3, FS_Union

\* What a resume changes of each request.
LEMMA ResumedChanges ==
    ASSUME NEW f, IsTable(f), NEW q \in DOMAIN f
    PROVE  LET b == Resumed(f)[q]
           IN  /\ b.priority = f[q].priority /\ b.generation >= f[q].generation
               /\ f[q].generation \in Nat /\ b.generation \in Nat
               /\ (b.admitted = {} \/ (b.cycle = f[q].cycle /\ b.admitted = f[q].admitted))
<1> DEFINE b == Resumed(f)[q]
           d == Advanced(f[q], f)
<1>0. IsFiniteSet(DOMAIN f) /\ \A r \in DOMAIN f : IsRequest(f[r]) /\ FrontOf(f[r]) BY DEF IsTable
<1>1. b = f[q] \/ b = d BY DEF Resumed
<1>2. f[q].generation \in Nat BY <1>0 DEF IsRequest
<1>3. /\ d.priority = f[q].priority
      /\ (d.generation = f[q].generation \/ d.generation = f[q].generation + 1)
      /\ (d.admitted = {} \/ (d.cycle = f[q].cycle /\ d.admitted = f[q].admitted))
  BY <1>0, AdvancedFacts
<1> HIDE DEF b, d
<1>4. b.generation \in Nat /\ b.generation >= f[q].generation BY <1>1, <1>2, <1>3
<1> QED BY <1>1, <1>2, <1>3, <1>4 DEF b

\* What waking the leaders may add to the heap.
LEMMA ResumedGrows ==
    ASSUME NEW h, IsABag(h), IsFiniteSet(DOMAIN h), NEW f, IsTable(f), IsTable(Resumed(f)),
           DOMAIN Resumed(f) = DOMAIN f
    PROVE  /\ IsFiniteSet(DOMAIN PushedResumed(h, f))
           /\ \A c \in DOMAIN PushedResumed(h, f) : c \in DOMAIN h \/ OfFrontier(Resumed(f), c)
<1> DEFINE g == Resumed(f)
           n == [q \in Woken(f) |-> Candidate(q, g[q], HeadOf(g[q]))]
           S == {Candidate(q, g[q], HeadOf(g[q])) : q \in Woken(f)}
<1>1. DOMAIN PushedResumed(h, f) = DOMAIN h \cup S BY PushResumedFacts
<1>2. IsFiniteSet(Woken(f))
  <2>1. Woken(f) \subseteq DOMAIN f BY DEF Woken
  <2> QED BY <2>1, FS_Subset DEF IsTable
<1>3. n \in Surjection(Woken(f), S) BY DEF Surjection
<1>4. \A c \in S : OfFrontier(g, c)
  <2> SUFFICES ASSUME NEW q \in Woken(f) PROVE OfFrontier(g, Candidate(q, g[q], HeadOf(g[q]))) OBVIOUS
  <2>1. q \in DOMAIN g /\ Enqueues(g[q]) BY DEF Woken
  <2> QED BY <2>1, HeadOfFrontier
<1> HIDE DEF n, S
<1>5. IsFiniteSet(S) BY <1>2, <1>3, FS_Surjection
<1> QED BY <1>1, <1>4, <1>5, FS_Union

\* An empty list of blocked candidates is in order.
LEMMA NoneBlocked ==
    ASSUME blocked' = <<>>
    PROVE  BlockedInOrder' /\ ToSet(blocked') = {}
<1>1. DOMAIN blocked' = {} /\ ToSet(blocked') = {} BY DEF ToSet
<1> QED BY <1>1 DEF BlockedInOrder, ToSet

\* Nothing is enqueued, blocked or admitted at the start.
LEMMA OrderStarts ==
    ASSUME SchedulerInit
    PROVE  OrderInv
<1>1. DOMAIN active = {} /\ DOMAIN eligible = {} /\ blocked = <<>>
  <2>1. DOMAIN eligible = {} BY SetBag DEF SchedulerInit, EmptyBag
  <2> QED BY <2>1 DEF SchedulerInit
<1>2. ToSet(blocked) = {} /\ DOMAIN blocked = {} BY <1>1 DEF ToSet
<1>3. CandidatesKnown BY <1>1, <1>2, FS_EmptySet DEF CandidatesKnown
<1>4. BlockedInOrder BY <1>2 DEF BlockedInOrder
<1>5. AdmittedSent BY <1>1 DEF AdmittedSent
<1> QED BY <1>3, <1>4, <1>5, SchedulerStarts DEF OrderInv

\* A subscription between passes adds its own candidate only.
LEMMA SubscribeOrders ==
    ASSUME OrderInv, SchedulerInv', NEW r \in Requests, NEW p \in Priorities, NEW filter \in Filters,
           Subscribe(r, p, filter)
    PROVE  CandidatesKnown' /\ BlockedInOrder' /\ AdmittedSent'
<1> DEFINE a == Fresh(r, p, filter)
           b == Rebuilt(a)
           c == [a EXCEPT !.completed = TRUE]
           With(d) == [q \in DOMAIN active \cup {r} |-> IF q = r THEN d ELSE active[q]]
<1>0. /\ pc = "control" /\ r \notin DOMAIN active \cup DOMAIN ended
      /\ blocked' = blocked /\ sent' = sent /\ oldest \in Nat
  BY DEF Subscribe, OrderInv, SchedulerInv, OriginsKept
<1>1. blocked' = <<>> /\ IsABag(eligible) /\ IsFiniteSet(DOMAIN eligible)
  BY <1>0, NothingBlocked DEF OrderInv, SchedulerInv, HeapShape, CandidatesKnown
<1>2. IsRequest(a) /\ a.admitted = {} /\ c.admitted = {} BY <1>0, FreshFacts
<1>3. b.admitted = {} BY <1>2, RebuiltFacts
<1>4. IsTable(active') /\ IsTable(active) BY TableDef DEF SchedulerInv, RequestsSound, IsTable, OrderInv
<1>5. \/ /\ active' = With(b) /\ eligible' = Pushed(eligible, r, b) /\ UNCHANGED ended
      \/ active' = With(c) /\ UNCHANGED <<eligible, ended>>
      \/ /\ ended' = [q \in DOMAIN ended \cup {r} |-> IF q = r THEN "done" ELSE ended[q]]
         /\ UNCHANGED <<active, eligible>>
  BY DEF Subscribe
<1> HIDE DEF a, b, c
<1>6. DOMAIN active \cup DOMAIN ended \subseteq DOMAIN active' \cup DOMAIN ended' BY <1>5
<1>7. \A q \in DOMAIN active' : q # r => q \in DOMAIN active /\ active'[q] = active[q] BY <1>0, <1>5
<1>8. \A q \in DOMAIN active : active[q].generation \in Nat BY <1>4 DEF IsTable, IsRequest
<1>9. Follows(active, DOMAIN ended, active') BY <1>0, <1>7, <1>8 DEF Follows
<1>10. /\ IsFiniteSet(DOMAIN eligible')
       /\ \A k \in DOMAIN eligible' : k \in DOMAIN eligible \/ OfFrontier(active', k)
  <2>1. CASE active' = With(b) /\ eligible' = Pushed(eligible, r, b)
    <3>1. r \in DOMAIN active' /\ active'[r] = b BY <2>1
    <3> QED BY <1>1, <1>4, <2>1, <3>1, PushedGrows
  <2>2. CASE UNCHANGED eligible BY <1>1, <2>2
  <2> QED BY <1>5, <2>1, <2>2
<1>11. BlockedInOrder' /\ ToSet(blocked') = {} BY <1>1, NoneBlocked
<1>12. CandidatesKnown' BY <1>6, <1>9, <1>10, <1>11, KnownStep DEF OrderInv
<1>13. AdmittedSent'
  <2> SUFFICES ASSUME NEW q \in DOMAIN active', NEW i \in active'[q].admitted
               PROVE  <<q, active'[q].cycle, i>> \in sent
    BY <1>0 DEF AdmittedSent
  <2>1. CASE q = r
    <3>1. active'[q] = b \/ active'[q] = c BY <1>0, <1>5, <2>1
    <3> QED BY <1>2, <1>3, <3>1
  <2>2. CASE q # r BY <1>7, <2>2 DEF OrderInv, AdmittedSent
  <2> QED BY <2>1, <2>2
<1> QED BY <1>11, <1>12, <1>13

\* An update raises the generation, so that older candidates stay behind it.
LEMMA UpdateOrders ==
    ASSUME OrderInv, SchedulerInv', NEW r \in Requests, NEW p \in Priorities,
           NEW paused \in BOOLEAN, NEW filter \in Filters, UpdateRequest(r, p, paused, filter)
    PROVE  CandidatesKnown' /\ BlockedInOrder' /\ AdmittedSent'
<1> DEFINE b == Updated(r, p, paused, filter)
<1>1. /\ pc = "control" /\ r \in DOMAIN active /\ active' = [active EXCEPT ![r] = b]
      /\ eligible' = Pushed(eligible, r, active'[r]) /\ blocked' = blocked
      /\ sent' = sent /\ ended' = ended
  BY DEF UpdateRequest
<1>2. /\ b.generation > active[r].generation
      /\ (b.admitted = {} \/ (b.cycle = active[r].cycle /\ b.admitted = active[r].admitted))
  BY <1>1, UpdatedFacts DEF OrderInv
<1> HIDE DEF b
<1>3. /\ DOMAIN active' = DOMAIN active /\ active'[r] = b
      /\ \A q \in DOMAIN active : q # r => active'[q] = active[q]
  BY <1>1
<1>4. blocked' = <<>> /\ IsABag(eligible) /\ IsFiniteSet(DOMAIN eligible)
  BY <1>1, NothingBlocked DEF OrderInv, SchedulerInv, HeapShape, CandidatesKnown
<1>5. IsTable(active') /\ IsTable(active) BY TableDef DEF SchedulerInv, RequestsSound, IsTable, OrderInv
<1>6. \A q \in DOMAIN active : active[q].generation \in Nat BY <1>5 DEF IsTable, IsRequest
<1>7. Follows(active, DOMAIN ended, active') BY <1>2, <1>3, <1>6 DEF Follows
<1>8. /\ IsFiniteSet(DOMAIN eligible')
      /\ \A k \in DOMAIN eligible' : k \in DOMAIN eligible \/ OfFrontier(active', k)
  BY <1>1, <1>3, <1>4, <1>5, PushedGrows
<1>9. BlockedInOrder' /\ ToSet(blocked') = {} BY <1>4, NoneBlocked
<1>10. CandidatesKnown' BY <1>1, <1>3, <1>7, <1>8, <1>9, KnownStep DEF OrderInv
<1>11. AdmittedSent'
  <2> SUFFICES ASSUME NEW q \in DOMAIN active', NEW i \in active'[q].admitted
               PROVE  <<q, active'[q].cycle, i>> \in sent
    BY <1>1 DEF AdmittedSent
  <2>1. active'[q].cycle = active[q].cycle /\ active'[q].admitted = active[q].admitted BY <1>2, <1>3
  <2> QED BY <1>3, <2>1 DEF OrderInv, AdmittedSent
<1> QED BY <1>9, <1>10, <1>11

\* Ending a request leaves its candidates stale, never ahead.
LEMMA EndOrders ==
    ASSUME OrderInv, SchedulerInv', NEW r, NEW why, End(r, why),
           NEW h, IsABag(h), DOMAIN h \subseteq DOMAIN eligible \cup ToSet(blocked),
           eligible' = PushedResumed(h, WithoutRequest(active, r)), blocked' = <<>>, sent' = sent
    PROVE  CandidatesKnown' /\ BlockedInOrder' /\ AdmittedSent'
<1> DEFINE f == WithoutRequest(active, r)
<1>0. active' = Resumed(f) /\ DOMAIN ended' = DOMAIN ended \cup {r} BY DEF End, Erased
<1>1. IsTable(active) /\ IsTable(active') BY TableDef DEF SchedulerInv, RequestsSound, IsTable, OrderInv
<1>2. /\ DOMAIN f = DOMAIN active \ {r} /\ IsTable(f)
      /\ \A q \in DOMAIN f : f[q] = active[q]
  BY <1>1, RemovedTable
<1> HIDE DEF f
<1>3. DOMAIN active' = DOMAIN f BY <1>0 DEF Resumed
<1>4. \A q \in DOMAIN f :
        /\ active'[q].priority = f[q].priority /\ active'[q].generation >= f[q].generation
        /\ (active'[q].admitted = {}
              \/ (active'[q].cycle = f[q].cycle /\ active'[q].admitted = f[q].admitted))
  BY <1>0, <1>2, ResumedChanges
<1>5. Follows(active, DOMAIN ended, active') BY <1>2, <1>3, <1>4 DEF Follows
<1>6. DOMAIN active \cup DOMAIN ended \subseteq DOMAIN active' \cup DOMAIN ended' BY <1>0, <1>2, <1>3
<1>7. IsFiniteSet(DOMAIN h)
  <2>1. IsFiniteSet(DOMAIN eligible) /\ IsFiniteSet(ToSet(blocked))
    BY ListFinite DEF OrderInv, SchedulerInv, HeapShape, CandidatesKnown
  <2>2. IsFiniteSet(DOMAIN eligible \cup ToSet(blocked)) BY <2>1, FS_Union
  <2> QED BY <2>2, FS_Subset
<1>8. /\ IsFiniteSet(DOMAIN eligible')
      /\ \A c \in DOMAIN eligible' : c \in DOMAIN h \/ OfFrontier(active', c)
  BY <1>0, <1>1, <1>2, <1>3, <1>7, ResumedGrows DEF f
<1>9. BlockedInOrder' /\ ToSet(blocked') = {} BY NoneBlocked
<1>10. CandidatesKnown' BY <1>5, <1>6, <1>8, <1>9, KnownStep DEF OrderInv
<1>11. AdmittedSent'
  <2> SUFFICES ASSUME NEW q \in DOMAIN f, NEW i \in active'[q].admitted
               PROVE  <<q, active'[q].cycle, i>> \in sent
    BY <1>3 DEF AdmittedSent
  <2>1. active'[q].cycle = active[q].cycle /\ active'[q].admitted = active[q].admitted BY <1>2, <1>4
  <2> QED BY <1>2, <2>1 DEF OrderInv, AdmittedSent
<1> QED BY <1>9, <1>10, <1>11

\* The same for UNSUBSCRIBE and for a finished request.
LEMMA UnsubscribeOrders ==
    ASSUME OrderInv, SchedulerInv', NEW r, UnsubscribeRequest(r) \/ Finalize(r)
    PROVE  CandidatesKnown' /\ BlockedInOrder' /\ AdmittedSent'
<1>1. /\ pc = "control" /\ \E why : End(r, why)
      /\ eligible' = PushedResumed(eligible, WithoutRequest(active, r))
      /\ blocked' = blocked /\ sent' = sent
  BY DEF UnsubscribeRequest, Finalize
<1>2. blocked' = <<>> /\ IsABag(eligible) BY <1>1, NothingBlocked DEF OrderInv, SchedulerInv, HeapShape
<1> QED BY <1>1, <1>2, EndOrders

\* The same for the request a stall ends.
LEMMA StallCancelOrders ==
    ASSUME OrderInv, SchedulerInv', CancelStalled
    PROVE  CandidatesKnown' /\ BlockedInOrder' /\ AdmittedSent'
<1> DEFINE r == Victim
<1>1. /\ End(r, "too_far_behind") /\ blocked' = <<>> /\ sent' = sent
      /\ eligible' = PushedResumed(PutBack(eligible), WithoutRequest(active, r))
  BY DEF CancelStalled
<1> HIDE DEF r
<1>2. IsABag(PutBack(eligible)) /\ DOMAIN PutBack(eligible) = DOMAIN eligible \cup ToSet(blocked)
  BY PutBackFacts DEF OrderInv, SchedulerInv, HeapShape
<1> QED BY <1>1, <1>2, EndOrders

\* The requests stay as they are, and the heap takes in nothing else.
LEMMA QuietKnown ==
    ASSUME SchedulerInv, CandidatesKnown, AdmittedSent, UNCHANGED <<active, ended, sent>>,
           IsFiniteSet(DOMAIN eligible'),
           \A c \in DOMAIN eligible' \cup ToSet(blocked') :
             c \in DOMAIN eligible \cup ToSet(blocked) \/ Known(active, DOMAIN ended, c)
    PROVE  CandidatesKnown' /\ AdmittedSent'
<1>1. CandidatesKnown' BY DEF CandidatesKnown, Known
<1>2. AdmittedSent' BY DEF AdmittedSent
<1> QED BY <1>1, <1>2

\* A pass starts with nothing blocked.
LEMMA PassBeginOrders ==
    ASSUME OrderInv, PassBegin
    PROVE  CandidatesKnown' /\ BlockedInOrder' /\ AdmittedSent'
<1>1. blocked' = <<>> /\ UNCHANGED <<active, ended, sent, eligible>> BY DEF PassBegin, requestVars
<1>2. BlockedInOrder' /\ ToSet(blocked') = {} BY <1>1, NoneBlocked
<1>3. IsFiniteSet(DOMAIN eligible') /\ DOMAIN eligible' = DOMAIN eligible
  BY <1>1 DEF OrderInv, CandidatesKnown
<1> QED BY <1>1, <1>2, <1>3, QuietKnown DEF OrderInv

\* A pass that sent nothing moves its list back into the heap.
LEMMA PassStallsOrders ==
    ASSUME OrderInv, PassStalls
    PROVE  CandidatesKnown' /\ BlockedInOrder' /\ AdmittedSent'
<1>1. blocked' = <<>> /\ UNCHANGED <<active, ended, sent>> /\ eligible' = PutBack(eligible)
  BY DEF PassStalls, requestVars
<1>2. DOMAIN eligible' = DOMAIN eligible \cup ToSet(blocked)
  BY <1>1, PutBackFacts DEF OrderInv, SchedulerInv, HeapShape
<1>3. IsFiniteSet(DOMAIN eligible')
  <2>1. IsFiniteSet(DOMAIN eligible) /\ IsFiniteSet(ToSet(blocked))
    BY ListFinite DEF OrderInv, SchedulerInv, HeapShape, CandidatesKnown
  <2> QED BY <1>2, <2>1, FS_Union
<1>4. BlockedInOrder' /\ ToSet(blocked') = {} BY <1>1, NoneBlocked
<1> QED BY <1>1, <1>2, <1>3, <1>4, QuietKnown DEF OrderInv

\* Throwing away a candidate leaves the rest in order.
LEMMA PopStaleOrders ==
    ASSUME OrderInv, PopStale
    PROVE  CandidatesKnown' /\ BlockedInOrder' /\ AdmittedSent'
<1>1. UNCHANGED <<active, ended, sent, blocked>> /\ eligible' = Popped BY DEF PopStale, requestVars
<1>2. DOMAIN eligible' \subseteq DOMAIN eligible BY <1>1, PoppedFacts DEF OrderInv, SchedulerInv, HeapShape
<1>3. IsFiniteSet(DOMAIN eligible') BY <1>2, FS_Subset DEF OrderInv, CandidatesKnown
<1>4. BlockedInOrder' BY <1>1, <1>2 DEF OrderInv, BlockedInOrder, Live
<1>5. ToSet(blocked') = ToSet(blocked) BY <1>1
<1> QED BY <1>1, <1>2, <1>3, <1>4, <1>5, QuietKnown DEF OrderInv

\* A live candidate carries the priority its request has now.
LEMMA LivePriority ==
    ASSUME NEW c, Live(c), Known(active, DOMAIN ended, c)
    PROVE  c.request \in DOMAIN active /\ c.priority = active[c.request].priority
  BY DEF Live, Known

\* Live, with the table of requests as a parameter.
LiveIn(table, c) ==
    /\ c.request \in DOMAIN table
    /\ ~table[c.request].completed /\ ~table[c.request].paused
    /\ c.generation = table[c.request].generation /\ c.cycle = table[c.request].cycle
    /\ c.round = table[c.request].round /\ c.index \in table[c.request].scheduler_frontiers

\* Live is LiveIn of the table of requests.
LEMMA LiveHere == \A c : Live(c) <=> LiveIn(active, c)
  BY DEF Live, LiveIn

\* A refused candidate is the top, so the list stays in priority order.
LEMMA PopBlockedOrders ==
    ASSUME OrderInv, PopBlocked
    PROVE  CandidatesKnown' /\ BlockedInOrder' /\ AdmittedSent'
<1> DEFINE c == Top
           a == active[c.request]
           m == NextAfter(a, c.index)
           n == Candidate(c.request, a, m)
           new == IF After(a, c.index) = {} THEN {} ELSE {n}
<1>1. /\ Live(c) /\ eligible # EmptyBag /\ blocked' = Append(blocked, c)
      /\ eligible' = (IF After(a, c.index) = {} THEN Popped ELSE Popped (+) SetToBag({n}))
      /\ UNCHANGED <<active, ended, sent>>
  BY DEF PopBlocked, requestVars
<1>2. IsABag(Popped) /\ DOMAIN Popped \subseteq DOMAIN eligible
  BY PoppedFacts DEF OrderInv, SchedulerInv, HeapShape
<1>3. c \in DOMAIN eligible /\ \A d \in DOMAIN eligible : c.priority <= d.priority
  BY <1>1, TopFacts DEF OrderInv, SchedulerInv
<1>4. \A k \in DOMAIN eligible \cup ToSet(blocked) : Known(active, DOMAIN ended, k) /\ k.priority \in Nat
  BY DEF OrderInv, CandidatesKnown, Known, IsCandidate
<1>5. c.request \in DOMAIN active /\ c.priority = a.priority BY <1>1, <1>3, <1>4, LivePriority
<1>6. IsTable(active) /\ DOMAIN active \subseteq Nat
  BY SchedulerAssumption, TableDef DEF OrderInv, SchedulerInv, RequestsSound
<1>7. IsRequest(a) /\ FrontOf(a) BY <1>5, <1>6 DEF IsTable
<1>8. ASSUME After(a, c.index) # {} PROVE Known(active, DOMAIN ended, n) /\ n.priority = c.priority
  <2>1. m \in a.scheduler_frontiers BY <1>7, <1>8, NextInside
  <2>2. n.priority = a.priority BY DEF Candidate
  <2> HIDE DEF m
  <2>3. Known(active, DOMAIN ended, n) BY <1>5, <1>6, <2>1, FrontKnown
  <2> QED BY <1>5, <2>2, <2>3
<1> HIDE DEF c, a, n, m
<1>9. DOMAIN eligible' = DOMAIN Popped \cup new
  <2>1. IsABag(SetToBag({n})) /\ DOMAIN SetToBag({n}) = {n} BY SetBag
  <2>2. DOMAIN (Popped (+) SetToBag({n})) = DOMAIN Popped \cup {n} BY <1>2, <2>1, BagAdd
  <2> QED BY <1>1, <2>2
<1>10. \A k \in new : Known(active, DOMAIN ended, k) /\ k.priority = c.priority BY <1>8
<1>11. IsFiniteSet(DOMAIN eligible')
  <2>1. IsFiniteSet(new) BY FS_EmptySet, FS_Singleton
  <2>2. IsFiniteSet(DOMAIN Popped) BY <1>2, FS_Subset DEF OrderInv, CandidatesKnown
  <2> QED BY <1>9, <2>1, <2>2, FS_Union
<1> HIDE DEF new
<1>12. /\ ToSet(blocked') = ToSet(blocked) \cup {c}
       /\ Len(blocked) \in Nat /\ DOMAIN blocked = 1..Len(blocked)
       /\ DOMAIN blocked' = 1..(Len(blocked) + 1)
       /\ \A i \in 1..Len(blocked) : blocked'[i] = blocked[i]
       /\ blocked'[Len(blocked) + 1] = c
  BY <1>1, ListGrows DEF OrderInv, SchedulerInv, HeapShape
<1>13. \A i \in DOMAIN blocked' : i \in DOMAIN blocked \/ i = Len(blocked) + 1 BY <1>12
<1>14. CandidatesKnown' /\ AdmittedSent'
  BY <1>1, <1>2, <1>3, <1>9, <1>10, <1>11, <1>12, QuietKnown DEF OrderInv
<1>15. BlockedInOrder'
  <2>1. \A i \in DOMAIN blocked' : Live(blocked'[i]) BY <1>1, <1>12, <1>13 DEF OrderInv, BlockedInOrder
  <2>2. (\A k \in DOMAIN blocked : Live(blocked[k]))'
    <3>1. \A i \in DOMAIN blocked' : LiveIn(active, blocked'[i]) BY <2>1, LiveHere
    <3>2. \A i \in DOMAIN blocked' : LiveIn(active', blocked'[i]) BY <1>1, <3>1
    <3> QED BY <3>2, LiveHere DEF Live, LiveIn
  <2>3. \A i \in DOMAIN blocked : blocked[i] \in ToSet(blocked) BY DEF ToSet
  <2>4. ASSUME NEW j \in DOMAIN blocked', NEW k \in DOMAIN blocked', j < k
        PROVE  blocked'[j].priority <= blocked'[k].priority
    <3>1. j \in DOMAIN blocked BY <1>12, <1>13, <2>4
    <3>2. CASE k \in DOMAIN blocked BY <1>12, <2>4, <3>1, <3>2 DEF OrderInv, BlockedInOrder
    <3>3. CASE k = Len(blocked) + 1 BY <1>3, <1>12, <2>3, <3>1, <3>3 DEF OrderInv, BlockedInOrder
    <3> QED BY <1>13, <3>2, <3>3
  <2>5. ASSUME NEW x \in ToSet(blocked'), NEW d \in DOMAIN eligible'
        PROVE  x.priority <= d.priority
    <3>1. c.priority \in Nat BY <1>3, <1>4
    <3>2. x.priority \in Nat /\ x.priority <= c.priority
      BY <1>3, <1>4, <1>12, <3>1 DEF OrderInv, BlockedInOrder
    <3>3. CASE d \in new BY <1>10, <3>2, <3>3
    <3>4. CASE d \in DOMAIN Popped
      <4>1. d \in DOMAIN eligible BY <1>2, <3>4
      <4>2. c.priority <= d.priority /\ d.priority \in Nat BY <1>3, <1>4, <4>1
      <4> QED BY <3>1, <3>2, <4>2
    <3> QED BY <1>9, <3>3, <3>4
  <2> QED BY <2>2, <2>4, <2>5 DEF BlockedInOrder
<1> QED BY <1>14, <1>15

\* What is admitted has been sent.
LEMMA PopServeOrders ==
    ASSUME OrderInv, SchedulerInv', PopServe
    PROVE  CandidatesKnown' /\ BlockedInOrder' /\ AdmittedSent'
<1> DEFINE c == Top
           r == c.request
           i == c.index
           g == ServedTable(r, Served(active[r], i))
           h == Pushed(PushedResumed(Popped, g), r, active'[r])
<1>1. /\ r \in DOMAIN active /\ i \in active[r].scheduler_frontiers
      /\ c.cycle = active[r].cycle /\ ~active[r].completed
      /\ active' = Resumed(g) /\ eligible' = PutBack(h) /\ blocked' = <<>>
      /\ sent' = sent \cup {<<r, c.cycle, i>>} /\ ended' = ended
  BY ServeStep
<1>2. IsABag(Popped) /\ DOMAIN Popped \subseteq DOMAIN eligible
  BY PoppedFacts DEF OrderInv, SchedulerInv, HeapShape
<1>3. /\ DOMAIN g = DOMAIN active /\ IsTable(g)
      /\ \A q \in DOMAIN active : q # r => g[q] = active[q]
      /\ \A q \in DOMAIN g : g[q].parked => ~g[q].completed
      /\ g[r].priority = active[r].priority /\ g[r].generation >= active[r].generation
      /\ (g[r].admitted = {}
            \/ (g[r].cycle = active[r].cycle /\ g[r].admitted = active[r].admitted \cup {i}))
  BY <1>1, ServedTableFacts DEF OrderInv, SchedulerInv
<1> HIDE DEF r, i, g, c
<1>4. IsTable(active) /\ IsTable(active') /\ DOMAIN active' = DOMAIN g
  BY <1>1, <1>3, TableDef, ResumedFacts DEF SchedulerInv, RequestsSound, OrderInv
<1>5. \A q \in DOMAIN g :
        /\ active'[q].priority = g[q].priority /\ active'[q].generation >= g[q].generation
        /\ g[q].generation \in Nat /\ active'[q].generation \in Nat
        /\ (active'[q].admitted = {}
              \/ (active'[q].cycle = g[q].cycle /\ active'[q].admitted = g[q].admitted))
  BY <1>1, <1>3, ResumedChanges
<1>6. Follows(active, DOMAIN ended, active')
  <2> SUFFICES ASSUME NEW q \in DOMAIN active
               PROVE  /\ active'[q].generation >= active[q].generation
                      /\ active'[q].priority = active[q].priority
    BY <1>3, <1>4 DEF Follows
  <2>1. g[q].generation >= active[q].generation /\ g[q].priority = active[q].priority
        /\ active[q].generation \in Nat
    <3>1. active[q].generation \in Nat BY <1>4 DEF IsTable, IsRequest
    <3> QED BY <1>3, <3>1
  <2> QED BY <1>3, <1>5, <2>1
<1>7. IsFiniteSet(DOMAIN Popped) /\ IsFiniteSet(ToSet(blocked))
  BY <1>2, FS_Subset, ListFinite DEF OrderInv, CandidatesKnown, SchedulerInv, HeapShape
<1>8. /\ IsABag(PushedResumed(Popped, g)) /\ IsFiniteSet(DOMAIN PushedResumed(Popped, g))
      /\ \A k \in DOMAIN PushedResumed(Popped, g) : k \in DOMAIN Popped \/ OfFrontier(active', k)
  <2>1. IsTable(Resumed(g)) /\ DOMAIN Resumed(g) = DOMAIN g BY <1>1, <1>4
  <2> QED BY <1>1, <1>2, <1>3, <1>7, <2>1, PushResumedFacts, ResumedGrows
<1>9. /\ IsABag(h) /\ IsFiniteSet(DOMAIN h)
      /\ \A k \in DOMAIN h : k \in DOMAIN PushedResumed(Popped, g) \/ OfFrontier(active', k)
  <2>1. r \in DOMAIN active' BY <1>1, <1>3, <1>4
  <2> QED BY <1>4, <1>8, <2>1, PushFacts, PushedGrows
<1>10. DOMAIN eligible' = DOMAIN h \cup ToSet(blocked)
  BY <1>1, <1>9, PutBackFacts DEF OrderInv, SchedulerInv
<1>11. IsFiniteSet(DOMAIN eligible') BY <1>7, <1>9, <1>10, FS_Union
<1>12. BlockedInOrder' /\ ToSet(blocked') = {} BY <1>1, NoneBlocked
<1>13. CandidatesKnown'
  <2>1. DOMAIN active \cup DOMAIN ended \subseteq DOMAIN active' \cup DOMAIN ended' BY <1>1, <1>3, <1>4
  <2>2. \A k \in DOMAIN eligible' \cup ToSet(blocked') :
          k \in DOMAIN eligible \cup ToSet(blocked) \/ OfFrontier(active', k)
    BY <1>2, <1>8, <1>9, <1>10, <1>12
  <2> QED BY <1>6, <1>11, <2>1, <2>2, KnownStep DEF OrderInv
<1>14. AdmittedSent'
  <2> SUFFICES ASSUME NEW q \in DOMAIN g, NEW j \in active'[q].admitted
               PROVE  <<q, active'[q].cycle, j>> \in sent'
    BY <1>4 DEF AdmittedSent
  <2>1. active'[q].cycle = g[q].cycle /\ j \in g[q].admitted BY <1>5
  <2>2. CASE q = r
    <3>1. g[q].cycle = active[q].cycle /\ (j \in active[q].admitted \/ j = i) BY <1>3, <2>1, <2>2
    <3>2. CASE j = i BY <1>1, <2>1, <2>2, <3>1, <3>2
    <3>3. CASE j \in active[q].admitted
      <4>1. <<q, active[q].cycle, j>> \in sent BY <1>1, <2>2, <3>3 DEF OrderInv, AdmittedSent
      <4> QED BY <1>1, <2>1, <3>1, <4>1
    <3> QED BY <3>1, <3>2, <3>3
  <2>3. CASE q # r
    <3>1. g[q] = active[q] /\ q \in DOMAIN active BY <1>3, <2>3
    <3>2. <<q, active[q].cycle, j>> \in sent BY <2>1, <3>1 DEF OrderInv, AdmittedSent
    <3> QED BY <1>1, <2>1, <3>1, <3>2
  <2> QED BY <2>2, <2>3
<1> QED BY <1>12, <1>13, <1>14

\* Every step of the loop keeps the order.
LEMMA OrderStep ==
    ASSUME OrderInv, [SchedulerNext]_schedulerVars
    PROVE  OrderInv'
<1>0. SchedulerInv' BY SchedulerStep DEF OrderInv
<1>1. CASE UNCHANGED schedulerVars
  <2>1. UNCHANGED <<active, ended, sent, eligible, blocked>>
    BY <1>1 DEF schedulerVars, requestVars, originVars, passVars
  <2>2. CandidatesKnown' /\ AdmittedSent' /\ BlockedInOrder'
    BY <2>1 DEF OrderInv, CandidatesKnown, Known, AdmittedSent, BlockedInOrder, Live
  <2> QED BY <1>0, <2>2 DEF OrderInv
<1>2. CASE \E r \in Requests : \E p \in Priorities, filter \in Filters : Subscribe(r, p, filter)
  BY <1>0, <1>2, SubscribeOrders DEF OrderInv
<1>3. CASE \E r \in Requests : \E p \in Priorities, filter \in Filters :
             \E paused \in BOOLEAN : UpdateRequest(r, p, paused, filter)
  BY <1>0, <1>3, UpdateOrders DEF OrderInv
<1>4. CASE \E r \in Requests : UnsubscribeRequest(r) \/ Finalize(r) BY <1>0, <1>4, UnsubscribeOrders DEF OrderInv
<1>5. CASE PassBegin BY <1>0, <1>5, PassBeginOrders DEF OrderInv
<1>6. CASE PopStale BY <1>0, <1>6, PopStaleOrders DEF OrderInv
<1>7. CASE PopBlocked BY <1>0, <1>7, PopBlockedOrders DEF OrderInv
<1>8. CASE PopServe BY <1>0, <1>8, PopServeOrders DEF OrderInv
<1>9. CASE PassStalls BY <1>0, <1>9, PassStallsOrders DEF OrderInv
<1>10. CASE CancelStalled BY <1>0, <1>10, StallCancelOrders DEF OrderInv
<1> QED BY <1>1, <1>2, <1>3, <1>4, <1>5, <1>6, <1>7, <1>8, <1>9, <1>10 DEF SchedulerNext

\* Only PopServe sends; only StallCancel ends a request for falling behind.
LEMMA OnlyServeSends ==
    ASSUME [SchedulerNext]_schedulerVars, ~PopServe
    PROVE  sent' = sent
  BY DEF SchedulerNext, Subscribe, UpdateRequest, UnsubscribeRequest, Finalize, PassBegin, PopStale, PopBlocked,
     PassStalls, CancelStalled, requestVars, schedulerVars

\* No other step ends a request as too far behind.
LEMMA OnlyStallEnds ==
    ASSUME [SchedulerNext]_schedulerVars, ~CancelStalled,
           NEW r \in DOMAIN ended' \ DOMAIN ended
    PROVE  ended'[r] # "too_far_behind"
<1>1. \/ ended' = ended
      \/ \E q \in Requests, why \in {"done", "unsubscribed"} :
           ended' = [s \in DOMAIN ended \cup {q} |-> IF s = q THEN why ELSE ended[s]]
  BY DEF SchedulerNext, Subscribe, UpdateRequest, UnsubscribeRequest, Finalize, End, PassBegin, PopStale,
     PopBlocked, PopServe, PassStalls, requestVars, schedulerVars
<1>2. CASE ended' = ended BY <1>2
<1>3. ASSUME NEW q \in Requests, NEW why \in {"done", "unsubscribed"},
             ended' = [s \in DOMAIN ended \cup {q} |-> IF s = q THEN why ELSE ended[s]]
      PROVE  ended'[r] # "too_far_behind"
  <2>1. DOMAIN ended' = DOMAIN ended \cup {q} BY <1>3
  <2>2. r = q BY <2>1
  <2>3. ended'[r] = why BY <1>3, <2>2
  <2> QED BY <2>3
<1> QED BY <1>1, <1>2, <1>3

\* An object is sent after the earlier ones of its subgroup in the same cycle.
LEMMA SentInOrderStep ==
    ASSUME OrderInv, [SchedulerNext]_schedulerVars, NEW t \in sent' \ sent,
           NEW i \in Selected(active[t[1]]), SubgroupOf(i) = SubgroupOf(t[3]),
           Plan[i].object < Plan[t[3]].object
    PROVE  <<t[1], t[2], i>> \in sent
<1>1. PopServe BY OnlyServeSends
<1> DEFINE r == Top.request
           m == Top.index
           a == active[r]
           k == SubgroupOf(m)
<1>2. /\ r \in DOMAIN active /\ m \in a.scheduler_frontiers
      /\ Top.cycle = a.cycle /\ sent' = sent \cup {<<r, Top.cycle, m>>}
  BY <1>1, ServeStep
<1>3. t[1] = r /\ t[2] = a.cycle /\ t[3] = m BY <1>2
<1>4. FrontOf(a) BY <1>2 DEF OrderInv, SchedulerInv, RequestsSound
<1>5. Tracked(a, m) /\ m \in Indices BY <1>2, <1>4, FrontFacts
<1> HIDE DEF r, m, a
<1>6. /\ k \in DOMAIN a.subgroup_frontiers /\ a.subgroup_frontiers[k] # <<>>
      /\ Head(a.subgroup_frontiers[k]) = m
  BY <1>5 DEF Tracked
<1>7. Lists(a.subgroup_frontiers[k], Left(a, k)) /\ Left(a, k) \in SUBSET Indices
  BY <1>4, <1>6, SelectedInside DEF FrontOf
<1>8. \A j \in Left(a, k) : Plan[m].object <= Plan[j].object BY <1>6, <1>7, ListsFacts
<1>9. i \in Selected(a) /\ SubgroupOf(i) = k /\ Plan[i].object < Plan[m].object BY <1>3 DEF a
<1>10. i \in a.admitted
  <2> SUFFICES ASSUME i \notin a.admitted PROVE FALSE OBVIOUS
  <2>1. i \in Left(a, k) BY <1>9 DEF Left
  <2>2. Plan[m].object <= Plan[i].object BY <1>8, <2>1
  <2>3. Plan[m].object \in Nat /\ Plan[i].object \in Nat BY <1>5, <1>7, <2>1, PlanFacts
  <2> QED BY <1>9, <2>2, <2>3
<1>11. <<r, a.cycle, i>> \in sent BY <1>2, <1>10 DEF OrderInv, AdmittedSent, a
<1> QED BY <1>3, <1>11

\* The request a stall ends has the lowest priority of those that were refused.
LEMMA StallEndsLowestStep ==
    ASSUME OrderInv, [SchedulerNext]_schedulerVars, NEW r \in DOMAIN ended' \ DOMAIN ended,
           ended'[r] = "too_far_behind", NEW c \in ToSet(blocked)
    PROVE  c.priority <= active[r].priority
<1>1. CancelStalled BY OnlyStallEnds
<1>2. /\ blocked # <<>>
      /\ ended' = [q \in DOMAIN ended \cup {Victim} |->
                     IF q = Victim THEN "too_far_behind" ELSE ended[q]]
  BY <1>1 DEF CancelStalled, End
<1>3. r = Victim BY <1>2
<1> DEFINE n == Len(blocked)
           v == blocked[n]
<1>4. n \in Nat \ {0} /\ DOMAIN blocked = 1..n /\ n \in DOMAIN blocked /\ Last(blocked) = v
  BY <1>2, VictimFacts DEF OrderInv, SchedulerInv
<1>5. r = v.request BY <1>3, <1>4 DEF Victim
<1> HIDE DEF n, v
<1>6. v \in ToSet(blocked) BY <1>4 DEF v, ToSet
<1>7. Live(v) BY <1>4 DEF OrderInv, BlockedInOrder, v
<1>8. v.priority = active[r].priority /\ v.priority \in Nat
  BY <1>5, <1>6, <1>7, LivePriority DEF OrderInv, CandidatesKnown, Known, IsCandidate
<1>9. PICK j \in DOMAIN blocked : blocked[j] = c BY DEF ToSet
<1>10. CASE j = n BY <1>8, <1>9, <1>10 DEF v
<1>11. CASE j # n
  <2>1. j < n BY <1>4, <1>9, <1>11
  <2>2. blocked[j].priority <= blocked[n].priority BY <1>4, <1>9, <2>1 DEF OrderInv, BlockedInOrder
  <2> QED BY <1>8, <1>9, <2>2 DEF v
<1> QED BY <1>10, <1>11

\* What a subscriber sees, for every plan: the objects of a subgroup in order, and
\* an end for falling behind only at the lowest priority that could not send.
THEOREM ServiceFollowsPriority == SchedulerSpec => ServedByPriority
<1>1. SchedulerInit => OrderInv BY OrderStarts
<1>2. OrderInv /\ [SchedulerNext]_schedulerVars => OrderInv' BY OrderStep
<1>3. OrderInv /\ [SchedulerNext]_schedulerVars =>
        [\A t \in sent' \ sent :
           \A i \in Selected(active[t[1]]) :
             SubgroupOf(i) = SubgroupOf(t[3]) /\ Plan[i].object < Plan[t[3]].object
               => <<t[1], t[2], i>> \in sent]_schedulerVars
  BY SentInOrderStep
<1>4. OrderInv /\ [SchedulerNext]_schedulerVars =>
        [\A r \in DOMAIN ended' \ DOMAIN ended :
           ended'[r] = "too_far_behind" =>
             \A c \in ToSet(blocked) : c.priority <= active[r].priority]_schedulerVars
  BY StallEndsLowestStep
<1>5. SchedulerSpec => SentInOrder BY <1>1, <1>2, <1>3, PTL DEF SchedulerSpec, SentInOrder
<1>6. SchedulerSpec => StallEndsLowest BY <1>1, <1>2, <1>4, PTL DEF SchedulerSpec, StallEndsLowest
<1> QED BY <1>5, <1>6, PTL DEF ServedByPriority

=============================================================================
