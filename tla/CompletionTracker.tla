------------------------- MODULE CompletionTracker -------------------------
(* BoundedSubgroupCompletionTracker of src/src/transport/moqt_session.cpp:
   the exact set of (subgroup, group) pairs a sender has finished, kept as
   contiguous group ranges.  ranges_by_subgroup_ is a map from subgroup to
   a map from a range's first group to its last; the std::map iterators
   that upper_bound yields are the ranges IsPrevious and IsNext describe.
   A group ID is a 64-bit integer: MaxGroup stands for its maximum, beyond
   which the code never computes group_id + 1. *)
EXTENDS Integers, FiniteSets

CONSTANTS MaxGroup, Subgroups, MaxRanges

ASSUME MaxGroupAssumption == MaxGroup \in Nat
ASSUME MaxRangesAssumption == MaxRanges \in Nat

VARIABLES rangesBySubgroup,   \* subgroup -> (first group -> last group)
          rangeCount,         \* range_count_
          exhausted           \* exhausted_

vars == <<rangesBySubgroup, rangeCount, exhausted>>

Groups == 0 .. MaxGroup

(* The contents of one inner std::map: a function on the first groups. *)
RangeMaps == UNION {[D -> Groups] : D \in SUBSET Groups}

EmptyRanges == [g \in {} |-> 0]

(* try_emplace creates a subgroup's map on demand; a subgroup that has no
   entry has no range. *)
RangesOf(s) == IF s \in DOMAIN rangesBySubgroup THEN rangesBySubgroup[s]
                                                ELSE EmptyRanges

-----------------------------------------------------------------------------
(* The range before upper_bound(g), and the range at upper_bound(g). *)
IsPrevious(r, g, a) ==
    a \in DOMAIN r /\ a <= g /\ \A b \in DOMAIN r : b <= g => b <= a

IsNext(r, g, a) ==
    a \in DOMAIN r /\ a > g /\ \A b \in DOMAIN r : b > g => a <= b

(* contains: the range before upper_bound reaches the group. *)
ContainsGroup(s, g) ==
    \E a \in DOMAIN RangesOf(s) :
        IsPrevious(RangesOf(s), g, a) /\ g <= RangesOf(s)[a]

(* The tests against the maximum keep both additions inside 64 bits. *)
JoinsNext(r, g) ==
    \E b \in DOMAIN r : IsNext(r, g, b) /\ g # MaxGroup /\ g + 1 = b

JoinsPrevious(r, g) ==
    \E a \in DOMAIN r : IsPrevious(r, g, a) /\ r[a] # MaxGroup /\ r[a] + 1 = g

(* The range that a merge extends upward to last; the one it drops. *)
WithPrevious(r, g, last) ==
    [a \in DOMAIN r |-> IF IsPrevious(r, g, a) THEN last ELSE r[a]]

Without(r, b) == [a \in DOMAIN r \ {b} |-> r[a]]

WithRange(r, first, last) ==
    [a \in DOMAIN r \cup {first} |-> IF a = first THEN last ELSE r[a]]

Store(s, r) == [t \in DOMAIN rangesBySubgroup \cup {s} |->
                   IF t = s THEN r ELSE rangesBySubgroup[t]]

-----------------------------------------------------------------------------
Init == /\ rangesBySubgroup = [s \in {} |-> EmptyRanges]
        /\ rangeCount = 0
        /\ exhausted = FALSE

(* insert returns early: the group is already in a range. *)
InsertKnown(s, g) ==
    /\ ContainsGroup(s, g)
    /\ UNCHANGED vars

\* Mutant: a bridged gap leaves range_count_ as it was.
InsertBridgeMutant(s, g) ==
    LET r == RangesOf(s) IN
    /\ ~ContainsGroup(s, g)
    /\ JoinsPrevious(r, g) /\ JoinsNext(r, g)
    /\ rangesBySubgroup' = Store(s, Without(WithPrevious(r, g, r[g + 1]), g + 1))
    /\ UNCHANGED <<rangeCount, exhausted>>

(* insert closes the gap between two ranges. *)
InsertBridge(s, g) ==
    LET r == RangesOf(s) IN
    /\ ~ContainsGroup(s, g)
    /\ JoinsPrevious(r, g) /\ JoinsNext(r, g)
    /\ rangesBySubgroup' = Store(s, Without(WithPrevious(r, g, r[g + 1]), g + 1))
    /\ rangeCount' = rangeCount - 1
    /\ UNCHANGED exhausted

(* insert extends the previous range upward. *)
InsertAbove(s, g) ==
    LET r == RangesOf(s) IN
    /\ ~ContainsGroup(s, g)
    /\ JoinsPrevious(r, g) /\ ~JoinsNext(r, g)
    /\ rangesBySubgroup' = Store(s, WithPrevious(r, g, g))
    /\ UNCHANGED <<rangeCount, exhausted>>

\* Mutant: the moved range forgets the last group of the range it replaces.
InsertBelowMutant(s, g) ==
    LET r == RangesOf(s) IN
    /\ ~ContainsGroup(s, g)
    /\ ~JoinsPrevious(r, g) /\ JoinsNext(r, g)
    /\ rangesBySubgroup' = Store(s, WithRange(Without(r, g + 1), g, g))
    /\ UNCHANGED <<rangeCount, exhausted>>

(* insert moves the next range's first group down. *)
InsertBelow(s, g) ==
    LET r == RangesOf(s) IN
    /\ ~ContainsGroup(s, g)
    /\ ~JoinsPrevious(r, g) /\ JoinsNext(r, g)
    /\ rangesBySubgroup' = Store(s, WithRange(Without(r, g + 1), g, r[g + 1]))
    /\ UNCHANGED <<rangeCount, exhausted>>

IsolatedFrom(s, g) ==
    ~ContainsGroup(s, g) /\ ~JoinsPrevious(RangesOf(s), g) /\ ~JoinsNext(RangesOf(s), g)

(* insert adds a range of one group. *)
InsertNew(s, g) ==
    /\ IsolatedFrom(s, g)
    /\ rangeCount < MaxRanges
    /\ rangesBySubgroup' = Store(s, WithRange(RangesOf(s), g, g))
    /\ rangeCount' = rangeCount + 1
    /\ UNCHANGED exhausted

(* insert refuses: every range is in use.  The map that try_emplace has
   just made for a new subgroup is erased again. *)
InsertRefused(s, g) ==
    /\ IsolatedFrom(s, g)
    /\ rangeCount >= MaxRanges
    /\ exhausted' = TRUE
    /\ UNCHANGED <<rangesBySubgroup, rangeCount>>

Clear ==
    /\ rangesBySubgroup' = [s \in {} |-> EmptyRanges]
    /\ rangeCount' = 0
    /\ exhausted' = FALSE

Insert(s, g) ==
    \/ InsertKnown(s, g) \/ InsertBridge(s, g) \/ InsertAbove(s, g)
    \/ InsertBelow(s, g) \/ InsertNew(s, g) \/ InsertRefused(s, g)

Next == (\E s \in Subgroups, g \in Groups : Insert(s, g)) \/ Clear

Spec == Init /\ [][Next]_vars
-----------------------------------------------------------------------------
(* The variables hold values of the code's types. *)
TypeOK ==
    /\ DOMAIN rangesBySubgroup \subseteq Subgroups
    /\ \A s \in DOMAIN rangesBySubgroup : rangesBySubgroup[s] \in RangeMaps
    /\ rangeCount \in Nat
    /\ exhausted \in BOOLEAN

(* insert keeps the ranges of a subgroup apart: each is non-empty, and
   between two of them lies at least one group that is not complete, so
   that upper_bound finds the only range that can hold a group. *)
RangesApart ==
    \A s \in DOMAIN rangesBySubgroup :
        LET r == rangesBySubgroup[s] IN
        \A a \in DOMAIN r :
            a <= r[a] /\ \A b \in DOMAIN r : a < b => r[a] + 1 < b

(* range_count_, which bounds the memory of the tracker and decides when
   insert refuses, is the number of ranges over all subgroups. *)
Ranges == {p \in Subgroups \X Groups : p[2] \in DOMAIN RangesOf(p[1])}

CountExact == rangeCount = Cardinality(Ranges)

(* What the lookup and the limit rely on, after any order of insertions:
   ranges that never overlap or touch, and the exact number of them. *)
TrackerSound == RangesApart /\ CountExact

(* storage_entry_count stays within twice the limit: no subgroup keeps an
   empty map, not even one whose first insertion was refused. *)
StorageBounded ==
    /\ rangeCount <= MaxRanges
    /\ \A s \in DOMAIN rangesBySubgroup : DOMAIN rangesBySubgroup[s] # {}

(* The pairs that contains reports. *)
Members == {p \in Subgroups \X Groups : ContainsGroup(p[1], p[2])}

Abstract == INSTANCE CompletedSubgroups WITH completed <- Members

(* Every insertion changes what contains reports by exactly the group
   inserted, and is refused only when the limit is really reached: the
   tracker implements an exact set (CompletedSubgroups). *)
ImplementsExactSet == Abstract!Spec
=============================================================================
