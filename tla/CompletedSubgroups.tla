------------------------ MODULE CompletedSubgroups ------------------------
(* What a sender may rely on when it records the subgroups it has finished
   (BoundedSubgroupCompletionTracker, src/src/transport/moqt_session.cpp):
   an exact set, whatever the order in which subgroups complete.  An
   insertion is refused only when the set really consists of MaxRanges
   separate runs of consecutive groups and the new group would be one run
   more; a refusal changes nothing but the exhausted flag. *)
EXTENDS Integers, FiniteSets

CONSTANTS MaxGroup,     \* the largest group ID (2^64 - 1 in the code)
          Subgroups,    \* subgroup IDs
          MaxRanges     \* kMaximumSparseRanges

VARIABLES completed,    \* the <<subgroup, group>> pairs recorded as complete
          exhausted     \* some insertion was refused since the last clear

Groups == 0 .. MaxGroup

(* The first groups of the maximal runs of consecutive groups of a set. *)
RunStarts(S) == {p \in S : <<p[1], p[2] - 1>> \notin S}

Init == completed = {} /\ exhausted = FALSE

Insert(s, g) ==
    /\ completed' = completed \cup {<<s, g>>}
    /\ UNCHANGED exhausted

Refuse(s, g) ==
    /\ <<s, g>> \notin completed
    /\ <<s, g - 1>> \notin completed /\ <<s, g + 1>> \notin completed
    /\ Cardinality(RunStarts(completed)) >= MaxRanges
    /\ exhausted' = TRUE
    /\ UNCHANGED completed

Clear == completed' = {} /\ exhausted' = FALSE

Next == \/ Clear
        \/ \E s \in Subgroups, g \in Groups : Insert(s, g) \/ Refuse(s, g)

Spec == Init /\ [][Next]_<<completed, exhausted>>
=============================================================================
