-------------------------- MODULE MCLiveObjects --------------------------
EXTENDS LiveObjects
O(t, g, o) == [track |-> t, group |-> g, object |-> o, closing |-> FALSE]
End(g) == [track |-> "catalog", group |-> g, object |-> 0, closing |-> TRUE]
S(d, a, i, l, st, os) ==
  [draft |-> d, auto |-> a, indefinite |-> i, live |-> l, stops |-> st, objects |-> os]
Groups == <<O("catalog", 0, 0), O("video", 0, 0), O("catalog", 1, 0), End(2)>>
Deltas == <<O("catalog", 0, 0), O("catalog", 0, 1), O("video", 0, 0)>>
MCScenarios ==
  {S(14, FALSE, FALSE, FALSE, TRUE, Groups), S(16, TRUE, FALSE, TRUE, FALSE, Groups),
   S(18, FALSE, TRUE, TRUE, FALSE, Deltas), S(22, TRUE, FALSE, FALSE, FALSE, Groups),
   S(22, FALSE, FALSE, FALSE, TRUE, Deltas),
   S(18, FALSE, FALSE, FALSE, FALSE, <<O("video", 0, 0)>>), S(16, TRUE, FALSE, TRUE, FALSE, <<>>),
   S(18, TRUE, FALSE, FALSE, FALSE, <<O("catalog", 0, 0), End(1), O("video", 0, 0)>>)}
=============================================================================
