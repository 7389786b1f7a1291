-------------------------- MODULE MCMediaTransport --------------------------
(* Two media streams and two request streams.  Bound: a behaviour writes
   media or reliable data, not both; they meet only at the close. *)
EXTENDS MediaTransport, TLC

CONSTANTS s1, s2, r1, r2

MCStreams == {s1, s2}
MCRequests == {r1, r2}
Symmetry == Permutations(MCStreams) \cup Permutations(MCRequests)

OneKind ==
    \/ issued = 0
    \/ \A s \in Streams : admitted[s] = 0 /\ s \notin ended

\* Only the session writes.
MCNext == (SessionStep /\ OneKind') \/ PassStep \/ PicoquicStep \/ Tick \/ Terminated
MCSpec == Init /\ [][MCNext]_vars
=============================================================================
