-------------------------- MODULE MCPeerRequests --------------------------
(* What the peer sends, at two levels that share no state here: a
   behaviour runs the one part names.
   requests (PeerRequests): its requests in serve_subscriptions.
   streams (PeerStreams): its streams, from the callbacks of either
   transport to the session; two bytes per stream, two streams or one of
   them and one of the session's. *)
EXTENDS PeerRequests, PeerStreams

VARIABLE part

MCObjects == [t \in {"catalog", "video"} |-> IF t = "catalog" THEN 1 ELSE 2]
MCNamespace == <<"a", "b">>
MCPrefixes == {<<"a">>, <<"a", "b">>, <<"x">>}
S(d, l, e, k) == [draft |-> d, looping |-> l, entered |-> e, kinds |-> k, max |-> 3]
MCScenarios ==
  {[S(14, FALSE, "await", {"subscribe", "update", "unsubscribe"}) EXCEPT !.max = 2],
   S(14, FALSE, "catalog", {"namespace", "status", "update", "fetch"}),
   S(16, FALSE, "catalog", {"subscribe", "update", "unsubscribe"}),
   S(16, FALSE, "catalog", {"namespace", "status"}), S(18, FALSE, "await", {"namespace", "status", "subscribe"}),
   S(18, FALSE, "await", {"subscribe", "fetch", "tracks"}),
   [S(18, FALSE, "downgraded", {"subscribe", "tracks"}) EXCEPT !.max = 2],
   S(22, FALSE, "catalog", {"subscribe", "update", "goaway"}),
   S(22, TRUE, "await", {"subscribe", "update"}), S(22, TRUE, "await", {"tracks"}),
   S(22, FALSE, "await", {"tracks", "update"}),
   S(23, FALSE, "await", {"namespace", "tracks", "update"}),
   [S(22, FALSE, "await", {"namespace", "update"}) EXCEPT !.max = 4]}

\* The peer's streams 3 and 7; own: a bidirectional stream 4 or unidirectional 2.
R(h, u, o, e) == [http3 |-> h, uni |-> u, own |-> o, events |-> e]
MCStreamScenarios ==
  {R(FALSE, {3, 7}, 2, {}), R(FALSE, {3}, 4, {"reset", "stop", "datagram"}),
   R(FALSE, {3}, 4, {"exit"}), R(TRUE, {3}, 2, {"reset", "stop", "datagram"}),
   R(TRUE, {3}, 4, {"connect"}), R(TRUE, {3}, 4, {"reset", "exit"})}
MCTypes == {[size |-> 1, known |-> FALSE], [size |-> 2, known |-> TRUE]}

mcVars == <<part, vars, peerVars>>

Requests(A) == part = "requests" /\ A /\ UNCHANGED <<part, peerVars>>
Receive(A) == part = "streams" /\ A /\ UNCHANGED <<part, vars>>

\* The part that does not run starts in one state.
MCInit ==
  /\ part \in {"requests", "streams"}
  /\ Init /\ PeerInit
  /\ part = "streams" => scenario = CHOOSE s \in Scenarios : TRUE
  /\ part = "requests" => /\ streams = R(FALSE, {3, 7}, 2, {})
                          /\ types = [s \in {3, 7} |-> [size |-> 2, known |-> TRUE]]

MCNext == Requests(Next) \/ Receive(PeerNext)

MCSpec == MCInit /\ [][MCNext]_mcVars
=============================================================================
