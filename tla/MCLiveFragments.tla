--------------------------- MODULE MCLiveFragments ---------------------------
(* A live publish of fragments, and the transport that carries one: a
   behaviour runs the one part names, the other stays as it started.
   fragments (LiveFragments): a scenario gives the source, the mode, the
   draft, the input, how often the catalog is republished, what the peer
   may ask for and how often, and how the publish may be ended from
   outside.
   media (MediaTransport): one media stream, its deadlines and the close. *)
EXTENDS LiveFragments, MediaTransport

CONSTANT s1

VARIABLE part

V(g, o) == [track |-> "video", group |-> g, object |-> o]
K == [track |-> "video", key |-> TRUE, bad |-> FALSE]
P == [track |-> "video", key |-> FALSE, bad |-> FALSE]
A == [track |-> "audio", key |-> FALSE, bad |-> FALSE]
Bad == [track |-> "video", key |-> FALSE, bad |-> TRUE]

S(source, a, d, l, in, rep, asks, most, ends) ==
  [source |-> source, auto |-> a, draft |-> d, loc |-> l, input |-> in, republish |-> rep,
   asks |-> asks, max |-> most, ends |-> ends]

SrtInput == <<V(0, 0), V(0, 1), V(1, 0)>>

MCScenarios ==
  {S("srt", FALSE, 18, TRUE, SrtInput, 0, {"subscribe", "update", "stop", "refuse"}, 3, {}),
   S("srt", FALSE, 18, FALSE, <<V(0, 0)>>, 0, {"subscribe", "tracks", "publish", "fin"}, 2, {"close"}),
   S("srt", TRUE, 21, FALSE, <<V(0, 0)>>, 2, {"subscribe", "update"}, 2, {"broadcast", "fault"}),
   S("srt", FALSE, 16, FALSE, <<V(0, 0)>>, 0, {"subscribe", "update"}, 2, {"fault"}),
   S("stdin", TRUE, 18, TRUE, <<K, P, P, K>>, 0, {"subscribe", "refuse"}, 1, {"close"}),
   S("stdin", TRUE, 16, FALSE, <<K, A, P, K>>, 0, {"subscribe", "publish", "reject"}, 1, {"close", "fault"}),
   S("stdin", TRUE, 18, FALSE, <<P, Bad>>, 2, {"subscribe", "tracks", "publish"}, 2, {"fault"}),
   S("stdin", FALSE, 18, FALSE, <<K, A, K>>, 0, {"subscribe", "stop"}, 2, {"timeout", "close"}),
   S("stdin", FALSE, 18, FALSE, <<K, A>>, 0, {"subscribe", "tracks"}, 2, {"timeout"}),
   S("stdin", FALSE, 21, FALSE, <<K, K, K>>, 0, {"subscribe", "update", "fin"}, 2, {"timeout", "broadcast"}),
   S("stdin", FALSE, 18, TRUE, <<K, P, P, Bad>>, 0, {"subscribe", "stop"}, 2, {}),
   S("stdin", TRUE, 18, FALSE, <<K>>, 0, {"subscribe"}, 1, {"broadcast"})}

mcVars == <<part, fragmentVars, vars>>

Publish(Act) == part = "fragments" /\ Act /\ UNCHANGED <<part, vars>>
Carry(Act) == part = "media" /\ Act /\ UNCHANGED <<part, fragmentVars>>

\* A part that does not run starts in one state.
MCInit ==
  /\ part \in {"fragments", "media"} /\ FragmentsInit /\ Init
  /\ part = "media" => scenario = CHOOSE x \in Scenarios : TRUE

\* The peer may stay silent for ever; only the transport has to go on to its end.
MCNext ==
  \/ Publish(FragmentsNext) \/ Carry(Next)
  \/ part = "fragments" /\ UNCHANGED mcVars

\* FragmentsFairness of the one part, the fairness of FairSpec of the other: a
\* condition that pairs an action of each is, in either part, that of its own.
MCFairness ==
  /\ WF_mcVars(Publish(InputThread) \/ Carry(PassStep))
  /\ WF_mcVars(Publish(PublishLoop) \/ Carry(Tick))
  /\ WF_mcVars(Carry(CloseJoined))
  /\ SF_mcVars(Publish(DeadlineExpires) \/ Carry(LoopEnds))
  /\ SF_mcVars(Carry(ConnectionClosed /\ (close_sent \/ Failed)))

MCSpec == MCInit /\ [][MCNext]_mcVars /\ MCFairness
=============================================================================
