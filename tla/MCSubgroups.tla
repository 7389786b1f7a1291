---------------------------- MODULE MCSubgroups ----------------------------
(* The history of completed subgroups, two instances of the sender that
   keeps one, and the scheduler that feeds the senders: a behaviour runs
   the one part names, the others stay as they started.
   Tracker: groups 0..5 and three ranges, enough for a
   bridge, an extension on either side, the largest group, and a refusal.
   Renewal (the sender of the configuration): draft 18, updates pause and
   renew a subscription to two sparse groups, and the history has room for
   one.  Finish: an earlier draft, UNSUBSCRIBE and group changes finish
   the streams of a live source.
   Scheduler (PriorityScheduler): two groups of two objects and a track
   with one; two requests, two priorities, one update. *)
EXTENDS CompletionTracker, SubgroupSender, PriorityScheduler

CONSTANT c1

VARIABLE part

Finish == INSTANCE SubgroupSender WITH
    Keys <- {<<0, 0>>, <<1, 0>>}, Draft18 <- FALSE, LiveSource <- TRUE, MaxUpdates <- 0

TwoSubgroups == {0, 1}
SparseGroups == {<<0, 0>>, <<2, 0>>}

O(t, g, s, o, u) == [track |-> t, group |-> g, subgroup |-> s, object |-> o, time |-> u]

MCPlan == <<O("video", 0, 0, 0, 0), O("video", 0, 0, 1, 1), O("video", 1, 0, 0, 2),
            O("audio", 0, 0, 0, 0)>>
MCOrderOf == [r \in Requests |-> IF r = 1 THEN 2 ELSE 1]
MCFilters == {<<0, 1>>, <<1, 1>>}
MCTrackOf == [r \in Requests |-> IF r = 1 THEN "video" ELSE "audio"]

mcVars == <<part, vars, subgroupVars, schedulerVars>>

\* Bound: the subscription to be renewed starts at the first object.
AtFirst == [c \in Senders |-> <<0, 0>>]

\* Bounds: the last update leaves the start where it is, and the transport
\* ends two streams, or one twice.
RenewalBound ==
    /\ updates'[c1] = MaxUpdates => updates[c1] = MaxUpdates \/ start' = start
    /\ Cardinality(expired_ever') + Cardinality(stopped_ever') <= 2

\* Bound: a request for video begins with the whole track, one for audio with
\* the lower priority.
SubscribeBound ==
    \A r \in DOMAIN active' \ DOMAIN active :
        IF active'[r].track = "video" THEN active'[r].filter = <<0, 1>>
                                      ELSE active'[r].priority = 2

\* A part that does not run starts in one state.
MCInit ==
    /\ Init /\ SchedulerInit
    /\ \/ part \in {"tracker", "renewal", "scheduler"} /\ SenderInit /\ start = AtFirst
       \/ part = "finish" /\ Finish!SenderInit
    /\ part # "scheduler" => draft = 16 /\ ~looping

\* The session may leave its scheduler alone for ever; the others go on.
MCNext ==
    /\ UNCHANGED part
    /\ \/ part = "tracker" /\ Next /\ UNCHANGED <<subgroupVars, schedulerVars>>
       \/ part = "renewal" /\ SenderNext /\ RenewalBound /\ UNCHANGED <<vars, schedulerVars>>
       \/ part = "finish" /\ Finish!SenderNext /\ UNCHANGED <<vars, schedulerVars>>
       \/ part = "scheduler" /\ SchedulerNext /\ SubscribeBound /\ UNCHANGED <<vars, subgroupVars>>
       \/ part = "scheduler" /\ UNCHANGED mcVars

MCSpec == MCInit /\ [][MCNext]_mcVars

\* What the sender promises of its streams, in the instance that runs (the rest
\* of what it promises depends on no constant that differs between the two).
MCStreamsSound == IF part = "finish" THEN Finish!StreamsSound ELSE StreamsSound
=============================================================================
