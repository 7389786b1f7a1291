----------------------------- MODULE MCForward -----------------------------
(* Three publishers that share no state: a behaviour runs the one part
   names, the others stay as they started.
   batch (ForwardedTracks): a catalog and a video track of two objects,
   for the drafts and modes of MCScenarios.
   srt (LiveSrtPublish): the threads of a live SRT publish around a queue
   of two fragments that three pushes exceed.
   catalog (CatalogPublisher): catalogs that differ in tracks, attributes,
   root lists and protection; five calls and groups 0..4. *)
EXTENDS ForwardedTracks, MCCatalogPublisher

VARIABLES part,
          entries, videoTracks, awaiting, boundary, queuedBytes, queuedDuration,
          eof, exceeded, nextSeq, gopStart, lastPopped,
          worker, joiner, loop, isEof, status, closed, controlFin, outcome,
          stopRequested, closeCalled, transportClosed

Srt == INSTANCE LiveSrtPublish WITH
  pc <- loop, Video <- {"v"}, Audio <- {}, Inits <- {}, Times <- {0, 1}, Durations <- {1},
  Sizes <- {1}, MaxBytes <- 2, MaxDuration <- 2, WordMax <- 9, MaxPushes <- 3

srtVars == <<entries, videoTracks, awaiting, boundary, queuedBytes, queuedDuration,
             eof, exceeded, nextSeq, gopStart, lastPopped,
             worker, joiner, loop, isEof, status, closed, controlFin, outcome,
             stopRequested, closeCalled, transportClosed>>
mcVars == <<part, vars, srtVars, catVars>>

MCTracks == <<"catalog", "video">>
MCPlan == <<"catalog", "video", "video">>
MCScenarios ==
  {<<14, TRUE, FALSE>>, <<16, TRUE, FALSE>>, <<17, TRUE, FALSE>>, <<18, TRUE, FALSE>>,
   <<18, TRUE, TRUE>>, <<16, FALSE, FALSE>>, <<18, FALSE, TRUE>>}

Batch(A) == part = "batch" /\ A /\ UNCHANGED <<part, srtVars, catVars>>
LiveSrt(A) == part = "srt" /\ A /\ UNCHANGED <<part, vars, catVars>>
Catalog(A) == part = "catalog" /\ A /\ UNCHANGED <<part, vars, srtVars>>

MCInit == part \in {"batch", "srt", "catalog"} /\ Init /\ Srt!Init /\ CatalogInit

MCNext == Batch(Next) \/ LiveSrt(Srt!Next) \/ Catalog(CatalogNext)

\* The fairness of ForwardedTracks and of LiveSrtPublish.
MCFairness ==
  /\ WF_mcVars(Batch(Session)) /\ SF_mcVars(Batch(ReplayOver))
  /\ WF_mcVars(LiveSrt(Srt!WorkerCheck)) /\ WF_mcVars(LiveSrt(Srt!WorkerStoresStop))
  /\ WF_mcVars(LiveSrt(Srt!WorkerFed)) /\ WF_mcVars(LiveSrt(Srt!JoinerMarksEof))
  /\ WF_mcVars(LiveSrt(Srt!CloseTransport)) /\ WF_mcVars(LiveSrt(Srt!LoopStep))

MCSpec == MCInit /\ [][MCNext]_mcVars /\ MCFairness

\* A live SRT publish that ends as a success ended for the reason it reports
\* and has taken every admitted fragment from the queue (LiveSrtPublish).
SrtEndsSound == Srt!SrtEndsSound

\* A batch publish that does not loop comes to an end, whatever the peer
\* answers, updates, stops or leaves unanswered; close() and an exceeded queue
\* limit end a live SRT publish, even when the peer blocks it for ever
\* (ForwardedTracks, LiveSrtPublish).
PublishesEnd == <>(part # "batch" \/ looping \/ ~Running) /\ Srt!PublishEnds
=============================================================================
