--------------------------- MODULE LiveSrtPublish ---------------------------
(* Live SRT publishing: the threads around one LiveMediaQueue.  An ingest
   worker (live_srt_ingest.cpp) receives and admits fragments, a joiner
   thread marks the end of the input once the worker has ended, the
   publishing loop (MoqtSession::publish_live for SRT, moqt_session.cpp)
   drains the queue, and another thread may call close().  stop_requested
   is one atomic flag for two messages: close() ran, or the queue has
   exceeded its limit; the loop tells them apart by asking the queue.

   What a fragment's serving does to streams is in SubgroupSender; here it
   is admitted, blocked, discarded or fails.  Control messages may fail or
   end the control stream. *)
EXTENDS Integers, Sequences

CONSTANTS Video, Audio, Inits, Times, Durations, Sizes, MaxBytes, MaxDuration,
          WordMax, MaxPushes

VARIABLES entries, videoTracks, awaiting, boundary, queuedBytes, queuedDuration,
          eof, exceeded, nextSeq, gopStart, lastPopped

Queue == INSTANCE LiveMediaQueue

VARIABLES worker,           \* the ingest worker's next step
          joiner,           \* the joiner thread: "joining" or "done"
          pc,               \* the publishing loop's next step
          isEof,            \* is_eof, read at the top of an iteration
          status,           \* the loop's status: "ok", "failed" or "resource"
          closed,           \* closed: the loop ended because close() ran
          controlFin,       \* control_fin
          outcome,          \* how publish_live returned
          stopRequested,    \* stop_requested_
          closeCalled,      \* history: close() was called
          transportClosed   \* close() has closed the transport

queueVars == <<entries, videoTracks, awaiting, boundary, queuedBytes,
               queuedDuration, eof, exceeded, nextSeq, gopStart, lastPopped>>
loopVars == <<pc, isEof, status, closed, controlFin, outcome>>
ingestVars == <<worker, joiner>>
closeVars == <<closeCalled, transportClosed>>
vars == <<queueVars, loopVars, ingestVars, closeVars, stopRequested>>

Init ==
    /\ Queue!QueueInit
    /\ worker = "check" /\ joiner = "joining"
    /\ pc = "top" /\ isEof = FALSE /\ status = "ok" /\ closed = FALSE
    /\ controlFin = FALSE /\ outcome = "running"
    /\ stopRequested = FALSE /\ closeCalled = FALSE /\ transportClosed = FALSE

-----------------------------------------------------------------------------
(* The ingest worker: the flag ends it between two receptions only. *)
WorkerCheck ==
    /\ worker = "check"
    /\ worker' = IF stopRequested THEN "ended" ELSE "feeding"
    /\ UNCHANGED <<queueVars, loopVars, closeVars, joiner, stopRequested>>

ConnectionLost ==
    /\ worker = "feeding"
    /\ worker' = "ended"
    /\ UNCHANGED <<queueVars, loopVars, closeVars, joiner, stopRequested>>

(* LiveSrtQueueAdapter::admit: the push, and after it the flag. *)
WorkerAdmit ==
    /\ worker = "feeding" /\ Queue!Pushes < MaxPushes
    /\ \E t \in Queue!Tracks : \E f \in Queue!Fragments(t) : Queue!Push(f)
    /\ worker' = IF exceeded' THEN "storing" ELSE "feeding"
    /\ UNCHANGED <<loopVars, closeVars, joiner, stopRequested>>

WorkerStoresStop ==
    /\ worker = "storing"
    /\ stopRequested' = TRUE
    /\ worker' = "feeding"
    /\ UNCHANGED <<queueVars, loopVars, closeVars, joiner>>

WorkerFed ==
    /\ worker = "feeding"
    /\ worker' = "check"
    /\ UNCHANGED <<queueVars, loopVars, closeVars, joiner, stopRequested>>

(* srt_join_thread marks the end of the input after join() has returned. *)
InputEnds == worker = "ended"

JoinerMarksEof ==
    /\ joiner = "joining" /\ InputEnds
    /\ Queue!MarkEof
    /\ joiner' = "done"
    /\ UNCHANGED <<loopVars, closeVars, worker, stopRequested>>

-----------------------------------------------------------------------------
(* close(), on another thread: first the flag, then the transport. *)
Close ==
    /\ ~closeCalled /\ pc # "returned"
    /\ closeCalled' = TRUE
    /\ stopRequested' = TRUE
    /\ UNCHANGED <<queueVars, loopVars, ingestVars, transportClosed>>

CloseTransport ==
    /\ closeCalled /\ ~transportClosed
    /\ transportClosed' = TRUE
    /\ UNCHANGED <<queueVars, loopVars, ingestVars, closeCalled, stopRequested>>

-----------------------------------------------------------------------------
LeaveLoop(how) == pc' = "exit" /\ status' = how

\* Mutant: the operands of the conjunction are read in the other order.
CloseTestMutant(operand) == IF operand = 1 THEN ~exceeded ELSE stopRequested

(* The two reads of the loop's test whether close() ran, in their order. *)
CloseTest(operand) == IF operand = 1 THEN stopRequested ELSE ~exceeded

LoopTop ==
    /\ pc = "top"
    /\ pc' = IF CloseTest(1) THEN "limit" ELSE "eof"
    /\ UNCHANGED <<queueVars, ingestVars, closeVars, stopRequested,
                   isEof, status, closed, controlFin, outcome>>

LoopLimit ==
    /\ pc = "limit"
    /\ closed' = CloseTest(2)
    /\ pc' = IF CloseTest(2) THEN "exit" ELSE "eof"
    /\ UNCHANGED <<queueVars, ingestVars, closeVars, stopRequested,
                   isEof, status, controlFin, outcome>>

LoopReadsEof ==
    /\ pc = "eof"
    /\ isEof' = Queue!Done
    /\ pc' = "drain"
    /\ UNCHANGED <<queueVars, ingestVars, closeVars, stopRequested,
                   status, closed, controlFin, outcome>>

(* drain_queue: the queue's limit, then media events, then the next entry. *)
DrainChecks ==
    /\ pc = "drain"
    /\ IF exceeded THEN LeaveLoop("resource")
       ELSE \/ pc' = "pop" /\ UNCHANGED status
            \/ LeaveLoop("failed")
    /\ UNCHANGED <<queueVars, ingestVars, closeVars, stopRequested,
                   isEof, closed, controlFin, outcome>>

DrainPops ==
    /\ pc = "pop" /\ entries # <<>>
    /\ Queue!TryPop
    /\ pc' = "serve"
    /\ UNCHANGED <<ingestVars, closeVars, stopRequested,
                   isEof, status, closed, controlFin, outcome>>

DrainEmpty ==
    /\ pc = "pop" /\ entries = <<>>
    /\ pc' = "control"
    /\ UNCHANGED <<queueVars, ingestVars, closeVars, stopRequested,
                   isEof, status, closed, controlFin, outcome>>

(* The fragment's track is not subscribed, or waits for a new group. *)
FragmentSkipped ==
    /\ pc = "serve"
    /\ pc' = "drain"
    /\ UNCHANGED <<queueVars, ingestVars, closeVars, stopRequested,
                   isEof, status, closed, controlFin, outcome>>

(* The fragment is admitted to its stream, or is no longer wanted. *)
ServeEnds ==
    /\ pc = "serve" /\ ~transportClosed
    /\ IF exceeded THEN LeaveLoop("resource")
       ELSE pc' = "drain" /\ UNCHANGED status
    /\ UNCHANGED <<queueVars, ingestVars, closeVars, stopRequested,
                   isEof, closed, controlFin, outcome>>

(* A blocked serve polls the control stream and may see its end. *)
ServeBlocked ==
    /\ pc = "serve" /\ ~transportClosed /\ ~exceeded
    /\ controlFin' = TRUE
    /\ UNCHANGED <<queueVars, ingestVars, closeVars, stopRequested,
                   pc, isEof, status, closed, outcome>>

ServeFails ==
    /\ pc = "serve"
    /\ LeaveLoop("failed")
    /\ UNCHANGED <<queueVars, ingestVars, closeVars, stopRequested,
                   isEof, closed, controlFin, outcome>>

\* Mutant: a blocked serve does not ask the queue for its limit.
BlockedServeMustEndMutant == transportClosed

(* An iteration of a blocked serve ends it when the write fails on the
   closed transport, or when the queue has exceeded its limit. *)
BlockedServeMustEnd == transportClosed \/ exceeded

BlockedServeEnds ==
    /\ pc = "serve" /\ BlockedServeMustEnd
    /\ LeaveLoop(IF transportClosed THEN "failed" ELSE "resource")
    /\ UNCHANGED <<queueVars, ingestVars, closeVars, stopRequested,
                   isEof, closed, controlFin, outcome>>

(* Control messages, the catalog, and the read of the control stream. *)
LoopControl ==
    /\ pc = "control"
    /\ controlFin' \in BOOLEAN
    /\ \/ LeaveLoop("failed")
       \/ /\ pc' = IF controlFin' \/ isEof THEN "exit" ELSE "top"
          /\ UNCHANGED status
    /\ UNCHANGED <<queueVars, ingestVars, closeVars, stopRequested,
                   isEof, closed, outcome>>

LoopExit ==
    /\ pc = "exit"
    /\ stopRequested' = TRUE
    /\ pc' = "join"
    /\ UNCHANGED <<queueVars, ingestVars, closeVars,
                   isEof, status, closed, controlFin, outcome>>

(* publishing_status after the join. *)
FinalStatus == IF status = "ok" /\ exceeded THEN "resource" ELSE status

(* The worker is joined; then the groups are finished and the requests are
   ended, any of which may fail, or the subscriptions are terminated. *)
LoopReturns ==
    /\ pc = "join" /\ joiner = "done"
    /\ outcome' \in IF closed THEN {"closed"}
                    ELSE IF FinalStatus = "ok" THEN {"done", "failed"}
                    ELSE {FinalStatus}
    /\ pc' = "returned"
    /\ UNCHANGED <<queueVars, ingestVars, closeVars, stopRequested,
                   isEof, status, closed, controlFin>>

Ingest == WorkerCheck \/ ConnectionLost \/ WorkerAdmit \/ WorkerStoresStop \/ WorkerFed

LoopStep == \/ LoopTop \/ LoopLimit \/ LoopReadsEof \/ DrainChecks \/ DrainPops
            \/ DrainEmpty \/ BlockedServeEnds \/ LoopControl \/ LoopExit \/ LoopReturns

Terminated == pc = "returned" /\ UNCHANGED vars

Next == \/ Ingest \/ JoinerMarksEof \/ Close \/ CloseTransport \/ LoopStep
        \/ FragmentSkipped \/ ServeEnds \/ ServeBlocked \/ ServeFails \/ Terminated

(* Receptions time out after 200 ms, so the worker keeps checking the
   flag; the other threads run.  Nothing makes the peer take a fragment:
   a serve may stay blocked for ever unless BlockedServeEnds applies. *)
Fairness ==
    /\ WF_vars(WorkerCheck) /\ WF_vars(WorkerStoresStop) /\ WF_vars(WorkerFed)
    /\ WF_vars(JoinerMarksEof) /\ WF_vars(CloseTransport) /\ WF_vars(LoopStep)

Spec == Init /\ [][Next]_vars /\ Fairness
-----------------------------------------------------------------------------
(* publish_live reports success for "closed" and for "done".  It ends as
   closed only if close() ran: the flag that admit sets is never mistaken
   for it.  It ends as done only if no media was lost to the queue's limit
   whenever that push happened: subscriptions are told otherwise. *)
EndsForItsReason == /\ closed => closeCalled
                    /\ outcome = "done" => ~exceeded

(* A publish that ends with its input, and not because the peer closed the
   control stream, has taken every admitted fragment from the queue. *)
EofDrainsQueue == outcome = "done" /\ ~controlFin => entries = <<>>

(* A live SRT publish that ends as a success ended for the reason it
   reports and has taken every admitted fragment from the queue. *)
SrtEndsSound == EndsForItsReason /\ EofDrainsQueue

(* close() and an exceeded limit both end the publish, even when the peer
   blocks it for ever. *)
PublishEnds == (closeCalled \/ exceeded) ~> (pc = "returned")
=============================================================================
