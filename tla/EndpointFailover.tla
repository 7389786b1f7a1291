-------------------------- MODULE EndpointFailover --------------------------
(* Publishing DASH live input with retries and endpoint failover
   (endpoint_failover.cpp, wired up in main.cpp, each attempt a
   Publisher::publish_live_objects of publisher_api.cpp).
   publish_with_failover() tries the endpoints in order, each up to its
   retry budget; ReplayableLiveObjectSource keeps the newest objects
   handed to a session and hands them out again to the next one.  A signal
   may arrive at any time and only sets stop_signal; the stop monitor's
   thread then calls disconnect() until the publish has returned.

   An object is its position in the source.  Of its contents only what
   begin_attempt() looks at is kept: the catalog, a video group boundary
   (object 0 of a video track), or anything else.  A session takes objects
   and ends in any way; what it does with them is in other modules. *)
EXTENDS Integers, Sequences, FiniteSetsExt

CONSTANTS Endpoints,     \* number of configured endpoints
          RetryCount,    \* retry_count
          QueueDepth,    \* dash_queue_depth, as passed to the constructor
          MaxObjects     \* bound: objects the source produces

ASSUME EndpointsAssumption == Endpoints \in Nat \ {0}
ASSUME RetryCountAssumption == RetryCount \in Nat
ASSUME QueueDepthAssumption == QueueDepth \in Nat
ASSUME MaxObjectsAssumption == MaxObjects \in Nat

Kinds == {"catalog", "boundary", "other"}
Statuses == {"ok", "retryable", "permanent", "fatal", "cancelled"}
None == 0

VARIABLES pc,               \* the publishing thread's next step
          endpoint,         \* endpoint_index
          attempt,          \* attempt, from 1
          status,           \* last_status
          stopSignal,       \* stop_signal # 0
          monitor,          \* the stop monitor: "watching", "closing" or "over"
          stopRequested,    \* Publisher::stop_requested_
          sessionClosed,    \* disconnect() has closed the running session
          attemptCount,     \* attempt_count_
          retainedCatalog,  \* retained_catalog_
          retained,         \* retained_
          replay,           \* replay_
          source,           \* the objects taken from source_ so far
          sourceFinished,   \* source_.is_finished()
          delivered,        \* history: what this session was handed, in order
          before,           \* history: Len(source) when this attempt began
          sessions,         \* history: sessions begun at each endpoint
          rejected,         \* history: endpoints that failed permanently
          dropped           \* history: a begin_attempt() threw away replay_

policyVars == <<pc, endpoint, attempt, status>>
windowVars == <<attemptCount, retainedCatalog, retained, replay>>
historyVars == <<delivered, before, sessions, rejected, dropped>>
stopVars == <<monitor, stopRequested, sessionClosed>>
vars == <<policyVars, windowVars, historyVars, stopVars, source, sourceFinished,
          stopSignal>>

MaxAttempts == RetryCount + 1

MaxBufferedObjects == IF QueueDepth = 0 THEN 1 ELSE QueueDepth

Init ==
    /\ pc = "attempt" /\ endpoint = 1 /\ attempt = 1 /\ status = "retryable"
    /\ attemptCount = 0 /\ retainedCatalog = None /\ retained = <<>> /\ replay = <<>>
    /\ source = <<>> /\ sourceFinished = FALSE
    /\ stopSignal = FALSE /\ monitor = "watching"
    /\ stopRequested = FALSE /\ sessionClosed = FALSE
    /\ delivered = <<>> /\ before = 0 /\ dropped = FALSE
    /\ sessions = [e \in 1..Endpoints |-> 0] /\ rejected = {}

-----------------------------------------------------------------------------
(* ReplayableLiveObjectSource *)

IsBoundary(p) == source[p] = "boundary"

\* Mutant: the replay starts at the oldest boundary.
ReplayTailOldestMutant(window) ==
    LET boundaries == {i \in DOMAIN window : IsBoundary(window[i])}
    IN  SubSeq(window, IF boundaries = {} THEN 1 ELSE Min(boundaries), Len(window))

\* What begin_attempt() copies: from the last boundary on, or all of it.
ReplayTail(window) ==
    LET boundaries == {i \in DOMAIN window : IsBoundary(window[i])}
    IN  SubSeq(window, IF boundaries = {} THEN 1 ELSE Max(boundaries), Len(window))

ReplayFrom ==
    (IF retainedCatalog = None THEN <<>> ELSE <<retainedCatalog>>)
        \o ReplayTail(retained)

\* On the first attempt retained_ is empty, so clearing it is no change.
BeginAttempt ==
    /\ attemptCount' = attemptCount + 1
    /\ replay' = IF attemptCount = 0 THEN <<>> ELSE ReplayFrom
    /\ retained' = <<>>
    /\ UNCHANGED retainedCatalog

Retain(p) ==
    LET grown == Append(retained, p)
    IN  IF Len(grown) > MaxBufferedObjects THEN Tail(grown) ELSE grown

\* next_object() while replay_ holds something.
NextReplayed ==
    /\ pc = "session" /\ replay # <<>>
    /\ replay' = Tail(replay)
    /\ retained' = IF source[Head(replay)] = "catalog" THEN retained
                                                       ELSE Retain(Head(replay))
    /\ delivered' = Append(delivered, Head(replay))
    /\ UNCHANGED <<policyVars, attemptCount, retainedCatalog, before, sessions,
                   rejected, dropped, stopVars, source, sourceFinished, stopSignal>>

\* next_object() from source_, whose first object is a catalog.
NextFromSource(kind) ==
    LET position == Len(source) + 1
    IN  /\ pc = "session" /\ replay = <<>>
        /\ ~sourceFinished /\ Len(source) < MaxObjects
        /\ source = <<>> => kind = "catalog"
        /\ source' = Append(source, kind)
        /\ delivered' = Append(delivered, position)
        /\ IF kind = "catalog"
             THEN retainedCatalog' = position /\ UNCHANGED retained
             ELSE retained' = Retain(position) /\ UNCHANGED retainedCatalog
        /\ UNCHANGED <<policyVars, attemptCount, replay, before, sessions,
                       rejected, dropped, stopVars, sourceFinished, stopSignal>>

IsFinished == replay = <<>> /\ sourceFinished

-----------------------------------------------------------------------------
(* publish_with_failover(): what it does with the status of an attempt *)

\* The callback of main.cpp: a failure is a cancellation once stop_signal is set.
Reported(kind) == IF kind # "ok" /\ stopSignal THEN "cancelled" ELSE kind

\* The endpoint is given up: a permanent failure, or its last attempt.
MovesOn == status' = "permanent" \/ attempt = MaxAttempts

Advance ==
    IF endpoint < Endpoints
      THEN pc' = "attempt" /\ endpoint' = endpoint + 1 /\ attempt' = 1
      ELSE pc' = "done" /\ UNCHANGED <<endpoint, attempt>>

Retry == pc' = "wait" /\ attempt' = attempt + 1 /\ UNCHANGED endpoint

AttemptReturns(kind) ==
    /\ status' = Reported(kind)
    /\ CASE status' \in {"ok", "cancelled", "fatal"} ->
                pc' = "done" /\ UNCHANGED <<endpoint, attempt>>
         [] status' \in {"retryable", "permanent"} /\ MovesOn -> Advance
         [] OTHER -> Retry
    /\ rejected' = IF status' = "permanent" THEN rejected \cup {endpoint}
                                            ELSE rejected

\* retry_wait() returns after the delay, or early on a signal.
RetryWaitOver ==
    /\ pc = "wait"
    /\ pc' = "attempt"
    /\ UNCHANGED <<endpoint, attempt, status, windowVars, historyVars, stopVars,
                   source, sourceFinished, stopSignal>>

-----------------------------------------------------------------------------
(* One attempt: the callback, then Publisher::publish_live_objects *)

\* The callback finds stop_signal set and publishes nothing.
AttemptCancelled ==
    /\ pc = "attempt" /\ stopSignal
    /\ AttemptReturns("cancelled")
    /\ UNCHANGED <<windowVars, delivered, before, sessions, dropped, stopVars,
                   source, sourceFinished, stopSignal>>

StartAttempt ==
    /\ pc = "attempt" /\ ~stopSignal
    /\ BeginAttempt
    /\ pc' = "entering"
    /\ delivered' = <<>> /\ before' = Len(source)
    /\ sessions' = [sessions EXCEPT ![endpoint] = @ + 1]
    /\ dropped' = (dropped \/ replay # <<>>)
    /\ UNCHANGED <<endpoint, attempt, status, rejected, stopVars, source,
                   sourceFinished, stopSignal>>

\* publish_live_objects() forgets any earlier disconnect().
EnterPublish ==
    /\ pc = "entering"
    /\ pc' = "creating"
    /\ stopRequested' = FALSE /\ sessionClosed' = FALSE
    /\ UNCHANGED <<endpoint, attempt, status, monitor, windowVars, historyVars,
                   source, sourceFinished, stopSignal>>

\* set_active_session() and, after connect(), finish_connect(): both look at
\* stop_requested_, since disconnect() leaves a connecting session alone.
SetActiveSession ==
    /\ pc = "creating"
    /\ \/ /\ stopRequested
          /\ AttemptReturns("ok")
       \/ /\ ~stopRequested
          /\ pc' = "connecting"
          /\ UNCHANGED <<endpoint, attempt, status, rejected>>
    /\ UNCHANGED <<windowVars, delivered, before, sessions, dropped, stopVars,
                   source, sourceFinished, stopSignal>>

FinishConnect ==
    /\ pc = "connecting"
    /\ \/ /\ stopRequested
          /\ AttemptReturns("ok")
       \/ /\ ~stopRequested
          /\ AttemptReturns("retryable")
       \/ /\ ~stopRequested
          /\ pc' = "session"
          /\ UNCHANGED <<endpoint, attempt, status, rejected>>
    /\ UNCHANGED <<windowVars, delivered, before, sessions, dropped, stopVars,
                   source, sourceFinished, stopSignal>>

\* The session succeeds at the end of the source; a failure after disconnect()
\* counts as success.
SessionEnds(kind) ==
    /\ pc = "session"
    /\ kind = "ok" => IsFinished
    /\ AttemptReturns(IF stopRequested THEN "ok" ELSE kind)
    /\ UNCHANGED <<windowVars, delivered, before, sessions, dropped, stopVars,
                   source, sourceFinished, stopSignal>>

-----------------------------------------------------------------------------
(* The signal handler, the stop monitor and the end of the DASH input *)

SignalStop ==
    /\ ~stopSignal
    /\ stopSignal' = TRUE
    /\ UNCHANGED <<policyVars, windowVars, historyVars, stopVars, source,
                   sourceFinished>>

MonitorSeesSignal ==
    /\ monitor = "watching" /\ stopSignal
    /\ monitor' = "closing"
    /\ UNCHANGED <<policyVars, windowVars, historyVars, stopRequested,
                   sessionClosed, source, sourceFinished, stopSignal>>

\* Mutant: disconnect() is called only once.
DisconnectOnceMutant ==
    /\ monitor = "closing"
    /\ monitor' = "over"
    /\ stopRequested' = TRUE
    /\ sessionClosed' = (sessionClosed \/ pc = "session")
    /\ sourceFinished' = TRUE
    /\ UNCHANGED <<policyVars, windowVars, historyVars, source, stopSignal>>

\* One round of the closer: disconnect(), which closes a session that is not
\* connecting, and the stop of the DASH server.
Disconnect ==
    /\ monitor = "closing"
    /\ stopRequested' = TRUE
    /\ sessionClosed' = (sessionClosed \/ pc = "session")
    /\ sourceFinished' = TRUE
    /\ UNCHANGED <<policyVars, windowVars, historyVars, monitor, source, stopSignal>>

MonitorEnds ==
    /\ pc = "done" /\ monitor # "over"
    /\ monitor' = "over"
    /\ UNCHANGED <<policyVars, windowVars, historyVars, stopRequested,
                   sessionClosed, source, sourceFinished, stopSignal>>

\* The DASH session closes itself on input it cannot use.
SourceFinishes ==
    /\ ~sourceFinished
    /\ sourceFinished' = TRUE
    /\ UNCHANGED <<policyVars, windowVars, historyVars, stopVars, source, stopSignal>>

SessionOutcomes == {"ok", "retryable", "permanent", "fatal"}

PublishThread ==
    \/ AttemptCancelled
    \/ StartAttempt
    \/ EnterPublish
    \/ SetActiveSession
    \/ FinishConnect
    \/ RetryWaitOver

Next ==
    \/ PublishThread
    \/ NextReplayed
    \/ \E kind \in Kinds : NextFromSource(kind)
    \/ \E kind \in SessionOutcomes : SessionEnds(kind)
    \/ SignalStop
    \/ MonitorSeesSignal
    \/ Disconnect
    \/ MonitorEnds
    \/ SourceFinishes

\* The publishing thread and the stop monitor keep running.  A session may
\* last for ever, unless disconnect() has closed it.
Fairness ==
    /\ WF_vars(PublishThread)
    /\ WF_vars(sessionClosed /\ \E kind \in SessionOutcomes : SessionEnds(kind))
    /\ WF_vars(MonitorSeesSignal)
    /\ WF_vars(Disconnect)

Spec == Init /\ [][Next]_vars /\ Fairness

-----------------------------------------------------------------------------
(* Properties *)

\* Type invariant: the replay window names objects that were taken from the
\* source, and the loop's indices stay inside the endpoints and the budget.
TypeOK ==
    /\ pc \in {"attempt", "entering", "creating", "connecting", "session",
              "wait", "done"}
    /\ endpoint \in 1..Endpoints /\ attempt \in 1..MaxAttempts
    /\ status \in Statuses
    /\ attemptCount \in 0..Endpoints * MaxAttempts
    /\ retainedCatalog \in {None} \cup DOMAIN source
    /\ retained \in Seq(DOMAIN source) /\ replay \in Seq(DOMAIN source)
    /\ source \in Seq(Kinds) /\ Len(source) <= MaxObjects
    /\ delivered \in Seq(DOMAIN source) /\ before \in 0..Len(source)
    /\ sessions \in [1..Endpoints -> 0..MaxAttempts]
    /\ rejected \subseteq 1..Endpoints
    /\ monitor \in {"watching", "closing", "over"}
    /\ stopRequested \in BOOLEAN /\ sessionClosed \in BOOLEAN
    /\ sourceFinished \in BOOLEAN /\ stopSignal \in BOOLEAN /\ dropped \in BOOLEAN

IsMedia(p) == source[p] # "catalog"
MediaUpTo(n) == {p \in 1..n : IsMedia(p)}

\* The newest MaxBufferedObjects media objects of the earlier sessions, and
\* the video group boundaries among them.
Window ==
    {p \in MediaUpTo(before) :
        Cardinality({q \in MediaUpTo(before) : q > p}) < MaxBufferedObjects}
WindowBoundaries == {p \in Window : IsBoundary(p)}

\* Where a new session should resume: at the newest boundary in the window,
\* at the window's oldest object if it has none, else in the source.
ResumePoint ==
    CASE WindowBoundaries # {} -> Max(WindowBoundaries)
      [] WindowBoundaries = {} /\ Window # {} -> Min(Window)
      [] OTHER -> before + 1

Due == {p \in MediaUpTo(Len(source)) : p >= ResumePoint}

\* In one session no object comes twice or behind a later one, whatever mixture
\* of replay_ and source_ it came from.  As long as no replay has been thrown away
\* half-read, it is handed the source's media from the resume point on, and each
\* only after all that was due before it (begin_attempt, next_object).
ReplayIsExact ==
    /\ \A i, j \in DOMAIN delivered :
          i < j /\ IsMedia(delivered[i]) /\ IsMedia(delivered[j])
              => delivered[i] < delivered[j]
    /\ ~dropped =>
        \A i \in DOMAIN delivered : IsMedia(delivered[i]) =>
          /\ delivered[i] \in Due
          /\ \A p \in Due : p < delivered[i] => \E j \in 1..i - 1 : delivered[j] = p

\* A replacement session gets the newest catalog of the earlier sessions
\* before anything else, however those sessions ended.
CatalogFirst ==
    LET catalogs == {p \in 1..before : ~IsMedia(p)}
    IN  attemptCount > 1 /\ catalogs # {} /\ delivered # <<>>
            => delivered[1] = Max(catalogs)

\* The end of the source ends a publish only once the session was handed all
\* that was due to it, replay included (is_finished of source()).
EofDrainsReplay ==
    pc = "done" /\ status = "ok" /\ ~stopSignal /\ ~dropped
        => Due \subseteq Range(delivered)

\* buffered_objects() never exceeds the window and the retained catalog.
BufferBounded == Len(retained) + Len(replay) <= MaxBufferedObjects + 1

\* Endpoints are left in order, each only after its whole budget or a
\* permanent failure; the loop gives up as a whole only after the last.
FailoverOrder ==
    LET spent(e) == sessions[e] = MaxAttempts \/ (e \in rejected /\ sessions[e] > 0)
    IN  /\ \A e \in 1..Endpoints : /\ e < endpoint => spent(e)
                                   /\ e > endpoint => sessions[e] = 0
        /\ pc = "done" /\ status \in {"retryable", "permanent"} => spent(endpoint)

\* What a retry resumes with is exact and bounded, and the endpoints are used
\* in order, over any mixture of failures, replays and stops.
ReplaySound ==
    /\ TypeOK /\ ReplayIsExact /\ CatalogFirst /\ EofDrainsReplay
    /\ BufferBounded /\ FailoverOrder

\* A stop signal ends the publish, wherever it arrives: in a wait, while
\* connecting, or just before publish_live_objects() clears stop_requested_.
StopEnds == stopSignal ~> pc = "done"
=============================================================================
